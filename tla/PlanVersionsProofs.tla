------------------------- MODULE PlanVersionsProofs -------------------------
(***************************************************************************)
(* Proofs about PlanVersions, for every set of plans, documents, sessions  *)
(* and every bound.                                                        *)
(***************************************************************************)
EXTENDS PlanVersions, Sequences, FiniteSetTheorems, SequenceTheorems, WellFoundedInduction, TLAPS

-----------------------------------------------------------------------------
(* Version numbers of a set of rows *)

(* A version number is one of the plan's exactly when its row is there. *)
LEMMA VersionsAreRows ==
    ASSUME NEW R \in SUBSET Rows, NEW p \in Plans, NEW v \in Nat \ {0}
    PROVE  v \in VersionsIn(p, R) <=> <<p, v>> \in R
  BY DEF VersionsIn, VersionOf, PlanOf, Rows

LEMMA VersionsArePositive ==
    ASSUME NEW R \in SUBSET Rows, NEW p \in Plans
    PROVE  VersionsIn(p, R) \subseteq Nat \ {0}
  BY DEF VersionsIn, VersionOf, PlanOf, Rows

LEMMA MaxOfPrefix ==
    ASSUME NEW n \in Nat
    PROVE  Max({0} \union 1 .. n) = n
  <1>1. n \in {0} \union 1 .. n /\ \A y \in {0} \union 1 .. n : n >= y
    OBVIOUS
  <1>2. \A x \in {0} \union 1 .. n :
            (\A y \in {0} \union 1 .. n : x >= y) => x = n
    BY <1>1
  <1> QED
    BY <1>1, <1>2 DEF Max

(* Versions 1 to n and no other: the plan is gap-free and n is the newest. *)
LEMMA NewestOfPrefix ==
    ASSUME NEW R, NEW p, NEW n \in Nat, VersionsIn(p, R) = 1 .. n
    PROVE  Newest(p, R) = n /\ GapFreeIn(p, R)
  BY MaxOfPrefix DEF Newest, GapFreeIn

(* Gap-freedom of a plan, in terms of its rows. *)
Prefix(p, R, n) == \A v \in Nat \ {0} : <<p, v>> \in R <=> v <= n

LEMMA PrefixIsGapFree ==
    ASSUME NEW R \in SUBSET Rows, NEW p \in Plans, NEW n \in Nat, Prefix(p, R, n)
    PROVE  GapFreeIn(p, R) /\ Newest(p, R) = n
  <1>1. \A v \in Nat \ {0} : v \in VersionsIn(p, R) <=> v <= n
    BY VersionsAreRows DEF Prefix
  <1>2. VersionsIn(p, R) \subseteq Nat \ {0}
    BY VersionsArePositive
  <1> HIDE DEF VersionsIn
  <1>3. VersionsIn(p, R) \subseteq 1 .. n
    BY <1>1, <1>2
  <1>4. 1 .. n \subseteq VersionsIn(p, R)
    <2>1. \A v \in 1 .. n : v \in Nat \ {0} /\ v <= n
      OBVIOUS
    <2> QED
      BY <1>1, <2>1
  <1>5. VersionsIn(p, R) = 1 .. n
    BY <1>3, <1>4
  <1> QED
    BY <1>5, NewestOfPrefix

LEMMA GapFreeIsPrefix ==
    ASSUME NEW R \in SUBSET Rows, NEW p \in Plans, GapFreeIn(p, R)
    PROVE  Newest(p, R) \in Nat /\ Prefix(p, R, Newest(p, R))
  <1>1. Newest(p, R) \in Nat
    BY DEF GapFreeIn
  <1>2. \A v \in Nat \ {0} : v \in VersionsIn(p, R) <=> v <= Newest(p, R)
    BY <1>1 DEF GapFreeIn
  <1> QED
    BY <1>1, <1>2, VersionsAreRows DEF Prefix

(* A victim of the deadlock detector loses its transaction as by any other abort. *)
LEMMA VictimAborts == \A s \in Sessions : DeadlockVictim(s) => Abort(s)
  <1> SUFFICES ASSUME NEW s \in Sessions, DeadlockVictim(s) PROVE Abort(s)
    OBVIOUS
  <1>1. PICK C \in SUBSET Sessions : s \in C /\ Deadlocked(C)
    BY DEF DeadlockVictim
  <1>2. PICK t \in C : WaitsFor(s, t)
    BY <1>1 DEF Deadlocked
  <1>3. ses[s].stage # "idle"
    BY <1>2 DEF WaitsFor, Wanted
  <1> QED
    BY <1>3 DEF DeadlockVictim, Abort

-----------------------------------------------------------------------------
(* Type correctness and gap-free version numbers *)

IInv == TypeOK /\ NumberingInv

LEMMA InitInv == Init => IInv
  <1> SUFFICES ASSUME Init PROVE IInv
    OBVIOUS
  <1>1. Stored = {} /\ \A s \in Sessions : DOMAIN new[s] = {}
    BY DEF Init, Stored, NoRows
  <1>2. TypeOK
    BY <1>1 DEF Init, TypeOK, SessionType, Idle, Stages, Kinds, NoRows, Stored
  <1>3. \A p \in Plans : GapFreeIn(p, {})
    BY PrefixIsGapFree DEF Prefix
  <1>4. \A s \in Sessions : SeenRows(s) = {}
    BY <1>1 DEF SeenRows
  <1>5. NumberingInv
    BY <1>1, <1>3, <1>4 DEF NumberingInv, VersionsGapFree, Init, Idle
  <1> QED
    BY <1>2, <1>5 DEF IInv
(* The step from one view of the table to a larger one keeps what was gap-free   *)
(* gap-free when only the next number of one plan is added.                      *)
LEMMA AppendNext ==
    ASSUME NEW R \in SUBSET Rows, NEW p \in Plans, NEW v \in Nat \ {0},
           \A q \in Plans : GapFreeIn(q, R),
           <<p, v>> \notin R, v = 1 \/ <<p, v - 1>> \in R
    PROVE  \A q \in Plans : GapFreeIn(q, R \union {<<p, v>>})
  <1> SUFFICES ASSUME NEW q \in Plans PROVE GapFreeIn(q, R \union {<<p, v>>})
    OBVIOUS
  <1> DEFINE n == Newest(q, R)
  <1>1. n \in Nat /\ Prefix(q, R, n)
    BY GapFreeIsPrefix
  <1>2. R \union {<<p, v>>} \in SUBSET Rows
    BY DEF Rows
  <1>3. CASE q = p
    <2>1. v > n
      BY <1>1, <1>3 DEF Prefix
    <2>2. v = 1 \/ v - 1 <= n
      BY <1>1, <1>3 DEF Prefix
    <2>3. v = n + 1
      BY <2>1, <2>2, <1>1
    <2>4. Prefix(q, R \union {<<p, v>>}, n + 1)
      BY <1>1, <1>3, <2>3 DEF Prefix
    <2> QED
      BY <1>1, <1>2, <2>4, PrefixIsGapFree
  <1>4. CASE q # p
    <2>1. Prefix(q, R \union {<<p, v>>}, n)
      BY <1>1, <1>4 DEF Prefix
    <2> QED
      BY <1>1, <1>2, <2>1, PrefixIsGapFree
  <1> QED
    BY <1>3, <1>4

(* Two sessions with different uncommitted rows over the same committed ones: if *)
(* each sees gap-free versions, so does one of them after the other's commit.    *)
LEMMA MergeViews ==
    ASSUME NEW R \in SUBSET Rows, NEW A \in SUBSET Rows, NEW B \in SUBSET Rows,
           NEW p \in Plans,
           GapFreeIn(p, R), GapFreeIn(p, R \union A), GapFreeIn(p, R \union B),
           A \cap R = {}, B \cap R = {}, A \cap B = {}
    PROVE  GapFreeIn(p, R \union A \union B)
  <1> DEFINE n == Newest(p, R)
             a == Newest(p, R \union A)
             b == Newest(p, R \union B)
  <1>1. /\ n \in Nat /\ Prefix(p, R, n)
        /\ a \in Nat /\ Prefix(p, R \union A, a)
        /\ b \in Nat /\ Prefix(p, R \union B, b)
    BY GapFreeIsPrefix
  <1> HIDE DEF n, a, b
  <1>2. n <= a /\ n <= b
    <2>1. CASE n = 0
      BY <1>1, <2>1
    <2>2. CASE n # 0
      <3>1. n \in Nat \ {0} /\ n <= n
        BY <1>1, <2>2
      <3>2. <<p, n>> \in R
        BY <1>1, <3>1 DEF Prefix
      <3> QED
        BY <1>1, <3>1, <3>2 DEF Prefix
    <2> QED
      BY <2>1, <2>2
  <1>3. a = n \/ b = n
    <2>1. SUFFICES ASSUME a > n, b > n PROVE FALSE
      BY <1>1, <1>2
    <2>2. <<p, n + 1>> \notin R
      BY <1>1 DEF Prefix
    <2>3. <<p, n + 1>> \in R \union A /\ <<p, n + 1>> \in R \union B
      BY <1>1, <2>1 DEF Prefix
    <2> QED
      BY <2>2, <2>3
  <1>4. R \union A \union B \in SUBSET Rows
    OBVIOUS
  <1>5. CASE a = n
    <2>1. Prefix(p, R \union A \union B, b)
      BY <1>1, <1>2, <1>5 DEF Prefix
    <2> QED
      BY <1>1, <1>4, <2>1, PrefixIsGapFree
  <1>6. CASE b = n
    <2>1. Prefix(p, R \union A \union B, a)
      BY <1>1, <1>2, <1>6 DEF Prefix
    <2> QED
      BY <1>1, <1>4, <2>1, PrefixIsGapFree
  <1> QED
    BY <1>3, <1>5, <1>6

-----------------------------------------------------------------------------
(* Preservation, one lemma per kind of step *)

(* A statement that inserts no row and does not lead to an insert. *)
LEMMA QuietStep ==
    ASSUME IInv, NEW s \in Sessions, NEW req \in SessionType, Moved(s, req),
           req.stage # "insert",
           req.stage = "number" => req.plan \in Plans /\ req.wants \in Contents,
           req.stage \in {"scan", "lock", "flip"} => req.target \in Rows
    PROVE  IInv'
  <1>1. TypeOK'
    BY DEF IInv, TypeOK, Moved
  <1>2. Stored' = Stored /\ \A t \in Sessions : SeenRows(t)' = SeenRows(t)
    BY DEF Moved, Stored, SeenRows
  <1>3. \A t \in Sessions : ses'[t].stage = "insert" => ses'[t] = ses[t]
    BY DEF IInv, TypeOK, Moved
  <1>4. NumberingInv'
    BY <1>2, <1>3 DEF IInv, NumberingInv, VersionsGapFree, GapFreeIn, Newest, Moved
  <1> QED
    BY <1>1, <1>4 DEF IInv

(* The same for a request that arrives. *)
LEMMA BeginStep ==
    ASSUME IInv, NEW s \in Sessions, NEW req \in SessionType, Begin(s, req),
           req.stage # "insert",
           req.stage = "number" => req.plan \in Plans /\ req.wants \in Contents,
           req.stage \in {"scan", "lock", "flip"} => req.target \in Rows
    PROVE  IInv'
  <1>1. TypeOK'
    BY DEF IInv, TypeOK, Begin
  <1>2. Stored' = Stored /\ \A t \in Sessions : SeenRows(t)' = SeenRows(t)
    BY DEF Begin, Stored, SeenRows
  <1>3. \A t \in Sessions : ses'[t].stage = "insert" => ses'[t] = ses[t]
    BY DEF IInv, TypeOK, Begin
  <1>4. NumberingInv'
    BY <1>2, <1>3 DEF IInv, NumberingInv, VersionsGapFree, GapFreeIn, Newest, Begin
  <1> QED
    BY <1>1, <1>4 DEF IInv

LEMMA IdleType == Idle \in SessionType /\ Idle.stage = "idle"
  BY DEF Idle, SessionType, Stages, Kinds

LEMMA RollbackStep ==
    ASSUME IInv, NEW s \in Sessions, RolledBack(s)
    PROVE  IInv'
  <1>1. TypeOK'
    BY IdleType DEF IInv, TypeOK, RolledBack, NoRows
  <1>2. Stored' = Stored /\ SeenRows(s)' = Stored
    BY DEF IInv, TypeOK, RolledBack, Stored, SeenRows, NoRows
  <1>3. \A t \in Sessions \ {s} :
            ses'[t] = ses[t] /\ new'[t] = new[t] /\ SeenRows(t)' = SeenRows(t)
    BY DEF IInv, TypeOK, RolledBack, Stored, SeenRows
  <1>4. ses'[s].stage # "insert" /\ DOMAIN new'[s] = {}
    BY IdleType DEF IInv, TypeOK, RolledBack, NoRows
  <1>5. VersionsGapFree'
    BY <1>2 DEF IInv, NumberingInv, VersionsGapFree, GapFreeIn, Newest
  <1>6. ASSUME NEW t \in Sessions, NEW p \in Plans
        PROVE  GapFreeIn(p, SeenRows(t))'
    <2>1. GapFreeIn(p, Stored) /\ GapFreeIn(p, SeenRows(t))
      BY <1>6 DEF IInv, NumberingInv, VersionsGapFree
    <2>2. SeenRows(t)' = Stored \/ SeenRows(t)' = SeenRows(t)
      BY <1>2, <1>3
    <2> QED
      BY <2>1, <2>2 DEF GapFreeIn, Newest
  <1>7. NumberingInv'
    BY <1>2, <1>3, <1>4, <1>5, <1>6 DEF IInv, NumberingInv
  <1> QED
    BY <1>1, <1>7 DEF IInv
(* Laying rows over a table keeps the documents documents. *)
LEMMA OverDomain ==
    ASSUME NEW f, NEW g
    PROVE  DOMAIN Over(f, g) = DOMAIN f \union DOMAIN g
  BY DEF Over

LEMMA OverType ==
    ASSUME NEW f, NEW g, NEW S,
           \A x \in DOMAIN f : f[x] \in S, \A x \in DOMAIN g : g[x] \in S
    PROVE  Over(f, g) \in [DOMAIN f \union DOMAIN g -> S]
  BY DEF Over

LEMMA NumberStep ==
    ASSUME IInv, NEW s \in Sessions, GetNextVersion(s)
    PROVE  IInv'
  <1> DEFINE p == ses[s].plan
             v == NextVersion(p, SeenRows(s))
             req == [ses[s] EXCEPT !.stage = "insert", !.version = v]
  <1>1. p \in Plans /\ SeenRows(s) \in SUBSET Rows /\ ses[s] \in SessionType
    BY DEF IInv, TypeOK, GetNextVersion, SeenRows, Stored
  <1>2. Newest(p, SeenRows(s)) \in Nat /\ Prefix(p, SeenRows(s), Newest(p, SeenRows(s)))
    BY <1>1, GapFreeIsPrefix DEF IInv, NumberingInv
  <1>3. /\ v \in Nat \ {0}
        /\ <<p, v>> \notin SeenRows(s)
        /\ v = 1 \/ <<p, v - 1>> \in SeenRows(s)
    BY <1>2 DEF NextVersion, Prefix
  <1> HIDE DEF v
  <1>4. req \in SessionType /\ req.stage = "insert" /\ req.plan = p /\ req.version = v
    BY <1>1, <1>3 DEF SessionType, Stages
  <1>5. Moved(s, req)
    BY DEF GetNextVersion, v
  <1>6. ses'[s] = req /\ \A t \in Sessions \ {s} : ses'[t] = ses[t]
    BY <1>5 DEF IInv, TypeOK, Moved
  <1>7. TypeOK'
    BY <1>1, <1>4, <1>5 DEF IInv, TypeOK, Moved, GetNextVersion
  <1>8. Stored' = Stored /\ new' = new /\ \A t \in Sessions : SeenRows(t)' = SeenRows(t)
    BY <1>5 DEF Moved, Stored, SeenRows
  <1>9. NumberingInv'
    <2>1. <<p, v>> \notin DOMAIN new[s]
      BY <1>3 DEF SeenRows
    <2>2. ASSUME NEW t \in Sessions, ses'[t].stage = "insert"
          PROVE  /\ ses'[t].version >= 1
                 /\ <<ses'[t].plan, ses'[t].version>> \notin DOMAIN new[t]
                 /\ \/ ses'[t].version = 1
                    \/ <<ses'[t].plan, ses'[t].version - 1>> \in SeenRows(t)
      <3>1. CASE t = s
        BY <3>1, <2>1, <1>3, <1>4, <1>6
      <3>2. CASE t # s
        BY <3>2, <2>2, <1>6 DEF IInv, NumberingInv
      <3> QED
        BY <3>1, <3>2
    <2> QED
      BY <1>8, <2>2 DEF IInv, NumberingInv, VersionsGapFree, GapFreeIn, Newest
  <1> QED
    BY <1>7, <1>9 DEF IInv

LEMMA InsertStep ==
    ASSUME IInv, NEW s \in Sessions, StoreVersion(s)
    PROVE  IInv'
  <1> DEFINE p == ses[s].plan
             v == ses[s].version
             r == <<p, v>>
  <1>1. /\ ses[s].stage = "insert" /\ ses[s] \in SessionType
        /\ p \in Plans /\ ses[s].wants \in Contents /\ v \in Nat
        /\ SeenRows(s) \in SUBSET Rows
    BY DEF IInv, TypeOK, StoreVersion, SeenRows, Stored, SessionType
  <1>2. /\ v \in Nat \ {0}
        /\ r \notin DOMAIN new[s]
        /\ v = 1 \/ <<p, v - 1>> \in SeenRows(s)
    BY <1>1 DEF IInv, NumberingInv
  <1>3. CASE Conflicts(s, r)
    BY <1>3, RollbackStep DEF StoreVersion
  <1>4. CASE ~Conflicts(s, r)
    <2> DEFINE row == [q \in {r} |-> ses[s].wants]
               N == Over(row, new[s])
               stage == IF ses[s].activates THEN "scan" ELSE "finish"
    <2>1. /\ new' = [new EXCEPT ![s] = N]
          /\ ses' = [ses EXCEPT ![s].target = r, ![s].stage = stage]
          /\ UNCHANGED <<content, active, disk, solo>>
          /\ FreeOfOthers(s, {r})
      BY <1>4 DEF StoreVersion
    <2>2. r \in Rows
      BY <1>1, <1>2 DEF Rows
    <2>3. DOMAIN N = DOMAIN new[s] \union {r} /\ N \in [DOMAIN N -> Contents]
      <3>1. DOMAIN row = {r} /\ \A x \in DOMAIN row : row[x] \in Contents
        BY <1>1
      <3>2. \A x \in DOMAIN new[s] : new[s][x] \in Contents
        BY DEF IInv, TypeOK
      <3> HIDE DEF row
      <3>3. N \in [DOMAIN row \union DOMAIN new[s] -> Contents]
        BY <3>1, <3>2, OverType
      <3>4. DOMAIN N = DOMAIN row \union DOMAIN new[s]
        BY OverDomain
      <3> QED
        BY <3>1, <3>3, <3>4
    <2> HIDE DEF N
    <2>4. /\ new'[s] = N /\ ses'[s].stage = stage /\ ses'[s].target = r
          /\ ses'[s] \in SessionType
          /\ \A t \in Sessions \ {s} : new'[t] = new[t] /\ ses'[t] = ses[t]
      BY <1>1, <2>1, <2>2 DEF IInv, TypeOK, SessionType, Stages
    <2>5. TypeOK'
      BY <1>1, <2>1, <2>2, <2>3, <2>4 DEF IInv, TypeOK
    <2>6. /\ Stored' = Stored
          /\ SeenRows(s)' = SeenRows(s) \union {r}
          /\ \A t \in Sessions \ {s} : SeenRows(t)' = SeenRows(t)
      BY <2>1, <2>3, <2>4 DEF Stored, SeenRows
    <2>7. r \notin Stored /\ r \notin SeenRows(s)
      BY <1>2, <1>4 DEF Conflicts, SeenRows
    <2>8. \A q \in Plans : GapFreeIn(q, SeenRows(s) \union {r})
      BY <1>1, <1>2, <2>7, AppendNext DEF IInv, NumberingInv
    <2>9. \A t \in Sessions \ {s} : r \notin DOMAIN new[t]
      BY <2>1 DEF FreeOfOthers, Locked
    <2>10. NumberingInv'
      <3>1. VersionsGapFree'
        BY <2>6 DEF IInv, NumberingInv, VersionsGapFree, GapFreeIn, Newest
      <3>2. ASSUME NEW t \in Sessions, NEW q \in Plans
            PROVE  GapFreeIn(q, SeenRows(t))'
        <4>1. CASE t = s
          BY <4>1, <2>6, <2>8 DEF GapFreeIn, Newest
        <4>2. CASE t # s
          BY <4>2, <2>6 DEF IInv, NumberingInv, GapFreeIn, Newest
        <4> QED
          BY <4>1, <4>2
      <3>6. DOMAIN new'[s] = DOMAIN new[s] \union {r}
        BY <2>3, <2>4
      <3>3. ASSUME NEW t \in Sessions PROVE DOMAIN new'[t] \cap Stored' = {}
        <4>1. DOMAIN new[t] \cap Stored = {}
          BY DEF IInv, NumberingInv
        <4>2. CASE t = s
          BY <4>1, <4>2, <3>6, <2>6, <2>7
        <4>3. CASE t # s
          BY <4>1, <4>3, <2>4, <2>6
        <4> QED
          BY <4>2, <4>3
      <3>4. ASSUME NEW t \in Sessions, NEW u \in Sessions \ {t}
            PROVE  DOMAIN new'[t] \cap DOMAIN new'[u] = {}
        <4>1. DOMAIN new[t] \cap DOMAIN new[u] = {}
          BY DEF IInv, NumberingInv
        <4>2. CASE t = s
          BY <4>1, <4>2, <3>6, <2>4, <2>9
        <4>3. CASE u = s
          BY <4>1, <4>3, <3>6, <2>4, <2>9
        <4>4. CASE t # s /\ u # s
          BY <4>1, <4>4, <2>4
        <4> QED
          BY <4>2, <4>3, <4>4
      <3>5. ses'[s].stage # "insert"
        BY <2>4
      <3> QED
        BY <2>4, <2>6, <3>1, <3>2, <3>3, <3>4, <3>5 DEF IInv, NumberingInv
    <2> QED
      BY <2>5, <2>10 DEF IInv
  <1> QED
    BY <1>3, <1>4

LEMMA CommitStep ==
    ASSUME IInv, NEW s \in Sessions, Commit(s)
    PROVE  IInv'
  <1>1. /\ content' = Over(new[s], content)
        /\ active' = SeenActive(s)
        /\ ses' = [ses EXCEPT ![s] = Idle]
        /\ new' = [new EXCEPT ![s] = NoRows]
        /\ UNCHANGED <<disk, solo>>
    BY DEF Commit
  <1>2. /\ DOMAIN content' = Stored \union DOMAIN new[s]
        /\ content' \in [DOMAIN content' -> Contents]
    <2>1. /\ \A x \in DOMAIN new[s] : new[s][x] \in Contents
          /\ \A x \in DOMAIN content : content[x] \in Contents
      BY DEF IInv, TypeOK, Stored
    <2>2. content' \in [DOMAIN new[s] \union DOMAIN content -> Contents]
      BY <1>1, <2>1, OverType
    <2>3. DOMAIN content' = DOMAIN new[s] \union DOMAIN content
      BY <1>1, OverDomain
    <2> QED
      BY <2>2, <2>3 DEF Stored
  <1>3. /\ new'[s] = NoRows /\ ses'[s] = Idle
        /\ \A t \in Sessions \ {s} : new'[t] = new[t] /\ ses'[t] = ses[t]
    BY <1>1 DEF IInv, TypeOK
  <1>4. active' \subseteq Rows
    BY <1>1 DEF IInv, TypeOK, SeenActive, SessionType
  <1>5. DOMAIN NoRows = {} /\ NoRows \in [{} -> Contents]
    BY DEF NoRows
  <1>6. TypeOK'
    <2>1. DOMAIN content' \subseteq Rows
      BY <1>2 DEF IInv, TypeOK, Stored
    <2>2. ses' \in [Sessions -> SessionType] /\ DOMAIN new' = Sessions
      BY <1>1, IdleType DEF IInv, TypeOK
    <2> QED
      BY <1>1, <1>2, <1>3, <1>4, <1>5, <2>1, <2>2, IdleType DEF IInv, TypeOK
  <1>7. /\ Stored' = SeenRows(s)
        /\ SeenRows(s)' = SeenRows(s)
        /\ \A t \in Sessions \ {s} : SeenRows(t)' = Stored \union DOMAIN new[s] \union DOMAIN new[t]
    BY <1>2, <1>3, <1>5 DEF Stored, SeenRows
  <1>8. ASSUME NEW t \in Sessions \ {s}, NEW p \in Plans
        PROVE  GapFreeIn(p, Stored \union DOMAIN new[s] \union DOMAIN new[t])
    <2>1. /\ Stored \in SUBSET Rows
          /\ DOMAIN new[s] \in SUBSET Rows
          /\ DOMAIN new[t] \in SUBSET Rows
      BY DEF IInv, TypeOK, Stored
    <2>2. /\ GapFreeIn(p, Stored)
          /\ GapFreeIn(p, Stored \union DOMAIN new[s])
          /\ GapFreeIn(p, Stored \union DOMAIN new[t])
      BY DEF IInv, NumberingInv, VersionsGapFree, SeenRows
    <2>3. /\ DOMAIN new[s] \cap Stored = {}
          /\ DOMAIN new[t] \cap Stored = {}
          /\ DOMAIN new[s] \cap DOMAIN new[t] = {}
      BY DEF IInv, NumberingInv
    <2> QED
      BY <2>1, <2>2, <2>3, MergeViews
  <1>9. NumberingInv'
    <2>1. VersionsGapFree'
      BY <1>7 DEF IInv, NumberingInv, VersionsGapFree, GapFreeIn, Newest
    <2>2. ASSUME NEW t \in Sessions, NEW p \in Plans
          PROVE  GapFreeIn(p, SeenRows(t))'
      <3>1. CASE t = s
        BY <3>1, <1>7 DEF IInv, NumberingInv, GapFreeIn, Newest
      <3>2. CASE t # s
        BY <3>2, <1>7, <1>8 DEF GapFreeIn, Newest
      <3> QED
        BY <3>1, <3>2
    <2>3. \A t \in Sessions : DOMAIN new'[t] \cap Stored' = {}
      BY <1>3, <1>5, <1>7 DEF IInv, NumberingInv, SeenRows
    <2>4. \A t \in Sessions : \A u \in Sessions \ {t} :
              DOMAIN new'[t] \cap DOMAIN new'[u] = {}
      BY <1>3, <1>5 DEF IInv, NumberingInv
    <2>5. ses'[s].stage # "insert"
      BY <1>3, IdleType
    <2>6. \A t \in Sessions \ {s} : SeenRows(t) \subseteq SeenRows(t)'
      BY <1>7 DEF SeenRows
    <2> QED
      BY <1>3, <2>1, <2>2, <2>3, <2>4, <2>5, <2>6 DEF IInv, NumberingInv
  <1> QED
    BY <1>6, <1>9 DEF IInv
(* With at least two gap-free versions there is a previous one, and it is stored. *)
LEMMA PreviousIsStored ==
    ASSUME NEW R \in SUBSET Rows, NEW p \in Plans, GapFreeIn(p, R),
           Cardinality(VersionsIn(p, R)) >= 2
    PROVE  Previous(p, R) \in R
  <1> DEFINE n == Newest(p, R)
  <1>1. n \in Nat /\ VersionsIn(p, R) = 1 .. n
    BY DEF GapFreeIn
  <1>2. Cardinality(1 .. n) = n
    BY <1>1, FS_Interval
  <1>3. n - 1 \in Nat \ {0}
    BY <1>1, <1>2
  <1> HIDE DEF n
  <1>4. VersionsIn(p, R) \ {n} = 1 .. (n - 1)
    BY <1>1, <1>3
  <1>5. n - 1 \in 1 .. (n - 1) /\ \A y \in 1 .. (n - 1) : n - 1 >= y
    BY <1>1, <1>3
  <1>6. \A x \in 1 .. (n - 1) : (\A y \in 1 .. (n - 1) : x >= y) => x = n - 1
    BY <1>5
  <1>7. Max(VersionsIn(p, R) \ {n}) = n - 1
    BY <1>4, <1>5, <1>6 DEF Max
  <1>8. Previous(p, R) = <<p, n - 1>>
    BY <1>7 DEF Previous, n
  <1>9. n - 1 \in VersionsIn(p, R)
    BY <1>1, <1>3
  <1> QED
    BY <1>3, <1>8, <1>9, VersionsAreRows

LEMMA RequestStep ==
    ASSUME IInv, NEW s \in Sessions, Request(s)
    PROVE  IInv'
  <1> USE IdleType DEF SessionType, Stages, Kinds
  <1>1. ASSUME NEW p \in Plans, NEW c \in Contents, NEW a \in BOOLEAN, CreateRequest(s, p, c, a)
        PROVE  IInv'
    <2> DEFINE req == [Idle EXCEPT !.stage = "number", !.kind = "create", !.plan = p,
                                   !.wants = c, !.activates = a]
    <2>1. req \in SessionType /\ req.stage = "number" /\ req.plan = p /\ req.wants = c
      OBVIOUS
    <2>2. Begin(s, req)
      BY <1>1 DEF CreateRequest
    <2> HIDE DEF req
    <2> QED
      BY <2>1, <2>2, BeginStep
  <1>2. ASSUME NEW p \in Plans, NEW r \in Stored, ActivateRequest(s, p, r)
        PROVE  IInv'
    <2> DEFINE req == [Idle EXCEPT !.stage = "scan", !.kind = "activate", !.plan = p,
                                   !.target = r]
    <2>1. r \in Rows
      BY <1>2 DEF IInv, TypeOK, Stored
    <2>2. req \in SessionType /\ req.stage = "scan" /\ req.target = r
      BY <2>1
    <2>3. Begin(s, req)
      BY <1>2 DEF ActivateRequest
    <2> HIDE DEF req
    <2> QED
      BY <2>1, <2>2, <2>3, BeginStep
  <1>3. ASSUME NEW p \in Plans, RollbackRequest(s, p)
        PROVE  IInv'
    <2> DEFINE r == Previous(p, Stored)
               req == [Idle EXCEPT !.stage = "scan", !.kind = "rollback", !.plan = p,
                                   !.target = r]
    <2>1. Stored \in SUBSET Rows /\ GapFreeIn(p, Stored)
      BY DEF IInv, TypeOK, NumberingInv, VersionsGapFree, Stored
    <2>2. r \in Rows
      BY <1>3, <2>1, PreviousIsStored DEF RollbackRequest
    <2> HIDE DEF r
    <2>3. req \in SessionType /\ req.stage = "scan" /\ req.target = r
      BY <2>2
    <2>4. Begin(s, req)
      BY <1>3 DEF RollbackRequest, r
    <2> HIDE DEF req
    <2> QED
      BY <2>2, <2>3, <2>4, BeginStep
  <1>4. ASSUME SyncRequest(s)
        PROVE  IInv'
    <2> DEFINE files == {p \in Plans : disk[p] # NoContent}
               req == [Idle EXCEPT !.stage = "files", !.kind = "sync", !.todo = files]
    <2>1. req \in SessionType /\ req.stage = "files"
      OBVIOUS
    <2>2. Begin(s, req)
      BY <1>4 DEF SyncRequest
    <2> HIDE DEF req
    <2> QED
      BY <2>1, <2>2, BeginStep
  <1> QED
    BY <1>1, <1>2, <1>3, <1>4 DEF Request

LEMMA SessionStep ==
    ASSUME IInv, NEW s \in Sessions, Step(s)
    PROVE  IInv'
  <1>1. /\ ses[s] \in SessionType
        /\ active \subseteq Rows
        /\ disk \in [Plans -> Contents \union {NoContent}]
        /\ ses[s].stage \in {"scan", "lock", "flip"} => ses[s].target \in Rows
    BY DEF IInv, TypeOK
  <1> USE <1>1 DEF SessionType, Stages, Kinds
  <1>2. CASE SyncFile(s)
    <2> PICK p \in NextFiles(ses[s].todo) :
            LET rest == [ses[s] EXCEPT !.todo = @ \ {p}]
            IN  IF disk[p] = NoContent THEN RolledBack(s)
                ELSE IF UpToDate(p, disk[p], s) THEN Moved(s, rest)
                ELSE Moved(s, [rest EXCEPT !.stage = "number", !.plan = p, !.wants = disk[p],
                                           !.activates = TRUE])
      BY <1>2 DEF SyncFile
    <2> DEFINE rest == [ses[s] EXCEPT !.todo = @ \ {p}]
               req == [rest EXCEPT !.stage = "number", !.plan = p, !.wants = disk[p],
                                   !.activates = TRUE]
    <2>1. p \in Plans /\ ses[s].stage = "files"
      BY <1>2 DEF NextFiles, SyncFile
    <2>2. CASE disk[p] = NoContent
      BY <2>2, RollbackStep
    <2>3. CASE disk[p] # NoContent /\ UpToDate(p, disk[p], s)
      <3>1. rest \in SessionType /\ rest.stage = "files"
        BY <2>1
      <3>2. Moved(s, rest)
        BY <2>3
      <3> HIDE DEF rest
      <3> QED
        BY <3>1, <3>2, QuietStep
    <2>4. CASE disk[p] # NoContent /\ ~UpToDate(p, disk[p], s)
      <3>1. disk[p] \in Contents
        BY <2>1, <2>4
      <3>2. req \in SessionType /\ req.stage = "number" /\ req.plan = p /\ req.wants = disk[p]
        BY <2>1, <3>1
      <3>3. Moved(s, req)
        BY <2>4
      <3> HIDE DEF req
      <3> QED
        BY <2>1, <3>1, <3>2, <3>3, QuietStep
    <2> QED
      BY <2>2, <2>3, <2>4
  <1>3. CASE SyncDone(s)
    <2> DEFINE req == [ses[s] EXCEPT !.stage = "finish"]
    <2>1. req \in SessionType /\ req.stage = "finish" /\ Moved(s, req)
      BY <1>3 DEF SyncDone
    <2> HIDE DEF req
    <2> QED
      BY <2>1, QuietStep
  <1>4. CASE DeactivateScan(s)
    <2> DEFINE req == [ses[s] EXCEPT !.stage = "lock", !.cand = ToDeactivate(s)]
    <2>1. ToDeactivate(s) \subseteq Rows
      BY DEF ToDeactivate, ActiveOf, SeenActive
    <2>2. req \in SessionType /\ req.stage = "lock" /\ req.target = ses[s].target
      BY <2>1
    <2>3. Moved(s, req) /\ ses[s].target \in Rows
      BY <1>4 DEF DeactivateScan
    <2> HIDE DEF req
    <2> QED
      BY <2>2, <2>3, QuietStep
  <1>5. CASE DeactivateRows(s)
    <2> DEFINE hit == ses[s].cand \cap SeenActive(s)
               req == [ses[s] EXCEPT !.stage = "flip", !.cand = {},
                                     !.held = @ \union ses[s].cand,
                                     !.off = @ \union hit, !.on = @ \ hit]
    <2>1. hit \subseteq Rows
      OBVIOUS
    <2>2. req \in SessionType /\ req.stage = "flip" /\ req.target = ses[s].target
      BY <2>1
    <2>3. Moved(s, req) /\ ses[s].target \in Rows
      BY <1>5 DEF DeactivateRows
    <2> HIDE DEF req
    <2> QED
      BY <2>2, <2>3, QuietStep
  <1>6. CASE ActivateTarget(s)
    <2> DEFINE next == IF ses[s].kind = "sync" THEN "files" ELSE "finish"
               req == [ses[s] EXCEPT !.on = @ \union {ses[s].target},
                                     !.off = @ \ {ses[s].target},
                                     !.held = @ \union {ses[s].target},
                                     !.stage = next]
    <2>1. ses[s].target \in Rows
      BY <1>6 DEF ActivateTarget
    <2>2. req \in SessionType /\ req.stage \in {"files", "finish"}
      BY <2>1
    <2>3. Moved(s, req)
      BY <1>6 DEF ActivateTarget
    <2> HIDE DEF req
    <2> QED
      BY <2>2, <2>3, QuietStep
  <1>7. CASE MismatchAnswer(s)
    BY <1>7, RollbackStep DEF MismatchAnswer
  <1> QED
    BY <1>2, <1>3, <1>4, <1>5, <1>6, <1>7, NumberStep, InsertStep, CommitStep DEF Step

LEMMA DeployStep ==
    ASSUME IInv, NEW p \in Plans, NEW c \in Contents \union {NoContent}, DeployFile(p, c)
    PROVE  IInv'
  <1>1. TypeOK'
    BY DEF IInv, TypeOK, DeployFile
  <1>2. NumberingInv'
    BY DEF IInv, NumberingInv, DeployFile, VersionsGapFree, GapFreeIn, Newest, Stored, SeenRows
  <1> QED
    BY <1>1, <1>2 DEF IInv

LEMMA NextInv == IInv /\ [Next]_vars => IInv'
  <1> SUFFICES ASSUME IInv, [Next]_vars PROVE IInv'
    OBVIOUS
  <1>1. ASSUME NEW s \in Sessions, Abort(s) PROVE IInv'
    BY <1>1, RollbackStep DEF Abort
  <1>2. CASE UNCHANGED vars
    <2>1. TypeOK'
      BY <1>2 DEF IInv, TypeOK, vars
    <2>2. NumberingInv'
      BY <1>2 DEF IInv, NumberingInv, vars, VersionsGapFree, GapFreeIn, Newest, Stored, SeenRows
    <2> QED
      BY <2>1, <2>2 DEF IInv
  <1> QED
    BY <1>1, <1>2, VictimAborts, RequestStep, SessionStep, DeployStep DEF Next

LEMMA Invariance == Spec => []IInv
  BY InitInv, NextInv, PTL DEF Spec

(* Every variable keeps its type: in particular every row a request works on is a  *)
(* row of a known plan with a positive version.                                    *)
THEOREM TypeCorrect == Spec => []TypeOK
  <1>1. IInv => TypeOK
    BY DEF IInv
  <1> QED
    BY <1>1, Invariance, PTL

(* Version numbers have no holes and no duplicates, whatever the number of         *)
(* concurrent creations, syncs, conflicts and aborted transactions.                *)
THEOREM VersionsAreGapFree == Spec => []VersionsGapFree
  <1>1. IInv => VersionsGapFree
    BY DEF IInv, NumberingInv
  <1> QED
    BY <1>1, Invariance, PTL
-----------------------------------------------------------------------------
(* No step loses a stored version or leaves an active plan without a version *)

LEMMA IdleReplaces == Replaces(Idle)
  BY DEF Replaces, Idle

LEMMA InitActivation == Init => ActivationInv
  BY IdleReplaces DEF Init, ActivationInv

(* A step that only moves session s from request "old" to request req keeps the    *)
(* invariant when it holds of req.                                                 *)
LEMMA ActivationMove ==
    ASSUME TypeOK, ActivationInv, NEW s \in Sessions, NEW req,
           ses' = [ses EXCEPT ![s] = req], Replaces(req)
    PROVE  ActivationInv'
  <1>1. ses'[s] = req /\ \A t \in Sessions \ {s} : ses'[t] = ses[t]
    BY DEF TypeOK
  <1> QED
    BY <1>1 DEF ActivationInv, Replaces

LEMMA ActivationNext ==
    ASSUME TypeOK, ActivationInv, [Next]_vars
    PROVE  ActivationInv'
  <1> USE IdleReplaces
  <1>1. ASSUME NEW s \in Sessions, Request(s) PROVE ActivationInv'
    <2>1. ASSUME NEW req, Begin(s, req), req.off = {}, req.cand = {} PROVE ActivationInv'
      <3>1. Replaces(req)
        BY <2>1 DEF Replaces
      <3> QED
        BY <2>1, <3>1, ActivationMove DEF Begin
    <2> QED
      BY <1>1, <2>1 DEF Request, CreateRequest, ActivateRequest, RollbackRequest,
                        SyncRequest, Idle
  <1>2. ASSUME NEW s \in Sessions, RolledBack(s) PROVE ActivationInv'
    BY <1>2, ActivationMove DEF RolledBack
  <1>3. ASSUME NEW s \in Sessions, Commit(s) PROVE ActivationInv'
    BY <1>3, ActivationMove DEF Commit
  <1>4. ASSUME NEW s \in Sessions, Step(s), ~RolledBack(s), ~Commit(s) PROVE ActivationInv'
    <2>1. ses[s] \in SessionType /\ Replaces(ses[s])
      BY DEF TypeOK, ActivationInv, Replaces
    <2>2. ASSUME NEW req, ses' = [ses EXCEPT ![s] = req], ses[s].stage # "flip",
                 req.stage # "lock", req.on = ses[s].on, req.off = ses[s].off
          PROVE  ActivationInv'
      <3>1. Replaces(req)
        BY <2>1, <2>2 DEF Replaces
      <3> QED
        BY <2>2, <3>1, ActivationMove
    <2>3. CASE SyncFile(s)
      <3> PICK p \in NextFiles(ses[s].todo) :
              LET rest == [ses[s] EXCEPT !.todo = @ \ {p}]
              IN  IF disk[p] = NoContent THEN RolledBack(s)
                  ELSE IF UpToDate(p, disk[p], s) THEN Moved(s, rest)
                  ELSE Moved(s, [rest EXCEPT !.stage = "number", !.plan = p, !.wants = disk[p],
                                             !.activates = TRUE])
        BY <2>3 DEF SyncFile
      <3> DEFINE rest == [ses[s] EXCEPT !.todo = @ \ {p}]
                 req == [rest EXCEPT !.stage = "number", !.plan = p, !.wants = disk[p],
                                     !.activates = TRUE]
      <3>1. /\ ses[s].stage = "files"
            /\ rest.stage = "files" /\ rest.on = ses[s].on /\ rest.off = ses[s].off
            /\ req.stage = "number" /\ req.on = ses[s].on /\ req.off = ses[s].off
        BY <2>1, <2>3 DEF SyncFile, SessionType
      <3>2. Moved(s, rest) \/ Moved(s, req)
        BY <1>4
      <3> HIDE DEF rest, req
      <3> QED
        BY <3>1, <3>2, <2>2 DEF Moved
    <2>4. CASE SyncDone(s)
      <3> DEFINE req == [ses[s] EXCEPT !.stage = "finish"]
      <3>1. req.stage = "finish" /\ req.on = ses[s].on /\ req.off = ses[s].off
        BY <2>1 DEF SessionType
      <3>2. ses[s].stage = "files" /\ ses' = [ses EXCEPT ![s] = req]
        BY <2>4 DEF SyncDone, Moved
      <3> HIDE DEF req
      <3> QED
        BY <2>2, <3>1, <3>2
    <2>5. CASE GetNextVersion(s)
      <3> DEFINE v == NextVersion(ses[s].plan, SeenRows(s))
                 req == [ses[s] EXCEPT !.stage = "insert", !.version = v]
      <3> HIDE DEF v
      <3>1. req.stage = "insert" /\ req.on = ses[s].on /\ req.off = ses[s].off
        BY <2>1 DEF SessionType
      <3>2. ses[s].stage = "number" /\ ses' = [ses EXCEPT ![s] = req]
        BY <2>5 DEF GetNextVersion, Moved, v
      <3> HIDE DEF req
      <3> QED
        BY <2>2, <3>1, <3>2
    <2>6. CASE StoreVersion(s)
      <3> DEFINE r == <<ses[s].plan, ses[s].version>>
                 next == IF ses[s].activates THEN "scan" ELSE "finish"
                 req == [ses[s] EXCEPT !.target = r, !.stage = next]
      <3>1. ses[s].stage = "insert" /\ ses' = [ses EXCEPT ![s].target = r, ![s].stage = next]
        BY <1>4, <2>6 DEF StoreVersion
      <3>2. req.stage \in {"scan", "finish"} /\ req.on = ses[s].on /\ req.off = ses[s].off
        BY <2>1 DEF SessionType
      <3>3. ses' = [ses EXCEPT ![s] = req]
        BY <3>1 DEF TypeOK
      <3> HIDE DEF req
      <3> QED
        BY <3>1, <3>2, <3>3, <2>2
    <2>7. CASE DeactivateScan(s)
      <3> DEFINE req == [ses[s] EXCEPT !.stage = "lock", !.cand = ToDeactivate(s)]
      <3>1. Replaces(req)
        BY <2>1, <2>7 DEF Replaces, DeactivateScan, ToDeactivate, ActiveOf, SessionType
      <3> HIDE DEF req
      <3> QED
        BY <2>7, <3>1, ActivationMove DEF DeactivateScan, Moved, req
    <2>8. CASE DeactivateRows(s)
      <3> DEFINE hit == ses[s].cand \cap SeenActive(s)
                 req == [ses[s] EXCEPT !.stage = "flip", !.cand = {},
                                       !.held = @ \union ses[s].cand,
                                       !.off = @ \union hit, !.on = @ \ hit]
      <3>1. /\ ses[s].stage = "lock"
            /\ \A r \in hit : PlanOf(r) = PlanOf(ses[s].target)
        BY <2>1, <2>8 DEF DeactivateRows, Replaces
      <3> HIDE DEF hit
      <3>2. /\ req.stage = "flip" /\ req.target = ses[s].target
            /\ req.off = ses[s].off \union hit /\ req.on = ses[s].on \ hit
        BY <2>1 DEF SessionType
      <3>3. Replaces(req)
        BY <2>1, <3>1, <3>2 DEF Replaces
      <3> HIDE DEF req
      <3> QED
        BY <2>8, <3>3, ActivationMove DEF DeactivateRows, Moved, req, hit
    <2>9. CASE ActivateTarget(s)
      <3> DEFINE next == IF ses[s].kind = "sync" THEN "files" ELSE "finish"
                 req == [ses[s] EXCEPT !.on = @ \union {ses[s].target},
                                       !.off = @ \ {ses[s].target},
                                       !.held = @ \union {ses[s].target},
                                       !.stage = next]
      <3>1. /\ req.on = ses[s].on \union {ses[s].target}
            /\ req.off = ses[s].off \ {ses[s].target}
            /\ req.stage \in {"files", "finish"}
        BY <2>1 DEF SessionType
      <3>2. Replaces(req)
        BY <2>1, <3>1 DEF Replaces
      <3> HIDE DEF req
      <3> QED
        BY <2>9, <3>2, ActivationMove DEF ActivateTarget, Moved, req
    <2>10. CASE MismatchAnswer(s)
      BY <2>10, <1>4 DEF MismatchAnswer
    <2> QED
      BY <1>4, <2>3, <2>4, <2>5, <2>6, <2>7, <2>8, <2>9, <2>10 DEF Step
  <1>5. CASE UNCHANGED vars \/ \E p \in Plans, c \in Contents \union {NoContent} : DeployFile(p, c)
    <2>1. ses' = ses
      BY <1>5 DEF vars, DeployFile
    <2> QED
      BY <2>1 DEF ActivationInv
  <1> QED
    BY <1>1, <1>2, <1>3, <1>4, <1>5, VictimAborts DEF Next, Abort

FullInv == IInv /\ ActivationInv

LEMMA FullInvariance == Spec => []FullInv
  <1>1. Init => FullInv
    BY InitInv, InitActivation DEF FullInv
  <1>2. FullInv /\ [Next]_vars => FullInv'
    BY NextInv, ActivationNext DEF FullInv, IInv
  <1> QED
    BY <1>1, <1>2, PTL DEF Spec

(* Only a commit changes what is stored or active. *)
LEMMA OnlyCommits ==
    ASSUME [Next]_vars
    PROVE  UNCHANGED <<content, active>> \/ \E s \in Sessions : Commit(s)
  BY ZenonT(30) DEF Next, vars, Request, Begin, CreateRequest, ActivateRequest, RollbackRequest,
         SyncRequest, Step, Moved, RolledBack, SyncFile, SyncDone, GetNextVersion,
         StoreVersion, DeactivateScan, DeactivateRows, ActivateTarget, MismatchAnswer,
         DeadlockVictim, Abort, DeployFile

(* A version once stored is never lost or rewritten, whatever races to store the   *)
(* same number.                                                                    *)
THEOREM StoredVersionsStay == Spec => StoredImmutable
  <1> DEFINE A == \A r \in Stored : r \in Stored' /\ content'[r] = content[r]
  <1>1. FullInv /\ [Next]_vars => A
    <2> SUFFICES ASSUME FullInv, [Next]_vars PROVE A
      OBVIOUS
    <2>1. CASE UNCHANGED content
      BY <2>1 DEF Stored
    <2>2. ASSUME NEW s \in Sessions, Commit(s) PROVE A
      <3>1. content' = Over(new[s], content) /\ DOMAIN new[s] \cap Stored = {}
        BY <2>2 DEF Commit, FullInv, IInv, NumberingInv
      <3> QED
        BY <3>1 DEF Over, Stored
    <2> QED
      BY <2>1, <2>2, OnlyCommits
  <1> HIDE DEF A
  <1>2. Spec => [][A]_vars
    BY <1>1, FullInvariance, PTL DEF Spec
  <1> QED
    BY <1>2 DEF StoredImmutable, A

(* Once a plan has an active version there is one in every later state.            *)
THEOREM ActivePlansStayActive == Spec => NeverLeftInactive
  <1> DEFINE A == \A p \in Plans : ActiveOf(p, active) # {} => ActiveOf(p, active)' # {}
  <1>1. FullInv /\ [Next]_vars => A
    <2> SUFFICES ASSUME FullInv, [Next]_vars PROVE A
      OBVIOUS
    <2>1. CASE UNCHANGED active
      BY <2>1 DEF ActiveOf
    <2>2. ASSUME NEW s \in Sessions, Commit(s) PROVE A
      <3> SUFFICES ASSUME NEW p \in Plans, NEW r \in active, PlanOf(r) = p
                   PROVE  \E q \in active' : PlanOf(q) = p
        BY DEF ActiveOf
      <3>1. active' = (active \ ses[s].off) \union ses[s].on /\ ses[s].stage = "finish"
        BY <2>2 DEF Commit, SeenActive
      <3>2. CASE r \in ses[s].off
        <4>1. \E q \in ses[s].on : PlanOf(q) = PlanOf(r)
          BY <3>1, <3>2 DEF FullInv, ActivationInv, Replaces
        <4> QED
          BY <3>1, <4>1
      <3>3. CASE r \notin ses[s].off
        BY <3>1, <3>3
      <3> QED
        BY <3>2, <3>3
    <2> QED
      BY <2>1, <2>2, OnlyCommits
  <1> HIDE DEF A
  <1>2. Spec => [][A]_vars
    BY <1>1, FullInvariance, PTL DEF Spec
  <1> QED
    BY <1>2 DEF NeverLeftInactive, A

-----------------------------------------------------------------------------
(* What an activation, a PATCH and a sync do to the plans when they commit *)

(* A PATCH has touched rows of one plan only. That is the plan of the URL for a    *)
(* rollback; for a version id it is the plan the commit compares with the URL's.   *)
StaysInPlan(req) ==
    req.kind \in {"activate", "rollback"} =>
        /\ req.stage \in {"scan", "lock", "flip", "finish"}
        /\ req.kind = "rollback" => PlanOf(req.target) = req.plan
        /\ \A r \in req.cand \union req.on \union req.off : PlanOf(r) = PlanOf(req.target)

(* A request that runs alone over the active rows A: what it activated is the only *)
(* active version of its plan, and it comes back to no plan.                       *)
Exclusive(req, A) ==
    LET seen == (A \ req.off) \union req.on
        t    == PlanOf(req.target)
    IN  /\ \A r \in req.on : ActiveOf(PlanOf(r), seen) = {r} /\ PlanOf(r) \notin req.todo
        /\ req.stage \in {"number", "insert"} =>
              req.plan \notin req.todo /\ \A r \in req.on : PlanOf(r) # req.plan
        /\ req.stage \in {"scan", "lock", "flip"} =>
              t \notin req.todo /\ \A r \in req.on : PlanOf(r) # t
        /\ req.stage = "lock" => req.cand = ActiveOf(t, seen)
        /\ req.stage = "flip" => ActiveOf(t, seen) = {}

(* The newest of the rows f of plan p says c.                                      *)
Says(p, c, f) ==
    LET newest == <<p, Newest(p, DOMAIN f)>> IN newest \in DOMAIN f /\ f[newest] = c

(* A sync that runs alone over the files d and sees the rows f: a file is still to *)
(* do, in work or published.                                                       *)
Publishing(req, f, d) ==
    req.kind = "sync" =>
        /\ req.stage \in {"number", "insert"} => req.activates /\ req.wants = d[req.plan]
        /\ req.stage = "insert" => req.version = Newest(req.plan, DOMAIN f) + 1
        /\ req.stage = "finish" => req.todo = {}
        /\ \A p \in Plans : d[p] # NoContent =>
              \/ p \in req.todo
              \/ req.stage \in {"number", "insert"} /\ req.plan = p
              \/ Says(p, d[p], f)

Lone(req, A, f, d) == Exclusive(req, A) /\ Publishing(req, f, d)

PatchInv == \A s \in Sessions : StaysInPlan(ses[s])

SoloInv ==
    \A s \in solo :
        /\ \A t \in Sessions \ {s} : ses[t].stage = "idle"
        /\ Lone(ses[s], active, Over(new[s], content), disk)

CommitInv == FullInv /\ PatchInv /\ SoloInv

LEMMA IdleIsLone ==
    ASSUME NEW A, NEW f, NEW d
    PROVE  StaysInPlan(Idle) /\ Lone(Idle, A, f, d)
  BY DEF StaysInPlan, Lone, Exclusive, Publishing, Idle

LEMMA RequestFields ==
    ASSUME NEW q \in SessionType
    PROVE  /\ q.stage \in Stages /\ q.kind \in Kinds /\ q.plan \in Plans \union {NoPlan}
           /\ q.activates \in BOOLEAN /\ q.version \in Nat
           /\ q.todo \in SUBSET Plans /\ q.cand \in SUBSET Rows /\ q.on \in SUBSET Rows
           /\ q.off \in SUBSET Rows
  BY DEF SessionType

(* Adding the next number of plan p moves the newest version of p only.            *)
LEMMA NewestMoves ==
    ASSUME NEW R \in SUBSET Rows, NEW p \in Plans, \A q \in Plans : GapFreeIn(q, R)
    PROVE  /\ Newest(p, R) \in Nat
           /\ Newest(p, R \union {<<p, Newest(p, R) + 1>>}) = Newest(p, R) + 1
           /\ \A q \in Plans \ {p} :
                 Newest(q, R \union {<<p, Newest(p, R) + 1>>}) = Newest(q, R)
  <1> DEFINE n == Newest(p, R)
             S == R \union {<<p, n + 1>>}
  <1>1. n \in Nat /\ Prefix(p, R, n)
    BY GapFreeIsPrefix
  <1>2. S \in SUBSET Rows
    BY <1>1 DEF Rows
  <1>3. Prefix(p, S, n + 1)
    BY <1>1 DEF Prefix
  <1>4. Newest(p, S) = n + 1
    BY <1>1, <1>2, <1>3, PrefixIsGapFree
  <1>5. ASSUME NEW q \in Plans \ {p} PROVE Newest(q, S) = Newest(q, R)
    <2>1. Newest(q, R) \in Nat /\ Prefix(q, R, Newest(q, R))
      BY GapFreeIsPrefix
    <2>2. Prefix(q, S, Newest(q, R))
      BY <2>1 DEF Prefix
    <2> QED
      BY <1>2, <2>1, <2>2, PrefixIsGapFree
  <1> QED
    BY <1>1, <1>4, <1>5

(* ------------------------------------------------------------------------------- *)
(* The steps of a request, as moves from q to r over the same table                *)

FileTaken(q, p, c) ==
    [q EXCEPT !.todo = q.todo \ {p}, !.stage = "number", !.plan = p, !.wants = c,
              !.activates = TRUE]

Numbered(q, v) == [q EXCEPT !.stage = "insert", !.version = v]

Inserted(q, row) ==
    [q EXCEPT !.target = row, !.stage = IF q.activates THEN "scan" ELSE "finish"]

Scanned(q, rows) == [q EXCEPT !.stage = "lock", !.cand = rows]

Deactivated(q, hit, h) ==
    [q EXCEPT !.stage = "flip", !.cand = {}, !.held = h, !.off = q.off \union hit,
              !.on = q.on \ hit]

Activated(q, h) ==
    [q EXCEPT !.on = q.on \union {q.target}, !.off = q.off \ {q.target}, !.held = h,
              !.stage = IF q.kind = "sync" THEN "files" ELSE "finish"]

(* The sync takes a file that is up to date.                                       *)
LEMMA SkipsFile ==
    ASSUME NEW q \in SessionType, NEW A, NEW f, NEW d, NEW p,
           q.stage = "files", Says(p, d[p], f), NEW r, r = [q EXCEPT !.todo = q.todo \ {p}]
    PROVE  (StaysInPlan(q) => StaysInPlan(r)) /\ (Lone(q, A, f, d) => Lone(r, A, f, d))
  <1>1. /\ r.stage = "files" /\ r.kind = q.kind /\ r.target = q.target /\ r.plan = q.plan
        /\ r.cand = q.cand /\ r.on = q.on /\ r.off = q.off /\ r.todo = q.todo \ {p}
    BY DEF SessionType
  <1>2. StaysInPlan(q) => StaysInPlan(r)
    BY <1>1 DEF StaysInPlan
  <1>3. Exclusive(q, A) => Exclusive(r, A)
    BY <1>1 DEF Exclusive
  <1>4. Publishing(q, f, d) => Publishing(r, f, d)
    BY <1>1 DEF Publishing
  <1> QED
    BY <1>2, <1>3, <1>4 DEF Lone

(* The sync takes a file that says something new.                                  *)
LEMMA TakesFile ==
    ASSUME NEW q \in SessionType, NEW A, NEW f, NEW d, NEW p \in q.todo, q.stage = "files",
           NEW c, c = d[p], NEW r, r = FileTaken(q, p, c)
    PROVE  (StaysInPlan(q) => StaysInPlan(r)) /\ (Lone(q, A, f, d) => Lone(r, A, f, d))
  <1>1. /\ r.stage = "number" /\ r.kind = q.kind /\ r.target = q.target /\ r.plan = p
        /\ r.cand = q.cand /\ r.on = q.on /\ r.off = q.off /\ r.todo = q.todo \ {p}
        /\ r.wants = d[p] /\ r.activates = TRUE
    BY DEF SessionType, FileTaken
  <1>2. StaysInPlan(q) => StaysInPlan(r)
    BY <1>1 DEF StaysInPlan
  <1>3. ASSUME Exclusive(q, A) PROVE Exclusive(r, A)
    <2>1. PICK seen : seen = (A \ q.off) \union q.on
      OBVIOUS
    <2>2. \A x \in q.on : ActiveOf(PlanOf(x), seen) = {x} /\ PlanOf(x) \notin q.todo
      BY <1>3, <2>1 DEF Exclusive
    <2>3. p \notin r.todo /\ \A x \in q.on : PlanOf(x) # p
      BY <1>1, <2>2
    <2> QED
      BY <1>1, <2>1, <2>2, <2>3 DEF Exclusive
  <1>4. Publishing(q, f, d) => Publishing(r, f, d)
    BY <1>1 DEF Publishing
  <1> QED
    BY <1>2, <1>3, <1>4 DEF Lone

LEMMA EndsFiles ==
    ASSUME NEW q \in SessionType, NEW A, NEW f, NEW d, q.stage = "files", q.todo = {},
           NEW r, r = [q EXCEPT !.stage = "finish"]
    PROVE  (StaysInPlan(q) => StaysInPlan(r)) /\ (Lone(q, A, f, d) => Lone(r, A, f, d))
  <1>1. /\ r.stage = "finish" /\ r.kind = q.kind /\ r.target = q.target /\ r.plan = q.plan
        /\ r.cand = q.cand /\ r.on = q.on /\ r.off = q.off /\ r.todo = q.todo
    BY DEF SessionType
  <1>2. StaysInPlan(q) => StaysInPlan(r)
    BY <1>1 DEF StaysInPlan
  <1>3. Exclusive(q, A) => Exclusive(r, A)
    BY <1>1 DEF Exclusive
  <1>4. Publishing(q, f, d) => Publishing(r, f, d)
    BY <1>1 DEF Publishing
  <1> QED
    BY <1>2, <1>3, <1>4 DEF Lone

LEMMA TakesNumber ==
    ASSUME NEW q \in SessionType, NEW A, NEW f, NEW d, q.stage = "number",
           NEW v, v = NextVersion(q.plan, DOMAIN f),
           NEW r, r = Numbered(q, v)
    PROVE  (StaysInPlan(q) => StaysInPlan(r)) /\ (Lone(q, A, f, d) => Lone(r, A, f, d))
  <1>1. /\ r.stage = "insert" /\ r.kind = q.kind /\ r.target = q.target /\ r.plan = q.plan
        /\ r.cand = q.cand /\ r.on = q.on /\ r.off = q.off /\ r.todo = q.todo
        /\ r.wants = q.wants /\ r.activates = q.activates /\ r.version = v
    BY DEF SessionType, Numbered
  <1>2. StaysInPlan(q) => StaysInPlan(r)
    BY <1>1 DEF StaysInPlan
  <1>3. Exclusive(q, A) => Exclusive(r, A)
    BY <1>1 DEF Exclusive
  <1>4. Publishing(q, f, d) => Publishing(r, f, d)
    BY <1>1 DEF Publishing, NextVersion
  <1> QED
    BY <1>2, <1>3, <1>4 DEF Lone

(* The rows g are the rows f and a new row that says c.                            *)
Adds(f, row, c, g) ==
    /\ DOMAIN g = DOMAIN f \union {row}
    /\ g[row] = c
    /\ \A x \in DOMAIN f \ {row} : g[x] = f[x]

GapFreeRows(f) == DOMAIN f \in SUBSET Rows /\ \A p \in Plans : GapFreeIn(p, DOMAIN f)

(* The row with the next number becomes the newest one of its plan.                *)
LEMMA InsertsRow ==
    ASSUME NEW q \in SessionType, q.plan \in Plans, NEW A, NEW f, NEW d, q.stage = "insert",
           GapFreeRows(f),
           NEW row, row = <<q.plan, q.version>>, NEW next,
           next = IF q.activates THEN "scan" ELSE "finish",
           NEW r, r = Inserted(q, row),
           NEW g, Adds(f, row, q.wants, g)
    PROVE  (StaysInPlan(q) => StaysInPlan(r)) /\ (Lone(q, A, f, d) => Lone(r, A, g, d))
  <1>1. /\ r.stage = next /\ r.kind = q.kind /\ r.target = row /\ r.plan = q.plan
        /\ r.cand = q.cand /\ r.on = q.on /\ r.off = q.off /\ r.todo = q.todo
    BY DEF SessionType, Inserted
  <1>2. next \in {"scan", "finish"} /\ PlanOf(row) = q.plan
    BY DEF PlanOf
  <1>3. StaysInPlan(q) => StaysInPlan(r)
    BY <1>1 DEF StaysInPlan
  <1>4. Exclusive(q, A) => Exclusive(r, A)
    BY SMTT(30), <1>1, <1>2 DEF Exclusive
  <1>5. ASSUME Publishing(q, f, d), q.kind = "sync" PROVE Publishing(r, g, d)
    <2>1. q.activates /\ q.wants = d[q.plan] /\ q.version = Newest(q.plan, DOMAIN f) + 1
      BY <1>5 DEF Publishing
    <2>2. next = "scan"
      BY <2>1
    <2>3. /\ Newest(q.plan, DOMAIN g) = q.version
          /\ \A p \in Plans \ {q.plan} : Newest(p, DOMAIN g) = Newest(p, DOMAIN f)
      <3>1. PICK R \in SUBSET Rows : R = DOMAIN f
        BY DEF GapFreeRows
      <3>2. PICK p \in Plans : p = q.plan
        OBVIOUS
      <3>3. \A x \in Plans : GapFreeIn(x, R)
        BY <3>1 DEF GapFreeRows
      <3>4. /\ Newest(p, R \union {<<p, Newest(p, R) + 1>>}) = Newest(p, R) + 1
            /\ \A x \in Plans \ {p} : Newest(x, R \union {<<p, Newest(p, R) + 1>>}) = Newest(x, R)
        BY <3>3, NewestMoves
      <3>5. DOMAIN g = R \union {<<p, Newest(p, R) + 1>>} /\ q.version = Newest(p, R) + 1
        BY <2>1, <3>1, <3>2 DEF Adds
      <3> QED
        BY <3>1, <3>2, <3>4, <3>5
    <2>4. Says(q.plan, d[q.plan], g)
      BY <2>1, <2>3 DEF Says, Adds
    <2>5. \A p \in Plans \ {q.plan} : Says(p, d[p], f) => Says(p, d[p], g)
      <3> SUFFICES ASSUME NEW p \in Plans \ {q.plan}, Says(p, d[p], f) PROVE Says(p, d[p], g)
        OBVIOUS
      <3>1. PICK k : k = <<p, Newest(p, DOMAIN f)>>
        OBVIOUS
      <3>2. k \in DOMAIN f /\ f[k] = d[p] /\ k # row
        BY <3>1 DEF Says
      <3>3. k = <<p, Newest(p, DOMAIN g)>>
        BY <2>3, <3>1
      <3>4. k \in DOMAIN g /\ g[k] = d[p]
        BY <3>2 DEF Adds
      <3> QED
        BY <3>3, <3>4 DEF Says
    <2> QED
      BY <1>1, <1>5, <2>2, <2>4, <2>5 DEF Publishing
  <1>6. Publishing(q, f, d) => Publishing(r, g, d)
    <2>1. CASE q.kind = "sync"
      BY <1>5, <2>1
    <2>2. CASE q.kind # "sync"
      BY <1>1, <2>2 DEF Publishing
    <2> QED
      BY <2>1, <2>2
  <1> QED
    BY <1>3, <1>4, <1>6 DEF Lone

LEMMA ScansRows ==
    ASSUME NEW q \in SessionType, NEW A, NEW f, NEW d, q.stage = "scan",
           NEW cand, cand = ActiveOf(PlanOf(q.target), (A \ q.off) \union q.on),
           NEW r, r = Scanned(q, cand)
    PROVE  (StaysInPlan(q) => StaysInPlan(r)) /\ (Lone(q, A, f, d) => Lone(r, A, f, d))
  <1>1. /\ r.stage = "lock" /\ r.kind = q.kind /\ r.target = q.target /\ r.plan = q.plan
        /\ r.cand = cand /\ r.on = q.on /\ r.off = q.off /\ r.todo = q.todo
    BY DEF SessionType, Scanned
  <1>2. \A x \in cand : PlanOf(x) = PlanOf(q.target)
    BY DEF ActiveOf
  <1>3. StaysInPlan(q) => StaysInPlan(r)
    BY <1>1, <1>2 DEF StaysInPlan
  <1>4. Exclusive(q, A) => Exclusive(r, A)
    BY <1>1 DEF Exclusive
  <1>5. Publishing(q, f, d) => Publishing(r, f, d)
    BY <1>1 DEF Publishing
  <1> QED
    BY <1>3, <1>4, <1>5 DEF Lone

(* Alone, the bulk UPDATE hits every active row of the plan.                       *)
LEMMA DeactivatesRows ==
    ASSUME NEW q \in SessionType, NEW A, NEW f, NEW d, q.stage = "lock",
           NEW hit, hit = q.cand \cap ((A \ q.off) \union q.on), NEW h,
           NEW r, r = Deactivated(q, hit, h)
    PROVE  (StaysInPlan(q) => StaysInPlan(r)) /\ (Lone(q, A, f, d) => Lone(r, A, f, d))
  <1>1. /\ r.stage = "flip" /\ r.kind = q.kind /\ r.target = q.target /\ r.plan = q.plan
        /\ r.cand = {} /\ r.on = q.on \ hit /\ r.off = q.off \union hit /\ r.todo = q.todo
    BY DEF SessionType, Deactivated
  <1>2. StaysInPlan(q) => StaysInPlan(r)
    BY ZenonT(30), <1>1 DEF StaysInPlan
  <1>3. ASSUME Exclusive(q, A) PROVE Exclusive(r, A)
    <2>1. PICK seen : seen = (A \ q.off) \union q.on
      OBVIOUS
    <2>2. PICK t : t = PlanOf(q.target)
      OBVIOUS
    <2>3. /\ \A x \in q.on : ActiveOf(PlanOf(x), seen) = {x} /\ PlanOf(x) \notin q.todo
          /\ t \notin q.todo /\ \A x \in q.on : PlanOf(x) # t
          /\ q.cand = ActiveOf(t, seen)
      BY <1>3, <2>1, <2>2 DEF Exclusive
    <2>4. hit = ActiveOf(t, seen)
      BY <2>1, <2>3 DEF ActiveOf
    <2>5. r.on = q.on /\ (A \ r.off) \union r.on = seen \ hit
      <3>1. \A x \in q.on : x \notin hit
        BY <2>3, <2>4 DEF ActiveOf
      <3> QED
        BY <1>1, <2>1, <3>1
    <2>6. ActiveOf(t, seen \ hit) = {}
      BY <2>4 DEF ActiveOf
    <2>7. \A x \in q.on : ActiveOf(PlanOf(x), seen \ hit) = {x}
      BY <2>3, <2>4 DEF ActiveOf
    <2> QED
      BY ZenonT(30), <1>1, <2>2, <2>3, <2>5, <2>6, <2>7 DEF Exclusive
  <1>4. Publishing(q, f, d) => Publishing(r, f, d)
    BY <1>1 DEF Publishing
  <1> QED
    BY <1>2, <1>3, <1>4 DEF Lone

LEMMA ActivatesRow ==
    ASSUME NEW q \in SessionType, NEW A, NEW f, NEW d, q.stage = "flip", NEW h,
           NEW next, next = IF q.kind = "sync" THEN "files" ELSE "finish",
           NEW r, r = Activated(q, h)
    PROVE  (StaysInPlan(q) => StaysInPlan(r)) /\ (Lone(q, A, f, d) => Lone(r, A, f, d))
  <1>1. /\ r.stage = next /\ r.kind = q.kind /\ r.target = q.target /\ r.plan = q.plan
        /\ r.cand = q.cand /\ r.on = q.on \union {q.target} /\ r.off = q.off \ {q.target}
        /\ r.todo = q.todo
    BY DEF SessionType, Activated
  <1>2. next \in {"files", "finish"}
    OBVIOUS
  <1>3. StaysInPlan(q) => StaysInPlan(r)
    BY <1>1 DEF StaysInPlan
  <1>4. ASSUME Exclusive(q, A) PROVE Exclusive(r, A)
    <2>1. PICK seen : seen = (A \ q.off) \union q.on
      OBVIOUS
    <2>2. PICK t : t = PlanOf(q.target)
      OBVIOUS
    <2>3. /\ \A x \in q.on : ActiveOf(PlanOf(x), seen) = {x} /\ PlanOf(x) \notin q.todo
          /\ t \notin q.todo /\ \A x \in q.on : PlanOf(x) # t
          /\ ActiveOf(t, seen) = {}
      BY <1>4, <2>1, <2>2 DEF Exclusive
    <2>4. (A \ r.off) \union r.on = seen \union {q.target}
      BY <1>1, <2>1
    <2>5. ActiveOf(t, seen \union {q.target}) = {q.target}
      BY <2>2, <2>3 DEF ActiveOf
    <2>6. \A x \in q.on : ActiveOf(PlanOf(x), seen \union {q.target}) = {x}
      BY <2>2, <2>3 DEF ActiveOf
    <2> QED
      BY <1>1, <1>2, <2>2, <2>3, <2>4, <2>5, <2>6 DEF Exclusive
  <1>5. Publishing(q, f, d) => Publishing(r, f, d)
    BY <1>1, <1>2 DEF Publishing
  <1> QED
    BY <1>3, <1>4, <1>5 DEF Lone

(* ------------------------------------------------------------------------------- *)

(* A step of one open request: nobody else is alone.                               *)
LEMMA OneMoves ==
    ASSUME CommitInv, NEW s \in Sessions, ses[s].stage # "idle",
           NEW r, ses' = [ses EXCEPT ![s] = r], StaysInPlan(r), solo' = solo, disk' = disk,
           s \in solo => Lone(r, active', Over(new'[s], content'), disk)
    PROVE  PatchInv' /\ SoloInv'
  <1>1. ses'[s] = r /\ \A t \in Sessions \ {s} : ses'[t] = ses[t]
    BY DEF CommitInv, FullInv, IInv, TypeOK
  <1>2. \A t \in Sessions : StaysInPlan(ses'[t])
    BY <1>1 DEF CommitInv, PatchInv
  <1>3. \A t \in solo : t = s
    BY DEF CommitInv, SoloInv
  <1>4. ASSUME NEW t \in solo
        PROVE  /\ \A u \in Sessions \ {t} : ses'[u].stage = "idle"
               /\ Lone(ses'[t], active', Over(new'[t], content'), disk')
    <2>1. t = s
      BY <1>3
    <2>2. \A u \in Sessions \ {s} : ses[u].stage = "idle"
      BY <2>1 DEF CommitInv, SoloInv
    <2>3. Lone(r, active', Over(new'[s], content'), disk')
      BY <2>1
    <2> QED
      BY <1>1, <2>1, <2>2, <2>3
  <1>5. PatchInv'
    BY <1>2 DEF PatchInv
  <1>6. SoloInv'
    BY <1>4 DEF SoloInv
  <1> QED
    BY <1>5, <1>6

LEMMA RollsBack ==
    ASSUME CommitInv, NEW s \in Sessions, ses[s].stage # "idle", RolledBack(s)
    PROVE  PatchInv' /\ SoloInv'
  <1>1. PICK r : r = Idle
    OBVIOUS
  <1>2. StaysInPlan(r) /\ Lone(r, active', Over(new'[s], content'), disk)
    BY <1>1, IdleIsLone
  <1>3. ses' = [ses EXCEPT ![s] = r] /\ solo' = solo /\ disk' = disk
    BY <1>1 DEF RolledBack
  <1> QED
    BY <1>2, <1>3, OneMoves

LEMMA CommitsAlone ==
    ASSUME CommitInv, NEW s \in Sessions, Commit(s)
    PROVE  PatchInv' /\ SoloInv'
  <1>1. PICK r : r = Idle
    OBVIOUS
  <1>2. StaysInPlan(r) /\ Lone(r, active', Over(new'[s], content'), disk)
    BY <1>1, IdleIsLone
  <1>3. ses' = [ses EXCEPT ![s] = r] /\ solo' = solo /\ disk' = disk /\ ses[s].stage # "idle"
    BY <1>1 DEF Commit
  <1> QED
    BY <1>2, <1>3, OneMoves

(* A statement that inserts nothing.                                               *)
LEMMA MovesOn ==
    ASSUME CommitInv, NEW s \in Sessions, ses[s].stage # "idle", NEW r, Moved(s, r),
           StaysInPlan(ses[s]) => StaysInPlan(r),
           Lone(ses[s], active, Over(new[s], content), disk)
              => Lone(r, active, Over(new[s], content), disk)
    PROVE  PatchInv' /\ SoloInv'
  <1>1. /\ ses' = [ses EXCEPT ![s] = r] /\ solo' = solo /\ disk' = disk
        /\ active' = active /\ new' = new /\ content' = content
    BY DEF Moved
  <1>2. StaysInPlan(r)
    BY DEF CommitInv, PatchInv
  <1>3. s \in solo => Lone(r, active, Over(new[s], content), disk)
    BY DEF CommitInv, SoloInv
  <1>4. s \in solo => Lone(r, active', Over(new'[s], content'), disk)
    BY <1>1, <1>3
  <1> QED
    BY <1>1, <1>2, <1>4, OneMoves

(* What session s sees, as the moves above name it.                                *)
LEMMA SeenBySession ==
    ASSUME CommitInv, NEW s \in Sessions
    PROVE  /\ ses[s] \in SessionType
           /\ DOMAIN Over(new[s], content) = SeenRows(s) /\ SeenRows(s) \in SUBSET Rows
           /\ \A p \in Plans : GapFreeIn(p, SeenRows(s))
           /\ SeenActive(s) = (active \ ses[s].off) \union ses[s].on
  <1>1. ses[s] \in SessionType /\ DOMAIN new[s] \subseteq Rows /\ DOMAIN content \subseteq Rows
    BY DEF CommitInv, FullInv, IInv, TypeOK
  <1>2. \A p \in Plans : GapFreeIn(p, SeenRows(s))
    BY DEF CommitInv, FullInv, IInv, NumberingInv
  <1>3. DOMAIN Over(new[s], content) = SeenRows(s)
    BY ZenonT(30), OverDomain DEF SeenRows, Stored
  <1> QED
    BY <1>1, <1>2, <1>3 DEF SeenRows, Stored, SeenActive

LEMMA SyncFileStep ==
    ASSUME CommitInv, NEW s \in Sessions, SyncFile(s)
    PROVE  PatchInv' /\ SoloInv'
  <1>1. PICK q : q = ses[s]
    OBVIOUS
  <1>2. q \in SessionType /\ q.stage = "files"
    BY <1>1, SeenBySession DEF SyncFile
  <1>3. PICK p \in NextFiles(q.todo) :
           LET rest == [q EXCEPT !.todo = @ \ {p}]
           IN  IF disk[p] = NoContent THEN RolledBack(s)
               ELSE IF UpToDate(p, disk[p], s) THEN Moved(s, rest)
               ELSE Moved(s, [rest EXCEPT !.stage = "number", !.plan = p, !.wants = disk[p],
                                          !.activates = TRUE])
    BY <1>1 DEF SyncFile
  <1>4. p \in q.todo
    BY DEF NextFiles
  <1>5. CASE disk[p] = NoContent
    BY <1>1, <1>2, <1>3, <1>5, RollsBack
  <1>6. CASE disk[p] # NoContent /\ UpToDate(p, disk[p], s)
    <2>1. PICK r : r = [q EXCEPT !.todo = q.todo \ {p}]
      OBVIOUS
    <2>2. Moved(s, r)
      BY <1>3, <1>6, <2>1
    <2>3. PICK f : f = Over(new[s], content)
      OBVIOUS
    <2>4. Says(p, disk[p], f)
      BY <1>6, <2>3, SeenBySession DEF UpToDate, Says
    <2>5. (StaysInPlan(q) => StaysInPlan(r))
          /\ (Lone(q, active, f, disk) => Lone(r, active, f, disk))
      BY SMTT(30), <1>2, <2>1, <2>4, SkipsFile
    <2> QED
      BY <1>1, <1>2, <2>2, <2>3, <2>5, MovesOn
  <1>7. CASE disk[p] # NoContent /\ ~UpToDate(p, disk[p], s)
    <2>1. PICK c, r : c = disk[p] /\ r = FileTaken(q, p, c)
      OBVIOUS
    <2>2. Moved(s, r)
      <3>1. PICK rest : rest = [q EXCEPT !.todo = q.todo \ {p}]
        OBVIOUS
      <3>2. Moved(s, [rest EXCEPT !.stage = "number", !.plan = p, !.wants = disk[p],
                                  !.activates = TRUE])
        BY <1>3, <1>7, <3>1
      <3>3. r = [rest EXCEPT !.stage = "number", !.plan = p, !.wants = disk[p],
                             !.activates = TRUE]
        BY <1>2, <2>1, <3>1 DEF SessionType, FileTaken
      <3> QED
        BY <3>2, <3>3
    <2>3. PICK f : f = Over(new[s], content)
      OBVIOUS
    <2>4. PICK d : d = disk
      OBVIOUS
    <2>5. (StaysInPlan(q) => StaysInPlan(r)) /\ (Lone(q, active, f, d) => Lone(r, active, f, d))
      BY <1>2, <1>4, <2>1, <2>4, TakesFile
    <2> QED
      BY <1>1, <1>2, <2>2, <2>3, <2>4, <2>5, MovesOn
  <1> QED
    BY <1>5, <1>6, <1>7

LEMMA StatementStep ==
    ASSUME CommitInv, NEW s \in Sessions,
           SyncDone(s) \/ GetNextVersion(s) \/ DeactivateScan(s) \/ DeactivateRows(s) \/ ActivateTarget(s)
    PROVE  PatchInv' /\ SoloInv'
  <1>1. PICK q : q = ses[s]
    OBVIOUS
  <1>2. PICK f : f = Over(new[s], content)
    OBVIOUS
  <1>3. /\ q \in SessionType /\ DOMAIN f = SeenRows(s)
        /\ SeenActive(s) = (active \ q.off) \union q.on
    BY <1>1, <1>2, SeenBySession
  <1>4. ASSUME NEW r, Moved(s, r), q.stage # "idle",
               (StaysInPlan(q) => StaysInPlan(r)) /\ (Lone(q, active, f, disk) => Lone(r, active, f, disk))
        PROVE  PatchInv' /\ SoloInv'
    BY <1>1, <1>2, <1>4, MovesOn
  <1>5. CASE SyncDone(s)
    <2>1. PICK r : r = [q EXCEPT !.stage = "finish"]
      OBVIOUS
    <2>2. Moved(s, r) /\ q.stage = "files" /\ q.todo = {}
      BY <1>1, <1>5, <2>1 DEF SyncDone
    <2> QED
      BY <1>3, <1>4, <2>1, <2>2, EndsFiles
  <1>6. CASE GetNextVersion(s)
    <2>1. PICK v : v = NextVersion(q.plan, SeenRows(s))
      OBVIOUS
    <2>2. PICK r : r = Numbered(q, v)
      OBVIOUS
    <2>3. Moved(s, r) /\ q.stage = "number"
      BY <1>1, <1>6, <2>1, <2>2 DEF GetNextVersion, Numbered
    <2>4. v = NextVersion(q.plan, DOMAIN f)
      BY <1>3, <2>1
    <2>5. /\ StaysInPlan(q) => StaysInPlan(r)
          /\ Lone(q, active, f, disk) => Lone(r, active, f, disk)
      BY <1>3, <2>2, <2>3, <2>4, TakesNumber
    <2> QED
      BY <1>4, <2>3, <2>5
  <1>7. CASE DeactivateScan(s)
    <2>1. PICK cand : cand = ToDeactivate(s)
      OBVIOUS
    <2>2. PICK r : r = Scanned(q, cand)
      OBVIOUS
    <2>3. Moved(s, r) /\ q.stage = "scan"
      BY <1>1, <1>7, <2>1, <2>2 DEF DeactivateScan, Scanned
    <2>4. cand = ActiveOf(PlanOf(q.target), (active \ q.off) \union q.on)
      BY <1>1, <1>3, <2>1 DEF ToDeactivate
    <2>5. /\ StaysInPlan(q) => StaysInPlan(r)
          /\ Lone(q, active, f, disk) => Lone(r, active, f, disk)
      BY <1>3, <2>2, <2>3, <2>4, ScansRows
    <2> QED
      BY <1>4, <2>3, <2>5
  <1>8. CASE DeactivateRows(s)
    <2>1. PICK hit, h : hit = q.cand \cap SeenActive(s) /\ h = q.held \union q.cand
      OBVIOUS
    <2>2. PICK r : r = Deactivated(q, hit, h)
      OBVIOUS
    <2>3. Moved(s, r) /\ q.stage = "lock"
      BY <1>1, <1>8, <2>1, <2>2 DEF DeactivateRows, Deactivated
    <2>4. hit = q.cand \cap ((active \ q.off) \union q.on)
      BY <1>3, <2>1
    <2>5. /\ StaysInPlan(q) => StaysInPlan(r)
          /\ Lone(q, active, f, disk) => Lone(r, active, f, disk)
      BY ZenonT(30), <1>3, <2>2, <2>3, <2>4, DeactivatesRows
    <2> QED
      BY <1>4, <2>3, <2>5
  <1>9. CASE ActivateTarget(s)
    <2>1. PICK next, h : next = (IF q.kind = "sync" THEN "files" ELSE "finish")
                         /\ h = q.held \union {q.target}
      OBVIOUS
    <2>2. PICK r : r = Activated(q, h)
      OBVIOUS
    <2>3. Moved(s, r) /\ q.stage = "flip"
      BY <1>1, <1>9, <2>1, <2>2 DEF ActivateTarget, Activated
    <2>4. /\ StaysInPlan(q) => StaysInPlan(r)
          /\ Lone(q, active, f, disk) => Lone(r, active, f, disk)
      BY <1>3, <2>1, <2>2, <2>3, ActivatesRow
    <2> QED
      BY <1>4, <2>3, <2>4
  <1> QED
    BY <1>5, <1>6, <1>7, <1>8, <1>9

LEMMA StoreVersionStep ==
    ASSUME CommitInv, NEW s \in Sessions, StoreVersion(s)
    PROVE  PatchInv' /\ SoloInv'
  <1>1. PICK q : q = ses[s]
    OBVIOUS
  <1>2. PICK f : f = Over(new[s], content)
    OBVIOUS
  <1>3. q \in SessionType /\ GapFreeRows(f)
    BY <1>1, <1>2, SeenBySession DEF GapFreeRows
  <1>4. q.stage = "insert" /\ q.plan \in Plans
    BY <1>1 DEF StoreVersion, CommitInv, FullInv, IInv, TypeOK
  <1>5. PICK row : row = <<q.plan, q.version>>
    OBVIOUS
  <1>6. CASE Conflicts(s, row)
    <2>1. RolledBack(s)
      BY <1>1, <1>5, <1>6 DEF StoreVersion
    <2> QED
      BY <1>1, <1>4, <2>1, RollsBack
  <1>7. CASE ~Conflicts(s, row)
    <2>1. PICK next : next = IF q.activates THEN "scan" ELSE "finish"
      OBVIOUS
    <2>2. /\ new' = [new EXCEPT ![s] = Over([x \in {row} |-> q.wants], new[s])]
          /\ ses' = [ses EXCEPT ![s].target = row, ![s].stage = next]
          /\ content' = content /\ active' = active /\ disk' = disk /\ solo' = solo
      BY <1>1, <1>5, <1>7, <2>1 DEF StoreVersion
    <2>3. PICK r : r = Inserted(q, row)
      OBVIOUS
    <2>4. ses' = [ses EXCEPT ![s] = r]
      BY <1>1, <2>1, <2>2, <2>3 DEF CommitInv, FullInv, IInv, TypeOK, Inserted
    <2>5. PICK g : g = Over(new'[s], content)
      OBVIOUS
    <2>6. Adds(f, row, q.wants, g)
      <3>1. new'[s] = Over([x \in {row} |-> q.wants], new[s])
        BY <2>2 DEF CommitInv, FullInv, IInv, TypeOK
      <3>2. PICK n : n = new'[s]
        OBVIOUS
      <3>3. /\ DOMAIN n = DOMAIN new[s] \union {row} /\ n[row] = q.wants
            /\ \A x \in DOMAIN new[s] \ {row} : n[x] = new[s][x]
        BY <3>1, <3>2 DEF Over
      <3> QED
        BY <1>2, <2>5, <3>2, <3>3 DEF Over, Adds
    <2>7. (StaysInPlan(q) => StaysInPlan(r)) /\ (Lone(q, active, f, disk) => Lone(r, active, g, disk))
      <3>1. PICK d : d = disk
        OBVIOUS
      <3>2. (StaysInPlan(q) => StaysInPlan(r)) /\ (Lone(q, active, f, d) => Lone(r, active, g, d))
        BY <1>3, <1>4, <1>5, <2>1, <2>3, <2>6, InsertsRow
      <3> QED
        BY <3>1, <3>2
    <2>8. StaysInPlan(r) /\ (s \in solo => Lone(r, active, g, disk))
      BY <1>1, <1>2, <2>7 DEF CommitInv, PatchInv, SoloInv
    <2>9. s \in solo => Lone(r, active', Over(new'[s], content'), disk)
      BY <2>2, <2>5, <2>8
    <2> QED
      BY <1>1, <1>4, <2>2, <2>4, <2>8, <2>9, OneMoves
  <1> QED
    BY <1>6, <1>7

(* A request that arrives has touched nothing. It is alone when nobody else works. *)
LEMMA ArrivesAlone ==
    ASSUME CommitInv, NEW s \in Sessions, NEW r, Begin(s, r), r.on = {}, StaysInPlan(r),
           Lone(r, active, Over(new[s], content), disk)
    PROVE  PatchInv' /\ SoloInv'
  <1>1. ses'[s] = r /\ \A t \in Sessions \ {s} : ses'[t] = ses[t]
    BY DEF CommitInv, FullInv, IInv, TypeOK, Begin
  <1>2. /\ solo' = IF Others(s) = {} THEN {s} ELSE {}
        /\ active' = active /\ new' = new /\ content' = content /\ disk' = disk
    BY DEF Begin
  <1>3. PatchInv'
    <2>1. \A t \in Sessions : StaysInPlan(ses'[t])
      BY <1>1 DEF CommitInv, PatchInv
    <2> QED
      BY <2>1 DEF PatchInv
  <1>4. ASSUME NEW t \in solo'
        PROVE  /\ \A u \in Sessions \ {t} : ses'[u].stage = "idle"
               /\ Lone(ses'[t], active', Over(new'[t], content'), disk')
    <2>1. t = s /\ Others(s) = {}
      BY <1>2
    <2>2. \A u \in Sessions \ {s} : ses[u].stage = "idle"
      BY <2>1 DEF Others
    <2> QED
      BY <1>1, <1>2, <2>1, <2>2
  <1>5. SoloInv'
    BY <1>4 DEF SoloInv
  <1> QED
    BY <1>3, <1>5

LEMMA ArrivalStep ==
    ASSUME CommitInv, NEW s \in Sessions, Request(s)
    PROVE  PatchInv' /\ SoloInv'
  <1>1. PICK f : f = Over(new[s], content)
    OBVIOUS
  <1>2. ASSUME NEW p \in Plans, NEW c \in Contents, NEW a \in BOOLEAN, CreateRequest(s, p, c, a)
        PROVE  PatchInv' /\ SoloInv'
    <2>1. PICK r : r = [Idle EXCEPT !.stage = "number", !.kind = "create", !.plan = p,
                                    !.wants = c, !.activates = a]
      OBVIOUS
    <2>2. r.on = {} /\ r.todo = {} /\ r.kind = "create" /\ r.stage = "number"
      BY <2>1 DEF Idle
    <2>3. StaysInPlan(r) /\ Lone(r, active, f, disk)
      BY <2>2 DEF StaysInPlan, Lone, Exclusive, Publishing
    <2>4. Begin(s, r)
      BY <1>2, <2>1 DEF CreateRequest
    <2> QED
      BY <1>1, <2>2, <2>3, <2>4, ArrivesAlone
  <1>3. ASSUME NEW p \in Plans, NEW row \in Stored, ActivateRequest(s, p, row)
        PROVE  PatchInv' /\ SoloInv'
    <2>1. PICK r : r = [Idle EXCEPT !.stage = "scan", !.kind = "activate", !.plan = p, !.target = row]
      OBVIOUS
    <2>2. /\ r.on = {} /\ r.off = {} /\ r.cand = {} /\ r.todo = {} /\ r.kind = "activate"
          /\ r.stage = "scan"
      BY <2>1 DEF Idle
    <2>3. StaysInPlan(r) /\ Lone(r, active, f, disk)
      BY <2>2 DEF StaysInPlan, Lone, Exclusive, Publishing
    <2>4. Begin(s, r)
      BY <1>3, <2>1 DEF ActivateRequest
    <2> QED
      BY <1>1, <2>2, <2>3, <2>4, ArrivesAlone
  <1>4. ASSUME NEW p \in Plans, RollbackRequest(s, p)
        PROVE  PatchInv' /\ SoloInv'
    <2>1. PICK row : row = Previous(p, Stored)
      OBVIOUS
    <2>2. PICK r : r = [Idle EXCEPT !.stage = "scan", !.kind = "rollback", !.plan = p, !.target = row]
      OBVIOUS
    <2>3. /\ r.on = {} /\ r.off = {} /\ r.cand = {} /\ r.todo = {} /\ r.kind = "rollback"
          /\ r.stage = "scan" /\ r.plan = p /\ r.target = row
      BY <2>2 DEF Idle
    <2>4. PlanOf(row) = p
      BY <2>1 DEF Previous, PlanOf
    <2>5. StaysInPlan(r) /\ Lone(r, active, f, disk)
      BY <2>3, <2>4 DEF StaysInPlan, Lone, Exclusive, Publishing
    <2>6. Begin(s, r)
      BY <1>4, <2>1, <2>2 DEF RollbackRequest
    <2> QED
      BY <1>1, <2>3, <2>5, <2>6, ArrivesAlone
  <1>5. CASE SyncRequest(s)
    <2>1. PICK todo : todo = {p \in Plans : disk[p] # NoContent}
      OBVIOUS
    <2>2. PICK r : r = [Idle EXCEPT !.stage = "files", !.kind = "sync", !.todo = todo]
      OBVIOUS
    <2>3. r.on = {} /\ r.todo = todo /\ r.kind = "sync" /\ r.stage = "files"
      BY <2>2 DEF Idle
    <2>4. StaysInPlan(r) /\ Lone(r, active, f, disk)
      BY <2>1, <2>3 DEF StaysInPlan, Lone, Exclusive, Publishing
    <2>5. Begin(s, r)
      BY <1>5, <2>1, <2>2 DEF SyncRequest
    <2> QED
      BY <1>1, <2>3, <2>4, <2>5, ArrivesAlone
  <1> QED
    BY <1>2, <1>3, <1>4, <1>5 DEF Request

LEMMA CommitInvariance == Spec => []CommitInv
  <1>1. Init => CommitInv
    <2> SUFFICES ASSUME Init PROVE CommitInv
      OBVIOUS
    <2>1. FullInv
      BY InitInv, InitActivation DEF FullInv
    <2>2. (\A s \in Sessions : ses[s] = Idle) /\ solo = {}
      BY DEF Init
    <2>3. PatchInv /\ SoloInv
      BY <2>2, IdleIsLone DEF PatchInv, SoloInv
    <2> QED
      BY <2>1, <2>3 DEF CommitInv
  <1>2. ASSUME CommitInv, [Next]_vars PROVE CommitInv'
    <2>1. FullInv'
      BY <1>2, NextInv, ActivationNext DEF CommitInv, FullInv, IInv
    <2>2. CASE UNCHANGED vars
      <3>1. UNCHANGED <<content, active, disk, ses, new, solo>>
        BY <2>2 DEF vars
      <3> QED
        BY <1>2, <2>1, <3>1 DEF CommitInv, PatchInv, SoloInv
    <2>3. ASSUME NEW s \in Sessions, Step(s) PROVE PatchInv' /\ SoloInv'
      <3>1. CASE MismatchAnswer(s)
        <4>1. RolledBack(s) /\ ses[s].stage # "idle"
          BY <3>1 DEF MismatchAnswer
        <4> QED
          BY <1>2, <4>1, RollsBack
      <3> QED
        BY <1>2, <2>3, <3>1, SyncFileStep, StatementStep, StoreVersionStep, CommitsAlone DEF Step
    <2>4. ASSUME NEW s \in Sessions, Abort(s) PROVE PatchInv' /\ SoloInv'
      BY <1>2, <2>4, RollsBack DEF Abort
    <2>5. ASSUME NEW p \in Plans, NEW c \in Contents \union {NoContent}, DeployFile(p, c)
          PROVE  PatchInv' /\ SoloInv'
      <3>1. ses' = ses /\ solo' = {}
        BY <2>5 DEF DeployFile
      <3> QED
        BY <1>2, <3>1 DEF CommitInv, PatchInv, SoloInv
    <2>6. CASE Next
      <3>1. PatchInv' /\ SoloInv'
        BY <1>2, <2>3, <2>4, <2>5, <2>6, VictimAborts, ArrivalStep DEF Next
      <3> QED
        BY <2>1, <3>1 DEF CommitInv
    <2> QED
      BY <1>2, <2>2, <2>6
  <1> QED
    BY <1>1, <1>2, PTL DEF Spec

(* An activation that overlaps no request and no deployment leaves its version as  *)
(* the only active one, also after a race that had left several.                   *)
THEOREM LoneActivationsAreExclusive == Spec => SoloActivationIsExclusive
  <1> DEFINE A == \A s \in solo : Commit(s) => \A r \in ses[s].on : ActiveOf(PlanOf(r), active') = {r}
  <1>1. CommitInv /\ [Next]_vars => A
    <2> SUFFICES ASSUME CommitInv, NEW s \in solo, Commit(s), NEW r \in ses[s].on
                 PROVE  ActiveOf(PlanOf(r), active') = {r}
      OBVIOUS
    <2>1. Exclusive(ses[s], active)
      BY DEF CommitInv, SoloInv, Lone
    <2>2. active' = (active \ ses[s].off) \union ses[s].on
      BY DEF Commit, SeenActive
    <2> QED
      BY <2>1, <2>2 DEF Exclusive
  <1> HIDE DEF A
  <1>2. Spec => [][A]_vars
    BY <1>1, CommitInvariance, PTL DEF Spec
  <1> QED
    BY <1>2 DEF SoloActivationIsExclusive, A

(* A PATCH that commits leaves the active versions of every other plan as they are, *)
(* although it changes rows before it compares the plan with the URL's.            *)
THEOREM PatchesStayInTheirPlan == Spec => PatchStaysInPlan
  <1> DEFINE A == \A s \in Sessions :
                     Commit(s) /\ ses[s].kind \in {"activate", "rollback"} =>
                         \A p \in Plans \ {ses[s].plan} : ActiveOf(p, active') = ActiveOf(p, active)
  <1>1. CommitInv /\ [Next]_vars => A
    <2> SUFFICES ASSUME CommitInv, NEW s \in Sessions, Commit(s),
                        ses[s].kind \in {"activate", "rollback"}, NEW p \in Plans \ {ses[s].plan}
                 PROVE  ActiveOf(p, active') = ActiveOf(p, active)
      OBVIOUS
    <2>1. PICK q : q = ses[s]
      OBVIOUS
    <2>2. /\ q.kind = "rollback" => PlanOf(q.target) = q.plan
          /\ \A r \in q.on \union q.off : PlanOf(r) = PlanOf(q.target)
      BY <2>1 DEF CommitInv, PatchInv, StaysInPlan
    <2>3. q.kind = "activate" => PlanOf(q.target) = q.plan
      BY <2>1 DEF Commit, Mismatched
    <2>4. active' = (active \ q.off) \union q.on
      BY <2>1 DEF Commit, SeenActive
    <2>5. \A r \in q.on \union q.off : PlanOf(r) # p
      BY <2>1, <2>2, <2>3
    <2> QED
      BY <2>4, <2>5 DEF ActiveOf
  <1> HIDE DEF A
  <1>2. Spec => [][A]_vars
    BY <1>1, CommitInvariance, PTL DEF Spec
  <1> QED
    BY <1>2 DEF PatchStaysInPlan, A, Patches

(* After a sync that overlapped nothing, every plan with a file has that file as   *)
(* its newest version.                                                             *)
THEOREM LoneSyncsPublishEveryFile == Spec => SyncPublishesDisk
  <1> DEFINE A == \A s \in solo : Commit(s) /\ ses[s].kind = "sync" =>
                     \A p \in Plans : disk[p] # NoContent =>
                         content'[<<p, Newest(p, DOMAIN content')>>] = disk[p]
  <1>1. CommitInv /\ [Next]_vars => A
    <2> SUFFICES ASSUME CommitInv, NEW s \in solo, Commit(s), ses[s].kind = "sync",
                        NEW p \in Plans, disk[p] # NoContent
                 PROVE  content'[<<p, Newest(p, DOMAIN content')>>] = disk[p]
      OBVIOUS
    <2>1. PICK f : f = Over(new[s], content)
      OBVIOUS
    <2>2. Publishing(ses[s], f, disk)
      BY <2>1 DEF CommitInv, SoloInv, Lone
    <2>3. ses[s].stage = "finish" /\ content' = f
      BY <2>1 DEF Commit
    <2>4. Says(p, disk[p], f)
      BY <2>2, <2>3 DEF Publishing
    <2> QED
      BY <2>3, <2>4 DEF Says
  <1> HIDE DEF A
  <1>2. Spec => [][A]_vars
    BY <1>1, CommitInvariance, PTL DEF Spec
  <1> QED
    BY <1>2 DEF SyncPublishesDisk, A

-----------------------------------------------------------------------------
(* Creations and syncs take their locks in the order of the plans *)

(* A request q with the uncommitted rows N.  A creation or a sync locks a row of a *)
(* plan only after it has inserted one there, and it goes through the plans        *)
(* upwards: what it holds is below what it still has to do.                        *)
InOrder(q, N) ==
    /\ q.stage = "idle" => N = {}
    /\ q.kind \notin Patches =>
         /\ \A r \in q.held : \E x \in N : PlanOf(x) = PlanOf(r)
         /\ \A r \in N, p \in q.todo : PlanOf(r) < p
         /\ q.stage \in {"number", "insert"} =>
               (\A r \in N : PlanOf(r) < q.plan) /\ (\A p \in q.todo : q.plan < p)
         /\ q.stage \in {"scan", "lock", "flip"} =>
               q.target \in N /\ \A r \in N : PlanOf(r) <= PlanOf(q.target)
         /\ q.stage = "lock" => \A r \in q.cand : PlanOf(r) = PlanOf(q.target)

(* What a request q with the uncommitted rows N is about to publish.  A PATCH has *)
(* inserted nothing and activates its target.  A creation or a sync inserts one    *)
(* row per plan; it has activated all of them but the one in work, or none if the  *)
(* creation does not activate, and deactivated rows only of the plans it inserted  *)
(* into.                                                                           *)
Writes(q, N) ==
    IF q.kind \in Patches
    THEN /\ N = {} /\ q.stage \in {"scan", "lock", "flip", "finish"}
         /\ \A r \in q.off : PlanOf(r) = PlanOf(q.target)
         /\ q.stage = "lock" => \A r \in q.cand : PlanOf(r) = PlanOf(q.target)
         /\ q.on = IF q.stage = "finish" THEN {q.target} ELSE {}
    ELSE /\ \A x, y \in N : PlanOf(x) = PlanOf(y) => x = y
         /\ \A r \in q.off : \E x \in N : PlanOf(x) = PlanOf(r)
         /\ q.on \subseteq N
         /\ q.stage \in {"idle", "files", "number", "insert"} => q.on = N
         /\ q.stage = "files" => q.kind = "sync"
         /\ q.stage \in {"number", "insert"} =>
               (q.kind = "create" => N = {}) /\ (q.kind = "sync" => q.activates)
         /\ q.stage \in {"scan", "lock", "flip"} => N \ {q.target} \subseteq q.on
         /\ q.stage = "finish" => q.on = N \/ (q.on = {} /\ q.off = {})

Tidy(q, N) == InOrder(q, N) /\ Writes(q, N)

OrderInv == \A s \in Sessions : Tidy(ses[s], DOMAIN new[s])

LockInv == IInv /\ OrderInv

LEMMA IdleIsTidy == Tidy(Idle, {}) /\ DOMAIN NoRows = {}
  BY DEF Tidy, InOrder, Writes, Patches, Idle, NoRows

LEMMA OrderMove ==
    ASSUME LockInv, NEW s \in Sessions, NEW r, Moved(s, r), Tidy(r, DOMAIN new[s])
    PROVE  OrderInv'
  <1>1. new' = new /\ ses'[s] = r /\ \A t \in Sessions \ {s} : ses'[t] = ses[t]
    BY DEF LockInv, IInv, TypeOK, Moved
  <1> QED
    BY <1>1 DEF LockInv, OrderInv

LEMMA OrderEnds ==
    ASSUME LockInv, NEW s \in Sessions,
           ses' = [ses EXCEPT ![s] = Idle], new' = [new EXCEPT ![s] = NoRows]
    PROVE  OrderInv'
  <1>1. /\ ses'[s] = Idle /\ new'[s] = NoRows
        /\ \A t \in Sessions \ {s} : ses'[t] = ses[t] /\ new'[t] = new[t]
    BY DEF LockInv, IInv, TypeOK
  <1> QED
    BY <1>1, IdleIsTidy DEF LockInv, OrderInv

LEMMA OrderBegins ==
    ASSUME LockInv, NEW s \in Sessions, NEW r, Begin(s, r),
           r.stage \in {"number", "files", "scan"}, r.held = {},
           r.on = {}, r.off = {},
           r.stage = "scan" <=> r.kind \in Patches,
           r.stage = "files" <=> r.kind = "sync",
           r.stage = "number" => r.todo = {}
    PROVE  OrderInv'
  <1>1. DOMAIN new[s] = {}
    BY DEF LockInv, OrderInv, Tidy, InOrder, Begin
  <1>2. Tidy(r, {})
    BY DEF Tidy, InOrder, Writes
  <1>3. new' = new /\ ses'[s] = r /\ \A t \in Sessions \ {s} : ses'[t] = ses[t]
    BY DEF LockInv, IInv, TypeOK, Begin
  <1> QED
    BY <1>1, <1>2, <1>3 DEF LockInv, OrderInv

LEMMA OrderRequest ==
    ASSUME LockInv, NEW s \in Sessions, Request(s)
    PROVE  OrderInv'
  <1>1. ASSUME NEW p \in Plans, NEW c \in Contents, NEW a \in BOOLEAN, CreateRequest(s, p, c, a)
        PROVE  OrderInv'
    BY <1>1, OrderBegins DEF CreateRequest, Idle, Patches
  <1>2. ASSUME NEW p \in Plans, NEW row \in Stored, ActivateRequest(s, p, row)
        PROVE  OrderInv'
    BY <1>2, OrderBegins DEF ActivateRequest, Idle, Patches
  <1>3. ASSUME NEW p \in Plans, RollbackRequest(s, p)
        PROVE  OrderInv'
    BY <1>3, OrderBegins DEF RollbackRequest, Idle, Patches
  <1>4. CASE SyncRequest(s)
    BY <1>4, OrderBegins DEF SyncRequest, Idle, Patches
  <1> QED
    BY <1>1, <1>2, <1>3, <1>4 DEF Request

(* The moves of a request q with the uncommitted rows N.                           *)
LEMMA MovesInOrder ==
    ASSUME NEW q \in SessionType, NEW N \in SUBSET Rows, InOrder(q, N)
    PROVE  /\ q.stage = "files" =>
                /\ InOrder([q EXCEPT !.stage = "finish"], N)
                /\ \A p \in q.todo : InOrder([q EXCEPT !.todo = q.todo \ {p}], N)
                /\ \A p \in NextFiles(q.todo) : \A c : InOrder(FileTaken(q, p, c), N)
           /\ q.stage = "number" => \A v : InOrder(Numbered(q, v), N)
           /\ q.stage = "insert" /\ q.plan \in Plans =>
                \A v : InOrder(Inserted(q, <<q.plan, v>>), N \union {<<q.plan, v>>})
           /\ q.stage = "scan" =>
                \A C : (\A r \in C : PlanOf(r) = PlanOf(q.target)) => InOrder(Scanned(q, C), N)
           /\ q.stage = "lock" =>
                \A hit : InOrder(Deactivated(q, hit, q.held \union q.cand), N)
           /\ q.stage = "flip" => InOrder(Activated(q, q.held \union {q.target}), N)
  <1> USE PlansAreNumbers
  <1>1. /\ \A r \in N : PlanOf(r) \in Nat
        /\ \A p \in q.todo : p \in Nat
        /\ \A x, y : PlanOf(<<x, y>>) = x
    BY DEF SessionType, Rows, PlanOf
  <1>2. ASSUME q.stage = "files"
        PROVE  InOrder([q EXCEPT !.stage = "finish"], N)
    BY <1>2 DEF InOrder, SessionType
  <1>3. ASSUME q.stage = "files", NEW p \in q.todo
        PROVE  InOrder([q EXCEPT !.todo = q.todo \ {p}], N)
    BY <1>3 DEF InOrder, SessionType
  <1>4. ASSUME q.stage = "files", NEW p \in NextFiles(q.todo), NEW c
        PROVE  InOrder(FileTaken(q, p, c), N)
    <2>1. p \in q.todo /\ \A x \in q.todo \ {p} : p < x
      BY <1>1 DEF NextFiles
    <2>2. PICK r : r = FileTaken(q, p, c)
      OBVIOUS
    <2>3. /\ r.stage = "number" /\ r.plan = p /\ r.todo = q.todo \ {p}
          /\ r.kind = q.kind /\ r.held = q.held
      BY <2>2 DEF FileTaken, SessionType
    <2> QED
      BY <1>4, <2>1, <2>2, <2>3 DEF InOrder
  <1>5. ASSUME q.stage = "number", NEW v PROVE InOrder(Numbered(q, v), N)
    BY <1>5 DEF InOrder, Numbered, SessionType
  <1>6. ASSUME q.stage = "insert", q.plan \in Plans, NEW v
        PROVE  InOrder(Inserted(q, <<q.plan, v>>), N \union {<<q.plan, v>>})
    <2>1. PICK r, x : x = <<q.plan, v>> /\ r = Inserted(q, x)
      OBVIOUS
    <2>2. /\ r.target = x /\ r.todo = q.todo /\ r.kind = q.kind /\ r.held = q.held
          /\ r.stage \in {"scan", "finish"} /\ PlanOf(x) = q.plan
      BY <1>1, <2>1 DEF Inserted, SessionType
    <2>3. PICK n \in Nat : n = q.plan
      BY <1>6, PlansAreNumbers
    <2>4. q.plan <= q.plan /\ \A y \in N : PlanOf(y) < q.plan => PlanOf(y) <= q.plan
      BY <1>1, <2>3
    <2> QED
      BY <1>6, <2>1, <2>2, <2>4 DEF InOrder
  <1>7. ASSUME q.stage = "scan", NEW C, \A r \in C : PlanOf(r) = PlanOf(q.target)
        PROVE  InOrder(Scanned(q, C), N)
    BY <1>7 DEF InOrder, Scanned, SessionType
  <1>8. ASSUME q.stage = "lock", NEW hit
        PROVE  InOrder(Deactivated(q, hit, q.held \union q.cand), N)
    <2>1. PICK r : r = Deactivated(q, hit, q.held \union q.cand)
      OBVIOUS
    <2>2. /\ r.target = q.target /\ r.todo = q.todo /\ r.kind = q.kind
          /\ r.held = q.held \union q.cand /\ r.stage = "flip"
      BY <2>1 DEF Deactivated, SessionType
    <2> QED
      BY <1>8, <2>1, <2>2 DEF InOrder
  <1>9. ASSUME q.stage = "flip"
        PROVE  InOrder(Activated(q, q.held \union {q.target}), N)
    <2>1. PICK r : r = Activated(q, q.held \union {q.target})
      OBVIOUS
    <2>2. /\ r.todo = q.todo /\ r.kind = q.kind /\ r.held = q.held \union {q.target}
          /\ r.stage \in {"files", "finish"}
      BY <2>1 DEF Activated, SessionType
    <2> QED
      BY <1>9, <2>1, <2>2 DEF InOrder
  <1> QED
    BY <1>2, <1>3, <1>4, <1>5, <1>6, <1>7, <1>8, <1>9

(* A row inserted by q, or rows deactivated, in a plan that q is alone at.         *)
LEMMA MovesWrite ==
    ASSUME NEW q \in SessionType, NEW N \in SUBSET Rows, Tidy(q, N)
    PROVE  /\ q.stage = "files" =>
                /\ Writes([q EXCEPT !.stage = "finish"], N)
                /\ \A p \in q.todo : Writes([q EXCEPT !.todo = q.todo \ {p}], N)
                /\ \A p \in NextFiles(q.todo) : \A c : Writes(FileTaken(q, p, c), N)
           /\ q.stage = "number" => \A v : Writes(Numbered(q, v), N)
           /\ q.stage = "insert" /\ q.plan \in Plans =>
                \A v : Writes(Inserted(q, <<q.plan, v>>), N \union {<<q.plan, v>>})
           /\ q.stage = "scan" =>
                \A C : (\A r \in C : PlanOf(r) = PlanOf(q.target)) => Writes(Scanned(q, C), N)
           /\ q.stage = "lock" =>
                \A hit \in SUBSET q.cand : Writes(Deactivated(q, hit, q.held \union q.cand), N)
           /\ q.stage = "flip" => Writes(Activated(q, q.held \union {q.target}), N)
  <1>1. InOrder(q, N) /\ Writes(q, N) /\ q.kind \in Kinds
    BY DEF Tidy, SessionType
  <1>2. ASSUME q.stage = "files"
        PROVE  Writes([q EXCEPT !.stage = "finish"], N)
    BY <1>1, <1>2 DEF Writes, SessionType
  <1>3. ASSUME q.stage = "files", NEW p \in q.todo
        PROVE  Writes([q EXCEPT !.todo = q.todo \ {p}], N)
    BY <1>1, <1>3 DEF Writes, SessionType
  <1>4. ASSUME q.stage = "files", NEW p \in NextFiles(q.todo), NEW c
        PROVE  Writes(FileTaken(q, p, c), N)
    <2>1. PICK r : r = FileTaken(q, p, c)
      OBVIOUS
    <2>2. /\ r.stage = "number" /\ r.activates = TRUE /\ r.kind = q.kind
          /\ r.on = q.on /\ r.off = q.off
      BY <2>1 DEF FileTaken, SessionType
    <2> QED
      BY <1>1, <1>4, <2>1, <2>2 DEF Writes
  <1>5. ASSUME q.stage = "number", NEW v PROVE Writes(Numbered(q, v), N)
    BY <1>1, <1>5 DEF Writes, Numbered, SessionType
  <1>6. ASSUME q.stage = "insert", q.plan \in Plans, NEW v
        PROVE  Writes(Inserted(q, <<q.plan, v>>), N \union {<<q.plan, v>>})
    <2>1. PICK r, x : x = <<q.plan, v>> /\ r = Inserted(q, x)
      OBVIOUS
    <2>2. /\ r.target = x /\ r.kind = q.kind /\ r.on = q.on /\ r.off = q.off
          /\ r.stage = (IF q.activates THEN "scan" ELSE "finish") /\ PlanOf(x) = q.plan
      BY <2>1 DEF Inserted, SessionType, PlanOf
    <2>3. \A y \in N : PlanOf(y) # q.plan
      BY <1>1, <1>6, PlansAreNumbers DEF InOrder, Writes, Rows, PlanOf
    <2>4. q.kind \notin Patches /\ q.on = N
      BY <1>1, <1>6 DEF Writes
    <2>5. ~q.activates => N = {} /\ q.off = {}
      BY <1>1, <1>6, <2>4 DEF Writes, Kinds, Patches
    <2> QED
      BY <1>1, <1>6, <2>1, <2>2, <2>3, <2>4, <2>5 DEF Writes
  <1>7. ASSUME q.stage = "scan", NEW C, \A r \in C : PlanOf(r) = PlanOf(q.target)
        PROVE  Writes(Scanned(q, C), N)
    <2>1. PICK r : r = Scanned(q, C)
      OBVIOUS
    <2>2. /\ r.stage = "lock" /\ r.cand = C /\ r.kind = q.kind /\ r.on = q.on /\ r.off = q.off
          /\ r.target = q.target
      BY <2>1 DEF Scanned, SessionType
    <2> QED
      BY <1>1, <1>7, <2>1, <2>2 DEF Writes
  <1>8. ASSUME q.stage = "lock", NEW hit \in SUBSET q.cand
        PROVE  Writes(Deactivated(q, hit, q.held \union q.cand), N)
    <2>1. PICK r : r = Deactivated(q, hit, q.held \union q.cand)
      OBVIOUS
    <2>2. /\ r.target = q.target /\ r.kind = q.kind /\ r.stage = "flip"
          /\ r.off = q.off \union hit /\ r.on = q.on \ hit
      BY <2>1 DEF Deactivated, SessionType
    <2>3. \A x \in hit : PlanOf(x) = PlanOf(q.target)
      BY <1>1, <1>8 DEF InOrder, Writes
    <2>4. CASE q.kind \in Patches
      BY <1>1, <1>8, <2>1, <2>2, <2>3, <2>4 DEF Writes
    <2>5. CASE q.kind \notin Patches
      <3>1. q.target \in N /\ \A x, y \in N : PlanOf(x) = PlanOf(y) => x = y
        BY <1>1, <1>8, <2>5 DEF InOrder, Writes
      <3>2. N \ {q.target} \subseteq q.on \ hit
        BY <1>1, <1>8, <2>3, <2>5, <3>1 DEF Writes
      <3> QED
        BY <1>1, <1>8, <2>1, <2>2, <2>3, <2>5, <3>1, <3>2 DEF Writes
    <2> QED
      BY <2>4, <2>5
  <1>9. ASSUME q.stage = "flip"
        PROVE  Writes(Activated(q, q.held \union {q.target}), N)
    <2>1. PICK r : r = Activated(q, q.held \union {q.target})
      OBVIOUS
    <2>2. /\ r.kind = q.kind /\ r.target = q.target
          /\ r.stage = (IF q.kind = "sync" THEN "files" ELSE "finish")
          /\ r.on = q.on \union {q.target} /\ r.off = q.off \ {q.target}
      BY <2>1 DEF Activated, SessionType
    <2>3. CASE q.kind \in Patches
      BY <1>1, <1>9, <2>1, <2>2, <2>3 DEF Writes, Patches
    <2>4. CASE q.kind \notin Patches
      <3>1. q.target \in N /\ q.on \union {q.target} = N
        BY <1>1, <1>9, <2>4 DEF InOrder, Writes
      <3> QED
        BY <1>1, <1>9, <2>1, <2>2, <2>4, <3>1 DEF Writes
    <2> QED
      BY <2>3, <2>4
  <1> QED
    BY <1>2, <1>3, <1>4, <1>5, <1>6, <1>7, <1>8, <1>9

(* Both at once.                                                                   *)
LEMMA MovesTidy ==
    ASSUME NEW q \in SessionType, NEW N \in SUBSET Rows, Tidy(q, N)
    PROVE  /\ q.stage = "files" =>
                /\ Tidy([q EXCEPT !.stage = "finish"], N)
                /\ \A p \in q.todo : Tidy([q EXCEPT !.todo = q.todo \ {p}], N)
                /\ \A p \in NextFiles(q.todo) : \A c : Tidy(FileTaken(q, p, c), N)
           /\ q.stage = "number" => \A v : Tidy(Numbered(q, v), N)
           /\ q.stage = "insert" /\ q.plan \in Plans =>
                \A v : Tidy(Inserted(q, <<q.plan, v>>), N \union {<<q.plan, v>>})
           /\ q.stage = "scan" =>
                \A C : (\A r \in C : PlanOf(r) = PlanOf(q.target)) => Tidy(Scanned(q, C), N)
           /\ q.stage = "lock" =>
                \A hit \in SUBSET q.cand : Tidy(Deactivated(q, hit, q.held \union q.cand), N)
           /\ q.stage = "flip" => Tidy(Activated(q, q.held \union {q.target}), N)
  <1>1. InOrder(q, N)
    BY DEF Tidy
  <1> QED
    BY <1>1, MovesInOrder, MovesWrite DEF Tidy

LEMMA OrderStep ==
    ASSUME LockInv, NEW s \in Sessions, Step(s)
    PROVE  OrderInv'
  <1>1. PICK q, N : q = ses[s] /\ N = DOMAIN new[s]
    OBVIOUS
  <1>2. q \in SessionType /\ N \in SUBSET Rows /\ Tidy(q, N)
    BY <1>1 DEF LockInv, IInv, TypeOK, OrderInv
  <1>3. ASSUME NEW r, Moved(s, r), Tidy(r, N) PROVE OrderInv'
    BY <1>1, <1>3, OrderMove
  <1>4. ASSUME RolledBack(s) PROVE OrderInv'
    BY <1>4, OrderEnds DEF RolledBack
  <1>5. CASE SyncFile(s)
    <2>1. PICK p \in NextFiles(q.todo) :
             LET rest == [q EXCEPT !.todo = @ \ {p}]
             IN  IF disk[p] = NoContent THEN RolledBack(s)
                 ELSE IF UpToDate(p, disk[p], s) THEN Moved(s, rest)
                 ELSE Moved(s, [rest EXCEPT !.stage = "number", !.plan = p, !.wants = disk[p],
                                            !.activates = TRUE])
      BY ZenonT(30), <1>1, <1>5 DEF SyncFile
    <2>2. q.stage = "files" /\ p \in q.todo
      BY <1>1, <1>5 DEF SyncFile, NextFiles
    <2>3. PICK c : c = disk[p]
      OBVIOUS
    <2>4. PICK rest : rest = [q EXCEPT !.todo = q.todo \ {p}]
      OBVIOUS
    <2>5. PICK taken : taken = FileTaken(q, p, c)
      OBVIOUS
    <2>6. taken = [rest EXCEPT !.stage = "number", !.plan = p, !.wants = c, !.activates = TRUE]
      BY <1>2, <2>4, <2>5 DEF SessionType, FileTaken
    <2>7. RolledBack(s) \/ Moved(s, rest) \/ Moved(s, taken)
      BY <2>1, <2>3, <2>4, <2>6
    <2>8. Tidy(rest, N) /\ Tidy(taken, N)
      BY <1>2, <2>2, <2>4, <2>5, MovesTidy
    <2> QED
      BY <1>3, <1>4, <2>7, <2>8
  <1>6. CASE SyncDone(s)
    <2>1. PICK r : r = [q EXCEPT !.stage = "finish"]
      OBVIOUS
    <2>2. q.stage = "files" /\ Moved(s, r)
      BY <1>1, <1>6, <2>1 DEF SyncDone
    <2>3. Tidy(r, N)
      BY <1>2, <2>1, <2>2, MovesTidy
    <2> QED
      BY <1>3, <2>2, <2>3
  <1>7. CASE GetNextVersion(s)
    <2>1. PICK v : v = NextVersion(ses[s].plan, SeenRows(s))
      OBVIOUS
    <2>2. PICK r : r = Numbered(q, v)
      OBVIOUS
    <2>3. q.stage = "number" /\ Moved(s, r)
      BY <1>1, <1>7, <2>1, <2>2 DEF GetNextVersion, Numbered
    <2>4. Tidy(r, N)
      BY <1>2, <2>2, <2>3, MovesTidy
    <2> QED
      BY <1>3, <2>3, <2>4
  <1>8. CASE StoreVersion(s)
    <2>1. PICK row : row = <<q.plan, q.version>>
      OBVIOUS
    <2>2. q.stage = "insert" /\ q.plan \in Plans
      BY <1>1, <1>8 DEF StoreVersion, LockInv, IInv, TypeOK
    <2>3. CASE Conflicts(s, row)
      BY <1>1, <1>4, <1>8, <2>1, <2>3 DEF StoreVersion
    <2>4. CASE ~Conflicts(s, row)
      <3>1. PICK next : next = IF q.activates THEN "scan" ELSE "finish"
        OBVIOUS
      <3>2. /\ new' = [new EXCEPT ![s] = Over([x \in {row} |-> q.wants], new[s])]
            /\ ses' = [ses EXCEPT ![s].target = row, ![s].stage = next]
        BY <1>1, <1>8, <2>1, <2>4, <3>1 DEF StoreVersion
      <3>3. PICK r : r = Inserted(q, row)
        OBVIOUS
      <3>4. ses' = [ses EXCEPT ![s] = r]
        BY <1>1, <3>1, <3>2, <3>3 DEF LockInv, IInv, TypeOK, Inserted
      <3>5. Tidy(r, N \union {row})
        BY <1>2, <2>1, <2>2, <3>3, MovesTidy
      <3>6. DOMAIN new'[s] = N \union {row}
        <4>1. new'[s] = Over([x \in {row} |-> q.wants], new[s])
          BY <3>2 DEF LockInv, IInv, TypeOK
        <4>2. PICK f, g : f = [x \in {row} |-> q.wants] /\ g = new[s]
          OBVIOUS
        <4>3. DOMAIN Over(f, g) = DOMAIN f \union DOMAIN g
          BY OverDomain
        <4> QED
          BY <1>1, <4>1, <4>2, <4>3
      <3>7. ses'[s] = r /\ \A t \in Sessions \ {s} : ses'[t] = ses[t] /\ new'[t] = new[t]
        BY <3>2, <3>4 DEF LockInv, IInv, TypeOK
      <3> QED
        BY <3>5, <3>6, <3>7 DEF LockInv, OrderInv
    <2> QED
      BY <2>3, <2>4
  <1>9. CASE DeactivateScan(s)
    <2>1. PICK C : C = ToDeactivate(s)
      OBVIOUS
    <2>2. PICK r : r = Scanned(q, C)
      OBVIOUS
    <2>3. q.stage = "scan" /\ Moved(s, r) /\ \A x \in C : PlanOf(x) = PlanOf(q.target)
      BY <1>1, <1>9, <2>1, <2>2 DEF DeactivateScan, Scanned, ToDeactivate, ActiveOf
    <2>4. Tidy(r, N)
      BY <1>2, <2>2, <2>3, MovesTidy
    <2> QED
      BY <1>3, <2>3, <2>4
  <1>10. CASE DeactivateRows(s)
    <2>1. PICK hit : hit = ses[s].cand \cap SeenActive(s)
      OBVIOUS
    <2>2. PICK r : r = Deactivated(q, hit, q.held \union q.cand)
      OBVIOUS
    <2>3. q.stage = "lock" /\ Moved(s, r) /\ hit \subseteq q.cand
      BY <1>1, <1>10, <2>1, <2>2 DEF DeactivateRows, Deactivated
    <2>4. Tidy(r, N)
      BY <1>2, <2>2, <2>3, MovesTidy
    <2> QED
      BY <1>3, <2>3, <2>4
  <1>11. CASE ActivateTarget(s)
    <2>1. PICK r : r = Activated(q, q.held \union {q.target})
      OBVIOUS
    <2>2. q.stage = "flip" /\ Moved(s, r)
      BY <1>1, <1>11, <2>1 DEF ActivateTarget, Activated
    <2>3. Tidy(r, N)
      BY <1>2, <2>1, <2>2, MovesTidy
    <2> QED
      BY <1>3, <2>2, <2>3
  <1>12. CASE Commit(s)
    BY <1>12, OrderEnds DEF Commit
  <1>13. CASE MismatchAnswer(s)
    BY <1>4, <1>13 DEF MismatchAnswer
  <1> QED
    BY <1>5, <1>6, <1>7, <1>8, <1>9, <1>10, <1>11, <1>12, <1>13 DEF Step

LEMMA LockInvariance == Spec => []LockInv
  <1>1. Init => LockInv
    <2> SUFFICES ASSUME Init PROVE LockInv
      OBVIOUS
    <2>1. \A s \in Sessions : ses[s] = Idle /\ DOMAIN new[s] = {}
      BY IdleIsTidy DEF Init
    <2> QED
      BY <2>1, InitInv, IdleIsTidy DEF LockInv, OrderInv
  <1>2. LockInv /\ [Next]_vars => LockInv'
    <2> SUFFICES ASSUME LockInv, [Next]_vars PROVE OrderInv'
      BY NextInv DEF LockInv
    <2>1. CASE UNCHANGED <<ses, new>>
      BY <2>1 DEF LockInv, OrderInv
    <2>2. ASSUME NEW s \in Sessions, Abort(s) PROVE OrderInv'
      BY <2>2, OrderEnds DEF Abort, RolledBack
    <2> QED
      BY <2>1, <2>2, VictimAborts, OrderRequest, OrderStep DEF Next, DeployFile, vars
  <1> QED
    BY <1>1, <1>2, PTL DEF Spec

(* Two sessions never have uncommitted rows of one plan.                           *)
LEMMA OneWriterPerPlan ==
    ASSUME IInv, NEW s \in Sessions, NEW t \in Sessions \ {s},
           NEW x \in DOMAIN new[s], NEW y \in DOMAIN new[t]
    PROVE  PlanOf(x) # PlanOf(y)
  <1>1. SUFFICES ASSUME PlanOf(x) = PlanOf(y) PROVE FALSE
    OBVIOUS
  <1>2. /\ x \in Rows /\ y \in Rows /\ Stored \in SUBSET Rows
        /\ SeenRows(s) \in SUBSET Rows /\ SeenRows(t) \in SUBSET Rows
    BY DEF IInv, TypeOK, Stored, SeenRows
  <1>3. PICK p \in Plans, v \in Nat \ {0}, w \in Nat \ {0} : x = <<p, v>> /\ y = <<p, w>>
    BY <1>1, <1>2 DEF Rows, PlanOf
  <1>4. PICK n \in Nat : Prefix(p, Stored, n)
    BY <1>2, GapFreeIsPrefix DEF IInv, NumberingInv, VersionsGapFree
  <1>5. ASSUME NEW u \in Sessions, NEW k \in Nat \ {0}, <<p, k>> \in DOMAIN new[u]
        PROVE  <<p, n + 1>> \in DOMAIN new[u]
    <2>1. SeenRows(u) \in SUBSET Rows
      BY DEF IInv, TypeOK, Stored, SeenRows
    <2>2. PICK m \in Nat : Prefix(p, SeenRows(u), m)
      BY <2>1, GapFreeIsPrefix DEF IInv, NumberingInv
    <2>3. <<p, k>> \notin Stored /\ <<p, k>> \in SeenRows(u)
      BY <1>5 DEF IInv, NumberingInv, SeenRows
    <2>4. ~(k <= n) /\ k <= m
      BY <1>4, <2>2, <2>3 DEF Prefix
    <2>5. n + 1 \in Nat \ {0} /\ n + 1 <= m /\ ~(n + 1 <= n)
      BY <2>4
    <2>6. <<p, n + 1>> \in SeenRows(u) /\ <<p, n + 1>> \notin Stored
      BY <1>4, <2>2, <2>5 DEF Prefix
    <2> QED
      BY <2>6 DEF SeenRows
  <1>6. <<p, n + 1>> \in DOMAIN new[s] /\ <<p, n + 1>> \in DOMAIN new[t]
    BY <1>3, <1>5
  <1> QED
    BY <1>6 DEF IInv, NumberingInv

(* The plan of the statement a session is at.                                      *)
PlanAt(s) == IF ses[s].stage = "insert" THEN ses[s].plan ELSE PlanOf(ses[s].target)

(* A row that a creation or a sync has locked is in the plan of one it inserted.   *)
LEMMA LocksFollowInserts ==
    ASSUME LockInv, NEW t \in Writers, NEW r \in Locked(t)
    PROVE  \E x \in DOMAIN new[t] : PlanOf(x) = PlanOf(r)
  BY DEF LockInv, OrderInv, Tidy, InOrder, Writers, Locked

(* Waits go upwards: if a creation or sync waits for another, and that one waits   *)
(* for a third, the second waits in a later plan than the first.                   *)
LEMMA WaitsAscend ==
    ASSUME LockInv, NEW s \in Writers, NEW t \in Writers, NEW u \in Writers,
           WaitsFor(s, t), WaitsFor(t, u)
    PROVE  PlanAt(s) < PlanAt(t)
  <1>1. s \in Sessions /\ t \in Sessions /\ u \in Sessions /\ s # t /\ t # u
    BY DEF Writers, WaitsFor
  <1>2. InOrder(ses[s], DOMAIN new[s]) /\ InOrder(ses[t], DOMAIN new[t])
    BY <1>1 DEF LockInv, OrderInv, Tidy
  <1>3. ses[s].kind \notin Patches /\ ses[t].kind \notin Patches
    BY DEF Writers
  (* Whoever is past its insert in a plan waits for no writer there.               *)
  <1>4. ASSUME NEW a \in Writers, NEW b \in Writers, WaitsFor(a, b)
        PROVE  /\ ses[a].stage = "insert"
               /\ \E x \in DOMAIN new[b] : PlanOf(x) = ses[a].plan
    <2>1. a \in Sessions /\ b \in Sessions \ {a}
      BY <1>4 DEF Writers, WaitsFor
    <2>2. PICK r \in Wanted(a) : r \in Locked(b)
      BY <1>4 DEF WaitsFor
    <2>3. PICK x \in DOMAIN new[b] : PlanOf(x) = PlanOf(r)
      BY <2>2, LocksFollowInserts
    <2>4. CASE ses[a].stage = "insert"
      BY <2>2, <2>3, <2>4 DEF Wanted, PlanOf
    <2>5. CASE ses[a].stage # "insert"
      <3>1. ses[a].stage \in {"lock", "flip"}
        BY <2>2, <2>5 DEF Wanted
      <3>2. InOrder(ses[a], DOMAIN new[a]) /\ ses[a].kind \notin Patches
        BY <2>1 DEF LockInv, OrderInv, Tidy, Writers
      <3>3. ses[a].target \in DOMAIN new[a]
        BY <3>1, <3>2 DEF InOrder
      <3>4. PlanOf(r) = PlanOf(ses[a].target)
        BY <2>2, <3>1, <3>2 DEF InOrder, Wanted
      <3> QED
        BY <2>1, <2>3, <3>3, <3>4, OneWriterPerPlan DEF LockInv
    <2> QED
      BY <2>4, <2>5
  <1>5. PICK x \in DOMAIN new[t] : PlanOf(x) = ses[s].plan
    BY <1>4
  <1>6. ses[s].stage = "insert" /\ ses[t].stage = "insert"
    BY <1>4
  <1>7. PlanOf(x) < ses[t].plan
    BY <1>2, <1>3, <1>6 DEF InOrder
  <1> QED
    BY <1>5, <1>6, <1>7 DEF PlanAt

(* A set of numbers that is not empty has a least one. *)
LEMMA LeastNumber ==
    ASSUME NEW T, T \subseteq Nat, T # {}
    PROVE  \E x \in T : \A y \in T : x <= y
  <1> DEFINE R == OpToRel(<, Nat)
             W == IsWellFoundedOn(R, Nat)
  <1>1. R = {ss \in Nat \X Nat : ss[1] < ss[2]}
    BY Zenon DEF OpToRel
  <1>2. W
    BY NatLessThanWellFounded, Zenon
  <1>3. IsWellFoundedOn(R, Nat)
    BY <1>2
  <1> HIDE DEF R, W
  <1>4. PICK x \in T : \A y \in T : ~(<<y, x>> \in R)
    BY <1>3, WFMin
  <1>5. \A y \in T : x <= y
    <2> SUFFICES ASSUME NEW y \in T PROVE x <= y
      OBVIOUS
    <2>1. x \in Nat /\ y \in Nat /\ <<y, x>> \notin R
      BY <1>4
    <2>2. ~(y < x)
      BY <1>1, <2>1
    <2> QED
      BY <2>1, <2>2
  <1> QED
    BY <1>5

(* Creations and syncs never wait for each other in a cycle of any length: of the  *)
(* sessions of a cycle one would wait in the last plan, and it waits for one that  *)
(* waits in a later plan.                                                          *)
THEOREM SyncsDoNotDeadlock == Spec => []SyncsNeverDeadlock
  <1>1. LockInv => SyncsNeverDeadlock
    <2> SUFFICES ASSUME LockInv, NEW C \in SUBSET Writers, Deadlocked(C) PROVE FALSE
      BY DEF SyncsNeverDeadlock
    <2>1. PICK n \in Nat : \A p \in Plans : p <= n
      BY PlansAreBounded, PlansAreNumbers
    <2>2. C # {} /\ \A s \in C : \E t \in C : WaitsFor(s, t)
      BY DEF Deadlocked
    <2>3. ASSUME NEW s \in C PROVE PlanAt(s) \in Nat /\ PlanAt(s) <= n
      <3>1. PICK t \in C : WaitsFor(s, t)
        BY <2>2
      <3>2. ses[s].stage \in {"insert", "lock", "flip"} /\ s \in Sessions
        BY <3>1 DEF WaitsFor, Wanted, Writers
      <3>3. PlanAt(s) \in Plans
        BY <3>2 DEF LockInv, IInv, TypeOK, PlanAt, PlanOf, Rows
      <3> QED
        BY <2>1, <3>3, PlansAreNumbers
    <2> DEFINE T == {n - PlanAt(s) : s \in C}
    <2>4. T \subseteq Nat /\ T # {}
      BY <2>2, <2>3
    <2>5. PICK k \in T : \A y \in T : k <= y
      BY <2>4, LeastNumber
    <2>6. PICK s \in C : k = n - PlanAt(s)
      BY <2>5
    <2>7. PICK t \in C : WaitsFor(s, t)
      BY <2>2
    <2>8. PICK u \in C : WaitsFor(t, u)
      BY <2>2
    <2>9. PlanAt(s) < PlanAt(t)
      BY <2>7, <2>8, WaitsAscend
    <2>10. n - PlanAt(s) <= n - PlanAt(t)
      BY <2>5, <2>6
    <2> QED
      BY <2>3, <2>9, <2>10
  <1> QED
    BY <1>1, LockInvariance, PTL

-----------------------------------------------------------------------------
(* The store implements the history it promises *)

(* What a PATCH activates is stored from the start of the request.                 *)
TargetInv == \A s \in Sessions : ses[s].kind \in Patches => ses[s].target \in Stored

HistInv == LockInv /\ TargetInv

(* A statement of a request changes neither its kind nor the target of a PATCH.    *)
LEMMA StepKeepsTarget ==
    ASSUME LockInv, NEW s \in Sessions, Step(s), ses'[s].kind \in Patches
    PROVE  ses'[s].kind = ses[s].kind /\ ses'[s].target = ses[s].target
  <1>1. PICK q : q = ses[s]
    OBVIOUS
  <1>2. q \in SessionType /\ ses \in [Sessions -> SessionType] /\ Writes(q, DOMAIN new[s])
    BY <1>1 DEF LockInv, IInv, TypeOK, OrderInv, Tidy
  <1>3. ASSUME NEW r, Moved(s, r), r.kind = q.kind, r.target = q.target
        PROVE  ses'[s].kind = ses[s].kind /\ ses'[s].target = ses[s].target
    BY <1>1, <1>2, <1>3 DEF Moved
  <1>4. ~RolledBack(s) /\ ~Commit(s)
    BY <1>2 DEF RolledBack, Commit, Idle, Patches
  <1>5. CASE SyncFile(s)
    <2>1. PICK p \in NextFiles(q.todo) :
             LET rest == [q EXCEPT !.todo = @ \ {p}]
             IN  IF disk[p] = NoContent THEN RolledBack(s)
                 ELSE IF UpToDate(p, disk[p], s) THEN Moved(s, rest)
                 ELSE Moved(s, [rest EXCEPT !.stage = "number", !.plan = p, !.wants = disk[p],
                                            !.activates = TRUE])
      BY ZenonT(30), <1>1, <1>5 DEF SyncFile
    <2>2. PICK rest : rest = [q EXCEPT !.todo = q.todo \ {p}]
      OBVIOUS
    <2>3. PICK taken : taken = [rest EXCEPT !.stage = "number", !.plan = p,
                                            !.wants = disk[p], !.activates = TRUE]
      OBVIOUS
    <2>4. Moved(s, rest) \/ Moved(s, taken)
      BY <1>4, <2>1, <2>2, <2>3
    <2>5. /\ rest.kind = q.kind /\ rest.target = q.target
          /\ taken.kind = q.kind /\ taken.target = q.target
      BY <1>2, <2>2, <2>3 DEF SessionType
    <2> QED
      BY <1>3, <2>4, <2>5
  <1>6. CASE SyncDone(s)
    BY <1>1, <1>2, <1>3, <1>6 DEF SyncDone, SessionType
  <1>7. CASE GetNextVersion(s)
    <2>1. PICK v : v = NextVersion(ses[s].plan, SeenRows(s))
      OBVIOUS
    <2>2. Moved(s, [q EXCEPT !.stage = "insert", !.version = v])
      BY <1>1, <1>7, <2>1 DEF GetNextVersion
    <2> QED
      BY <1>2, <1>3, <2>2 DEF SessionType
  <1>8. CASE StoreVersion(s)
    <2>1. q.stage = "insert" /\ q.kind \notin Patches
      BY <1>1, <1>2, <1>8 DEF StoreVersion, Writes
    <2>2. PICK row, next : row = <<q.plan, q.version>>
                           /\ next = IF q.activates THEN "scan" ELSE "finish"
      OBVIOUS
    <2>3. ses' = [ses EXCEPT ![s] = [q EXCEPT !.target = row, !.stage = next]]
      BY <1>1, <1>2, <1>4, <1>8, <2>2 DEF StoreVersion
    <2>4. ses'[s].kind = q.kind
      BY <1>1, <1>2, <2>3 DEF SessionType
    <2> QED
      BY <2>1, <2>4
  <1>9. CASE DeactivateScan(s)
    <2>1. Moved(s, Scanned(q, ToDeactivate(s)))
      BY <1>1, <1>9 DEF DeactivateScan, Scanned
    <2> QED
      BY <1>2, <1>3, <2>1 DEF Scanned, SessionType
  <1>10. CASE DeactivateRows(s)
    <2>1. PICK hit : hit = ses[s].cand \cap SeenActive(s)
      OBVIOUS
    <2>2. Moved(s, Deactivated(q, hit, q.held \union q.cand))
      BY <1>1, <1>10, <2>1 DEF DeactivateRows, Deactivated
    <2> QED
      BY <1>2, <1>3, <2>2 DEF Deactivated, SessionType
  <1>11. CASE ActivateTarget(s)
    <2>1. Moved(s, Activated(q, q.held \union {q.target}))
      BY <1>1, <1>11 DEF ActivateTarget, Activated
    <2> QED
      BY <1>2, <1>3, <2>1 DEF Activated, SessionType
  <1> QED
    BY <1>4, <1>5, <1>6, <1>7, <1>8, <1>9, <1>10, <1>11 DEF Step, MismatchAnswer

LEMMA RequestTarget ==
    ASSUME IInv, NEW s \in Sessions, Request(s), ses'[s].kind \in Patches
    PROVE  ses'[s].target \in Stored
  <1>1. ASSUME NEW r, Begin(s, r), r.kind \in Patches => r.target \in Stored
        PROVE  ses'[s].target \in Stored
    BY <1>1 DEF Begin, IInv, TypeOK
  <1>2. ASSUME NEW p \in Plans, NEW c \in Contents, NEW a \in BOOLEAN, CreateRequest(s, p, c, a)
        PROVE  ses'[s].target \in Stored
    BY <1>1, <1>2 DEF CreateRequest, Idle, Patches
  <1>3. ASSUME NEW p \in Plans, NEW row \in Stored, ActivateRequest(s, p, row)
        PROVE  ses'[s].target \in Stored
    BY <1>1, <1>3 DEF ActivateRequest, Idle, Patches
  <1>4. ASSUME NEW p \in Plans, RollbackRequest(s, p)
        PROVE  ses'[s].target \in Stored
    <2>1. Stored \in SUBSET Rows /\ GapFreeIn(p, Stored)
      BY DEF IInv, TypeOK, NumberingInv, VersionsGapFree, Stored
    <2>2. Previous(p, Stored) \in Stored
      BY <1>4, <2>1, PreviousIsStored DEF RollbackRequest
    <2> QED
      BY <1>1, <1>4, <2>2 DEF RollbackRequest, Idle
  <1>5. CASE SyncRequest(s)
    BY <1>1, <1>5 DEF SyncRequest, Idle, Patches
  <1> QED
    BY <1>2, <1>3, <1>4, <1>5 DEF Request

(* What a commit makes of the stored rows.                                         *)
LEMMA CommitStores ==
    ASSUME IInv, NEW s \in Sessions, Commit(s)
    PROVE  /\ Stored' = SeenRows(s)
           /\ \A r \in Stored : content'[r] = content[r]
           /\ \A r \in DOMAIN new[s] : content'[r] = new[s][r]
  <1>1. content' = Over(new[s], content) /\ DOMAIN new[s] \cap Stored = {}
    BY DEF Commit, IInv, NumberingInv
  <1> QED
    BY <1>1 DEF Over, Stored, SeenRows

LEMMA TargetNext ==
    ASSUME HistInv, [Next]_vars
    PROVE  TargetInv'
  <1> SUFFICES ASSUME NEW t \in Sessions, ses'[t].kind \in Patches
               PROVE  ses'[t].target \in Stored'
    BY DEF TargetInv
  <1>1. IInv /\ Stored \subseteq Stored'
    <2>1. CASE UNCHANGED content
      BY <2>1 DEF HistInv, LockInv, Stored
    <2>2. ASSUME NEW s \in Sessions, Commit(s) PROVE Stored \subseteq Stored'
      BY <2>2, CommitStores DEF HistInv, LockInv, SeenRows
    <2> QED
      BY <2>1, <2>2, OnlyCommits DEF HistInv, LockInv
  <1>2. SUFFICES ASSUME ~(ses'[t].kind = ses[t].kind /\ ses'[t].target = ses[t].target)
                 PROVE  ses'[t].target \in Stored
    BY <1>1 DEF HistInv, TargetInv
  <1>3. ses'[t] # Idle
    BY DEF Idle, Patches
  <1>4. ses \in [Sessions -> SessionType]
    BY <1>1 DEF IInv, TypeOK
  <1>5. ASSUME NEW s \in Sessions, s # t PROVE ~Request(s) /\ ~Step(s) /\ ~Abort(s)
    <2>1. ASSUME NEW r, ses' = [ses EXCEPT ![s] = r] PROVE FALSE
      BY <1>2, <1>4, <1>5, <2>1
    <2>2. ASSUME NEW r, Moved(s, r) PROVE FALSE
      BY <2>1, <2>2 DEF Moved
    <2>3. ~RolledBack(s)
      BY <2>1 DEF RolledBack
    <2>4. ~Request(s)
      <3>1. ASSUME NEW r PROVE ~Begin(s, r)
        BY <2>1 DEF Begin
      <3>2. \A p \in Plans, c \in Contents, a \in BOOLEAN : ~CreateRequest(s, p, c, a)
        BY <3>1 DEF CreateRequest
      <3>3. \A p \in Plans, r \in Stored : ~ActivateRequest(s, p, r)
        BY <3>1 DEF ActivateRequest
      <3>4. \A p \in Plans : ~RollbackRequest(s, p)
        BY <3>1 DEF RollbackRequest
      <3>5. ~SyncRequest(s)
        BY <3>1 DEF SyncRequest
      <3> QED
        BY <3>2, <3>3, <3>4, <3>5 DEF Request
    <2>5. ~StoreVersion(s)
      <3>1. PICK q, row, next : q = ses[s] /\ row = <<q.plan, q.version>>
                                /\ next = IF q.activates THEN "scan" ELSE "finish"
        OBVIOUS
      <3>2. ASSUME StoreVersion(s)
            PROVE  ses' = [ses EXCEPT ![s] = [q EXCEPT !.target = row, !.stage = next]]
        BY <1>4, <1>5, <2>3, <3>1, <3>2 DEF StoreVersion
      <3> QED
        BY <2>1, <3>2
    <2>6. ~SyncFile(s)
      BY ZenonT(30), <2>2, <2>3 DEF SyncFile
    <2> QED
      BY <2>1, <2>2, <2>3, <2>4, <2>5, <2>6
      DEF Abort, Step, SyncDone, GetNextVersion, DeactivateScan, DeactivateRows,
          ActivateTarget, Commit, MismatchAnswer
  <1>6. ~Abort(t)
    BY <1>3, <1>4 DEF Abort, RolledBack
  <1>7. ~Step(t)
    BY <1>2, StepKeepsTarget DEF HistInv
  <1>8. ses' # ses
    BY <1>2
  <1>9. Request(t)
    BY <1>5, <1>6, <1>7, <1>8, VictimAborts DEF Next, vars, DeployFile
  <1> QED
    BY <1>1, <1>9, RequestTarget

LEMMA HistInvariance == Spec => []HistInv
  <1>1. Init => TargetInv
    BY DEF Init, TargetInv, Idle, Patches
  <1>2. HistInv /\ [Next]_vars => TargetInv'
    BY TargetNext
  <1> QED
    BY <1>1, <1>2, LockInvariance, PTL DEF Spec, HistInv

(* One more element at the end of a sequence.                                      *)
LEMMA AppendOne ==
    ASSUME NEW S, NEW n \in Nat, NEW f \in [1 .. n -> S], NEW x \in S,
           NEW g, g = [i \in 1 .. n + 1 |-> IF i = n + 1 THEN x ELSE f[i]]
    PROVE  g = Append(f, x) /\ Len(f) = n
  <1>1. f \in Seq(S) /\ Len(f) = n
    OBVIOUS
  <1>2. PICK a : a = Append(f, x)
    OBVIOUS
  <1>3. /\ a \in Seq(S) /\ Len(a) = n + 1 /\ a[n + 1] = x
        /\ \A i \in 1 .. n : a[i] = f[i]
    BY <1>1, <1>2, AppendProperties
  <1>4. a \in [1 .. n + 1 -> S]
    BY <1>3, LenProperties
  <1>5. \A i \in 1 .. n + 1 : i = n + 1 \/ i \in 1 .. n
    OBVIOUS
  <1>6. \A i \in 1 .. n + 1 : a[i] = g[i]
    BY <1>3, <1>5
  <1>7. a = g
    BY <1>4, <1>6
  <1> QED
    BY <1>1, <1>2, <1>7

(* The documents of a plan whose versions are 1 to n.                              *)
LEMMA DocumentsOfPlan ==
    ASSUME IInv, NEW p \in Plans, NEW n \in Nat, Newest(p, Stored) = n
    PROVE  /\ Documents(p) = [v \in 1 .. n |-> content[<<p, v>>]]
           /\ Documents(p) \in [1 .. n -> Contents]
           /\ Prefix(p, Stored, n)
  <1>1. Stored \in SUBSET Rows /\ GapFreeIn(p, Stored)
    BY DEF IInv, TypeOK, NumberingInv, VersionsGapFree, Stored
  <1>2. Prefix(p, Stored, n)
    BY <1>1, GapFreeIsPrefix
  <1>3. \A v \in 1 .. n : content[<<p, v>>] \in Contents
    BY <1>2 DEF Prefix, Stored, IInv, TypeOK
  <1> QED
    BY <1>2, <1>3 DEF Documents

(* A creation or a sync that commits adds to a plan the version that follows its   *)
(* newest one, if it has inserted a row there at all, and nothing else.            *)
LEMMA AddsOneVersion ==
    ASSUME HistInv, NEW s \in Sessions, ses[s].kind \notin Patches,
           NEW p \in Plans, NEW n \in Nat, Newest(p, Stored) = n
    PROVE  IF \E x \in DOMAIN new[s] : PlanOf(x) = p
           THEN /\ \A x \in DOMAIN new[s] : PlanOf(x) = p <=> x = <<p, n + 1>>
                /\ <<p, n + 1>> \in DOMAIN new[s]
                /\ Prefix(p, SeenRows(s), n + 1)
           ELSE Prefix(p, SeenRows(s), n)
  <1>1. /\ Stored \in SUBSET Rows /\ DOMAIN new[s] \in SUBSET Rows
        /\ SeenRows(s) \in SUBSET Rows
        /\ DOMAIN new[s] \cap Stored = {}
    BY DEF HistInv, LockInv, IInv, TypeOK, NumberingInv, Stored, SeenRows
  <1>2. Prefix(p, Stored, n)
    BY DocumentsOfPlan DEF HistInv, LockInv
  <1>3. PICK m \in Nat : Prefix(p, SeenRows(s), m)
    BY <1>1, GapFreeIsPrefix DEF HistInv, LockInv, IInv, NumberingInv
  <1>4. \A x, y \in DOMAIN new[s] : PlanOf(x) = PlanOf(y) => x = y
    BY DEF HistInv, LockInv, OrderInv, Tidy, Writes
  <1>5. \A v \in Nat \ {0} : <<p, v>> \in DOMAIN new[s] <=> v <= m /\ ~(v <= n)
    BY <1>1, <1>2, <1>3 DEF Prefix, SeenRows
  <1>6. \A x \in DOMAIN new[s] : PlanOf(x) = p => \E v \in Nat \ {0} : x = <<p, v>>
    BY <1>1 DEF Rows, PlanOf
  <1>7. \A v : PlanOf(<<p, v>>) = p
    BY DEF PlanOf
  <1>8. n + 1 \in Nat \ {0} /\ ~(n + 1 <= n)
    OBVIOUS
  <1>9. CASE \E x \in DOMAIN new[s] : PlanOf(x) = p
    <2>1. PICK v \in Nat \ {0} : <<p, v>> \in DOMAIN new[s]
      BY <1>6, <1>9
    <2>2. n + 1 <= m
      BY <1>5, <2>1
    <2>3. <<p, n + 1>> \in DOMAIN new[s]
      BY <1>5, <1>8, <2>2
    <2>4. \A x \in DOMAIN new[s] : PlanOf(x) = p <=> x = <<p, n + 1>>
      BY <1>4, <1>7, <2>3
    <2>5. m \in Nat \ {0} /\ m <= m /\ ~(m <= n)
      BY <2>2
    <2>6. <<p, m>> \in DOMAIN new[s]
      BY <1>5, <2>5
    <2>7. m = n + 1
      BY <1>7, <2>4, <2>6
    <2> QED
      BY <1>3, <1>9, <2>3, <2>4, <2>7
  <1>10. CASE ~\E x \in DOMAIN new[s] : PlanOf(x) = p
    <2>1. \A v \in Nat \ {0} : <<p, v>> \in SeenRows(s) <=> <<p, v>> \in Stored
      BY <1>7, <1>10 DEF SeenRows
    <2> QED
      BY <1>2, <1>10, <2>1 DEF Prefix
  <1> QED
    BY <1>9, <1>10

(* The log of a plan before and after a creation or a sync commits.                *)
LEMMA LogGrows ==
    ASSUME HistInv, NEW s \in Sessions, Commit(s), ses[s].kind \notin Patches,
           NEW p \in Plans
    PROVE  LET n == Newest(p, Stored)
               touched == \E x \in DOMAIN new[s] : PlanOf(x) = p
           IN  /\ n \in Nat /\ Len(Documents(p)) = n
               /\ touched => <<p, n + 1>> \in DOMAIN new[s] /\ new[s][<<p, n + 1>>] \in Contents
               /\ Documents(p)' = IF touched THEN Append(Documents(p), new[s][<<p, n + 1>>])
                                  ELSE Documents(p)
  <1>1. IInv /\ Stored \in SUBSET Rows /\ GapFreeIn(p, Stored)
    BY DEF HistInv, LockInv, IInv, TypeOK, NumberingInv, VersionsGapFree, Stored
  <1>2. PICK n \in Nat : n = Newest(p, Stored)
    BY <1>1 DEF GapFreeIn
  <1>3. PICK N, touched : N = DOMAIN new[s] /\ touched = \E x \in N : PlanOf(x) = p
    OBVIOUS
  <1>4. /\ Stored' = SeenRows(s) /\ SeenRows(s) \in SUBSET Rows
        /\ \A r \in Stored : content'[r] = content[r]
        /\ \A r \in N : content'[r] = new[s][r] /\ new[s][r] \in Contents
    BY <1>1, <1>3, CommitStores DEF IInv, TypeOK, Stored, SeenRows
  <1>5. PICK f : f = Documents(p)
    OBVIOUS
  <1>6. /\ f = [v \in 1 .. n |-> content[<<p, v>>]] /\ f \in [1 .. n -> Contents]
        /\ \A v \in 1 .. n : <<p, v>> \in Stored
    BY <1>1, <1>2, <1>5, DocumentsOfPlan DEF Prefix
  <1>7. \A v \in 1 .. n : content'[<<p, v>>] = f[v]
    BY <1>4, <1>6
  <1>8. CASE touched
    <2>1. <<p, n + 1>> \in N /\ Prefix(p, SeenRows(s), n + 1)
      BY <1>2, <1>3, <1>8, AddsOneVersion
    <2>2. PICK x \in Contents : x = new[s][<<p, n + 1>>] /\ x = content'[<<p, n + 1>>]
      BY <1>4, <2>1
    <2>3. Newest(p, Stored') = n + 1
      BY <1>4, <2>1, PrefixIsGapFree
    <2>4. Documents(p)' = [v \in 1 .. n + 1 |-> content'[<<p, v>>]]
      BY <2>3 DEF Documents
    <2>5. \A v \in 1 .. n + 1 : content'[<<p, v>>] = IF v = n + 1 THEN x ELSE f[v]
      <3>1. \A v \in 1 .. n + 1 : v = n + 1 \/ (v # n + 1 /\ v \in 1 .. n)
        OBVIOUS
      <3> QED
        BY <1>7, <2>2, <3>1
    <2>6. PICK g : g = [v \in 1 .. n + 1 |-> IF v = n + 1 THEN x ELSE f[v]]
      OBVIOUS
    <2>7. Documents(p)' = g
      BY <2>4, <2>5, <2>6
    <2>8. g = Append(f, x) /\ Len(f) = n
      BY <1>6, <2>6, AppendOne
    <2> QED
      BY <1>2, <1>3, <1>4, <1>5, <1>8, <2>1, <2>2, <2>7, <2>8
  <1>9. CASE ~touched
    <2>1. Prefix(p, SeenRows(s), n)
      BY <1>2, <1>3, <1>9, AddsOneVersion
    <2>2. Newest(p, Stored') = n
      BY <1>4, <2>1, PrefixIsGapFree
    <2>3. Documents(p)' = [v \in 1 .. n |-> content'[<<p, v>>]]
      BY <2>2 DEF Documents
    <2>4. Documents(p)' = f
      BY <1>6, <1>7, <2>3
    <2>5. Len(f) = n
      BY <1>6
    <2> QED
      BY <1>2, <1>3, <1>5, <1>9, <2>4, <2>5
  <1>10. touched \in BOOLEAN
    BY <1>3
  <1> QED
    BY <1>8, <1>9, <1>10

(* The active rows A once the flags of some have been cleared and of others set.   *)
Flagged(A, off, on) == (A \ off) \union on

(* The current versions of a plan before and after a commit.                       *)
LEMMA OthersStay ==
    ASSUME NEW A, NEW on, NEW off, NEW p, \A x \in on \union off : PlanOf(x) # p
    PROVE  VersionsIn(p, Flagged(A, off, on)) = VersionsIn(p, A)
  BY DEF VersionsIn, Flagged

LEMMA OneTurns ==
    ASSUME NEW A, NEW on, NEW off, NEW p, NEW r \in on,
           \A x \in on : PlanOf(x) = p <=> x = r
    PROVE  /\ VersionOf(r) \in VersionsIn(p, Flagged(A, off, on))
           /\ VersionsIn(p, Flagged(A, off, on)) \subseteq VersionsIn(p, A) \union {VersionOf(r)}
  BY DEF VersionsIn, Flagged

(* A commit of a creation or a sync publishes a document for some plans.           *)
LEMMA WriterPublishes ==
    ASSUME HistInv, NEW s \in Sessions, Commit(s), ses[s].kind \notin Patches
    PROVE  \E P \in SUBSET Plans : \E documents \in [P -> Contents] :
               History!Publish(documents)
  <1>1. PICK N, on, off : N = DOMAIN new[s] /\ on = ses[s].on /\ off = ses[s].off
    OBVIOUS
  <1>2. PICK P : P = {p \in Plans : \E x \in N : PlanOf(x) = p}
    OBVIOUS
  <1>3. PICK number : number = [p \in Plans |-> Newest(p, Stored) + 1]
    OBVIOUS
  <1>4. PICK documents : documents = [p \in P |-> new[s][<<p, number[p]>>]]
    OBVIOUS
  <1>5. ASSUME NEW p \in Plans
        PROVE  /\ number[p] = Len(Documents(p)) + 1
               /\ p \in P => <<p, number[p]>> \in N /\ documents[p] \in Contents
               /\ Documents(p)' = IF p \in P THEN Append(Documents(p), documents[p])
                                  ELSE Documents(p)
    BY <1>1, <1>2, <1>3, <1>4, LogGrows
  <1>6. documents \in [P -> Contents] /\ DOMAIN documents = P
    BY <1>2, <1>4, <1>5
  <1>7. active' = Flagged(active, off, on)
    BY <1>1 DEF Commit, SeenActive, Flagged
  <1>8. /\ (on = N /\ \A x \in off : \E y \in N : PlanOf(y) = PlanOf(x))
               \/ (on = {} /\ off = {})
        /\ \A x, y \in N : PlanOf(x) = PlanOf(y) => x = y
    BY <1>1 DEF HistInv, LockInv, OrderInv, Tidy, Writes, Commit
  <1>9. \E Q \in {{}, P} : History!Turns(Q, [p \in Q |-> Len(Documents(p)) + 1])
    <2>1. CASE on = {} /\ off = {}
      <3>1. active' = active
        BY <1>7, <2>1 DEF Flagged
      <3> QED
        BY <3>1 DEF History!Turns
    <2>2. CASE on = N /\ \A x \in off : \E y \in N : PlanOf(y) = PlanOf(x)
      <3>1. ASSUME NEW p \in P
            PROVE  /\ Len(Documents(p)) + 1 \in VersionsIn(p, active')
                   /\ VersionsIn(p, active')
                         \subseteq VersionsIn(p, active) \union {Len(Documents(p)) + 1}
        <4>1. PICK r : r = <<p, number[p]>>
          OBVIOUS
        <4>2. r \in on /\ PlanOf(r) = p /\ VersionOf(r) = number[p] /\ p \in Plans
          BY <1>2, <1>5, <2>2, <4>1 DEF PlanOf, VersionOf
        <4>3. \A x \in on : PlanOf(x) = p <=> x = r
          BY <1>8, <2>2, <4>2
        <4>4. /\ VersionOf(r) \in VersionsIn(p, active')
              /\ VersionsIn(p, active') \subseteq VersionsIn(p, active) \union {VersionOf(r)}
          BY <1>7, <4>2, <4>3, OneTurns
        <4> QED
          BY <1>5, <4>2, <4>4
      <3>2. ASSUME NEW p \in Plans \ P
            PROVE  VersionsIn(p, active') = VersionsIn(p, active)
        <4>1. \A x \in on \union off : PlanOf(x) # p
          BY <1>2, <2>2
        <4> QED
          BY <1>7, <4>1, OthersStay
      <3>3. P \subseteq Plans
        BY <1>2
      <3> QED
        BY <3>1, <3>2, <3>3 DEF History!Turns, History!Becomes
    <2> QED
      BY <1>8, <2>1, <2>2
  <1>10. History!Publish(documents)
    <2>1. P \subseteq Plans
      BY <1>2
    <2> QED
      BY <1>5, <1>6, <1>9, <2>1 DEF History!Publish
  <1> QED
    BY <1>2, <1>6, <1>10

(* A commit of a PATCH makes one stored version current.                           *)
LEMMA PatchReturns ==
    ASSUME HistInv, NEW s \in Sessions, Commit(s), ses[s].kind \in Patches
    PROVE  \E p \in Plans : \E v \in 1 .. Len(Documents(p)) : History!Return(p, v)
  <1>1. PICK r, on, off : r = ses[s].target /\ on = ses[s].on /\ off = ses[s].off
    OBVIOUS
  <1>2. /\ r \in Stored /\ on = {r} /\ DOMAIN new[s] = {}
        /\ \A x \in off : PlanOf(x) = PlanOf(r)
    BY <1>1 DEF HistInv, LockInv, TargetInv, OrderInv, Tidy, Writes, Commit
  <1>3. /\ IInv /\ Stored \in SUBSET Rows
        /\ \A q \in Plans : GapFreeIn(q, Stored)
    BY DEF HistInv, LockInv, IInv, TypeOK, NumberingInv, VersionsGapFree, Stored
  <1>4. PICK p \in Plans, v \in Nat \ {0} : r = <<p, v>>
    BY <1>2, <1>3 DEF Rows
  <1>5. PlanOf(r) = p /\ VersionOf(r) = v
    BY <1>4 DEF PlanOf, VersionOf
  <1>6. v \in 1 .. Len(Documents(p))
    <2>1. PICK n \in Nat : n = Newest(p, Stored)
      BY <1>3 DEF GapFreeIn
    <2>2. Documents(p) \in [1 .. n -> Contents] /\ Prefix(p, Stored, n)
      BY <1>3, <2>1, DocumentsOfPlan
    <2>3. v <= n
      BY <1>2, <1>4, <2>2 DEF Prefix
    <2>4. Len(Documents(p)) = n
      BY <2>2
    <2> QED
      BY <2>3, <2>4
  <1>7. content' = content
    <2>1. content \in [Stored -> Contents] /\ content' = Over(new[s], content)
      BY <1>3 DEF IInv, TypeOK, Stored, Commit
    <2> QED
      BY <1>2, <2>1 DEF Over, Stored
  <1>8. active' = Flagged(active, off, on)
    BY <1>1 DEF Commit, SeenActive, Flagged
  <1>9. ASSUME NEW q \in Plans \ {p}
        PROVE  VersionsIn(q, active') = VersionsIn(q, active)
    <2>1. \A x \in on \union off : PlanOf(x) # q
      BY <1>2, <1>5
    <2> QED
      BY <1>8, <2>1, OthersStay
  <1>10. /\ v \in VersionsIn(p, active')
         /\ VersionsIn(p, active') \subseteq VersionsIn(p, active) \union {v}
    <2>1. r \in on /\ \A x \in on : PlanOf(x) = p <=> x = r
      BY <1>2, <1>5
    <2> QED
      BY <1>5, <1>8, <2>1, OneTurns
  <1>11. \A q \in Plans : Documents(q)' = Documents(q)
    BY <1>7 DEF Documents, Stored
  <1>12. History!Return(p, v)
    BY <1>6, <1>9, <1>10, <1>11 DEF History!Return, History!Turns, History!Becomes
  <1> QED
    BY <1>6, <1>12

(* The store implements the history: the first state is the empty one, and every   *)
(* step of every interleaving publishes documents, returns to a stored one, or     *)
(* changes nothing that another session sees.                                      *)
THEOREM StoreKeepsHistory == Spec => KeepsHistory
  <1>1. Init => History!HistoryInit
    <2> SUFFICES ASSUME Init, NEW p \in Plans
                 PROVE  Documents(p) = <<>> /\ VersionsIn(p, active) = {}
      BY DEF History!HistoryInit
    <2>1. Stored = {} /\ active = {} /\ Stored \in SUBSET Rows
      BY DEF Init, Stored, NoRows
    <2>2. Prefix(p, Stored, 0)
      BY <2>1 DEF Prefix
    <2>3. Newest(p, Stored) = 0
      BY <2>1, <2>2, PrefixIsGapFree
    <2> QED
      BY <2>1, <2>3 DEF Documents, VersionsIn
  <1>2. HistInv /\ [Next]_vars =>
           [History!HistoryNext]_<<[p \in Plans |-> Documents(p)],
                                   [p \in Plans |-> VersionsIn(p, active)]>>
    <2> SUFFICES ASSUME HistInv, [Next]_vars
                 PROVE  History!HistoryNext
                           \/ UNCHANGED <<[p \in Plans |-> Documents(p)],
                                          [p \in Plans |-> VersionsIn(p, active)]>>
      OBVIOUS
    <2>1. CASE UNCHANGED <<content, active>>
      BY <2>1 DEF Documents, Stored
    <2>2. ASSUME NEW s \in Sessions, Commit(s) PROVE History!HistoryNext
      <3>1. CASE ses[s].kind \in Patches
        <4>1. PICK p \in Plans : \E v \in 1 .. Len(Documents(p)) : History!Return(p, v)
          BY <2>2, <3>1, PatchReturns
        <4> QED
          BY <4>1 DEF History!HistoryNext
      <3>2. CASE ses[s].kind \notin Patches
        BY <2>2, <3>2, WriterPublishes DEF History!HistoryNext
      <3> QED
        BY <3>1, <3>2
    <2> QED
      BY <2>1, <2>2, OnlyCommits
  <1> QED
    BY <1>1, <1>2, HistInvariance, PTL DEF Spec, KeepsHistory, History!HistorySpec
=============================================================================
