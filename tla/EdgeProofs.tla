------------------------------- MODULE EdgeProofs -------------------------------
(***************************************************************************)
(* Proofs about the fetch of a source (SourceFetch) and the deep analysis  *)
(* of leads (DeepAnalysis), for every number of posts, retries, redirects, *)
(* leads, sections, executions and crashes, and about these two and the    *)
(* realtime stream side by side (EdgeServices).                            *)
(***************************************************************************)
EXTENDS EdgeServices, RealtimeStreamProofs, SequenceTheorems, FiniteSetTheorems,
        WellFoundedInduction, TLAPS

-----------------------------------------------------------------------------
(* Induction over the numbers, stated with a set, and what the folds of the   *)
(* models need: the last element of a set of positions.                       *)

LEMMA SetInduction ==
    ASSUME NEW T, 0 \in T, \A k \in Nat : k \in T => k + 1 \in T
    PROVE  Nat \subseteq T
  <1> DEFINE M == Nat \ T
             R == OpToRel(<, Nat)
             W == IsWellFoundedOn(R, Nat)
  <1>1. R = {ss \in Nat \X Nat : ss[1] < ss[2]}
    BY Zenon DEF OpToRel
  <1>2. W
    BY NatLessThanWellFounded, Zenon
  <1>3. IsWellFoundedOn(R, Nat)
    BY <1>2
  <1> HIDE DEF R, W
  <1>4. SUFFICES ASSUME M # {} PROVE FALSE
    OBVIOUS
  <1>5. PICK x \in M : \A y \in M : ~(<<y, x>> \in R)
    <2>1. M \subseteq Nat
      OBVIOUS
    <2> HIDE DEF M
    <2> QED
      BY <1>3, <1>4, <2>1, WFMin
  <1>6. x \in Nat /\ x # 0 /\ x \notin T
    OBVIOUS
  <1>7. x - 1 \in Nat /\ x - 1 < x /\ (x - 1) + 1 = x
    BY <1>6
  <1>8. x - 1 \in T
    <2>1. <<x - 1, x>> \in R
      BY <1>1, <1>6, <1>7
    <2> QED
      BY <1>5, <1>7, <2>1
  <1> QED
    BY <1>6, <1>7, <1>8

LEMMA LastPosition ==
    ASSUME NEW k \in Nat, NEW s \in SUBSET (1 .. k + 1), k + 1 \in s
    PROVE  Max(s) = k + 1 /\ s \ {k + 1} \in SUBSET (1 .. k)
  <1>1. \A y \in s : y \in Nat /\ k + 1 >= y
    OBVIOUS
  <1>2. Max(s) \in s /\ \A y \in s : Max(s) >= y
    BY <1>1 DEF Max
  <1>3. Max(s) >= k + 1 /\ k + 1 >= Max(s) /\ Max(s) \in Nat
    BY <1>1, <1>2
  <1>4. Max(s) = k + 1
    BY <1>3
  <1> QED
    BY <1>4

LEMMA EarlierPositions ==
    ASSUME NEW k \in Nat, NEW s \in SUBSET (1 .. k + 1), k + 1 \notin s
    PROVE  s \in SUBSET (1 .. k)
  OBVIOUS

-----------------------------------------------------------------------------
(* The items of a source *)

(* What the fold of RecentPosts does with a position, and the recursive       *)
(* function on sets of positions that it stands for.                          *)
Takes(kept, i) == IF Recent(i) THEN Append(kept, i) ELSE kept
RecentFold(positions, k, g) ==
    [s \in SUBSET (1 .. k) |-> IF s = {} THEN <<>> ELSE Takes(g[s \ {Max(s)}], positions[Max(s)])]

LEMMA RecentFoldExists ==
    ASSUME NEW positions, NEW n \in Nat
    PROVE  \E g : g = RecentFold(positions, n, g)
  <1> DEFINE E(k) == \E g : g = RecentFold(positions, k, g)
             T == {k \in Nat : E(k)}
  <1>1. E(0)
    <2> DEFINE g == [s \in SUBSET (1 .. 0) |-> <<>>]
    <2>1. \A s \in SUBSET (1 .. 0) : s = {}
      OBVIOUS
    <2>2. g = RecentFold(positions, 0, g)
      BY <2>1 DEF RecentFold
    <2> QED
      BY <2>2
  <1>2. ASSUME NEW k \in Nat, E(k) PROVE E(k + 1)
    <2>1. PICK g : g = RecentFold(positions, k, g)
      BY <1>2
    <2> DEFINE h == [s \in SUBSET (1 .. k + 1) |->
                        IF k + 1 \in s THEN Takes(g[s \ {k + 1}], positions[k + 1]) ELSE g[s]]
    <2>2. ASSUME NEW s \in SUBSET (1 .. k + 1)
          PROVE  h[s] = IF s = {} THEN <<>> ELSE Takes(h[s \ {Max(s)}], positions[Max(s)])
      <3>1. CASE k + 1 \in s
        <4>1. Max(s) = k + 1 /\ s \ {k + 1} \in SUBSET (1 .. k)
          BY <3>1, LastPosition
        <4>2. s \ {k + 1} \in SUBSET (1 .. k + 1) /\ k + 1 \notin s \ {k + 1}
          OBVIOUS
        <4>3. h[s \ {k + 1}] = g[s \ {k + 1}]
          BY <4>2
        <4> QED
          BY <3>1, <4>1, <4>3
      <3>2. CASE k + 1 \notin s
        <4>1. s \in SUBSET (1 .. k)
          BY <3>2, EarlierPositions
        <4>2. g[s] = IF s = {} THEN <<>> ELSE Takes(g[s \ {Max(s)}], positions[Max(s)])
          BY <2>1, <4>1 DEF RecentFold
        <4>3. h[s \ {Max(s)}] = g[s \ {Max(s)}]
          BY <3>2
        <4> QED
          BY <3>2, <4>2, <4>3
      <3> QED
        BY <3>1, <3>2
    <2>3. h = [s \in SUBSET (1 .. k + 1) |-> h[s]]
      OBVIOUS
    <2> HIDE DEF h
    <2>4. h = RecentFold(positions, k + 1, h)
      BY <2>2, <2>3 DEF RecentFold
    <2> QED
      BY <2>4
  <1> HIDE DEF E
  <1>3. 0 \in T /\ \A k \in Nat : k \in T => k + 1 \in T
    BY <1>1, <1>2
  <1>4. n \in T
    <2> HIDE DEF T
    <2> QED
      BY <1>3, SetInduction
  <1> QED
    BY <1>4 DEF E

(* The recent posts are positions of the feed.                                *)
LEMMA RecentTyped ==
    ASSUME Len(feed) \in Nat
    PROVE  RecentPosts \in Seq(1 .. Len(feed))
  <1> DEFINE n == Len(feed)
             P == OldestFirst
  <1>1. P \in Seq(1 .. n) /\ Len(P) = n /\ DOMAIN P = 1 .. n /\ \A i \in 1 .. n : P[i] = i
    BY DEF OldestFirst
  <1> DEFINE g == CHOOSE f : f = RecentFold(P, n, f)
  <1>2. g = RecentFold(P, n, g)
    BY RecentFoldExists
  <1>3. RecentPosts = g[1 .. n]
    BY <1>1 DEF RecentPosts, FoldLeft, MapThenFoldSet, RecentFold, Takes
  <1> HIDE DEF g, P
  <1> DEFINE B(k) == \A s \in SUBSET (1 .. k) : g[s] \in Seq(1 .. n)
             T == {k \in Nat : k <= n => B(k)}
  <1>4. B(0)
    <2>1. \A s \in SUBSET (1 .. 0) : s = {}
      OBVIOUS
    <2>2. {} \in SUBSET (1 .. n) /\ g[{}] = <<>>
      BY <1>2 DEF RecentFold
    <2>3. <<>> \in Seq(1 .. n)
      BY EmptySeq
    <2> QED
      BY <2>1, <2>2, <2>3
  <1>5. ASSUME NEW k \in Nat, k + 1 <= n, B(k) PROVE B(k + 1)
    <2> SUFFICES ASSUME NEW s \in SUBSET (1 .. k + 1) PROVE g[s] \in Seq(1 .. n)
      OBVIOUS
    <2>1. CASE k + 1 \notin s
      BY <1>5, <2>1, EarlierPositions
    <2>2. CASE k + 1 \in s
      <3>1. Max(s) = k + 1 /\ s \ {k + 1} \in SUBSET (1 .. k)
        BY <2>2, LastPosition
      <3>2. k + 1 \in 1 .. n /\ s \in SUBSET (1 .. n) /\ P[k + 1] = k + 1
        BY <1>1, <1>5
      <3>3. g[s \ {k + 1}] \in Seq(1 .. n)
        BY <1>5, <3>1
      <3>4. g[s] = Takes(g[s \ {k + 1}], k + 1)
        BY <1>2, <2>2, <3>1, <3>2 DEF RecentFold
      <3>5. Append(g[s \ {k + 1}], k + 1) \in Seq(1 .. n)
        BY <3>2, <3>3, AppendProperties
      <3>6. g[s] \in {g[s \ {k + 1}], Append(g[s \ {k + 1}], k + 1)}
        BY <3>4 DEF Takes
      <3> QED
        BY <3>3, <3>5, <3>6
    <2> QED
      BY <2>1, <2>2
  <1> HIDE DEF B
  <1>6. 0 \in T /\ \A k \in Nat : k \in T => k + 1 \in T
    BY <1>4, <1>5
  <1>7. n \in T
    <2> HIDE DEF T
    <2> QED
      BY <1>6, SetInduction
  <1>8. 1 .. n \in SUBSET (1 .. n)
    OBVIOUS
  <1> QED
    BY <1>3, <1>7, <1>8 DEF B

ItemRows == [key : Posts, version : 1 .. MaxVersion]
PostRows == [version : 1 .. MaxVersion, at : 1 .. MaxTime]
FetchRows ==
    [run : Nat, crashes : Nat, tries : 0 .. MaxIngestTries,
     stage : {"idle", "queued", "asking", "storing", "stored"}, target : Nat, attempt : 0 .. MaxAttempts - 1,
     hops : 0 .. MaxRedirects - 1, todo : Seq(Nat), items : Seq(ItemRows), redis : BOOLEAN]

(* An execution asks for posts that were in the feed when it read the index.  *)
FetchFits(f, n) == f \in FetchRows /\ f.target \in 0 .. n /\ f.todo \in Seq(1 .. n)

(* Only portals remember hashes.                                              *)
FetchInv ==
    /\ kind \in Kinds /\ time \in 1 .. MaxTime
    /\ feed \in Seq(PostRows) /\ Len(feed) <= MaxPosts
    /\ hashes \in [Posts -> 0 .. MaxVersion]
    /\ FetchFits(fetch, Len(feed))
    /\ caught \subseteq ItemRows
    /\ dropped \subseteq Posts \X (1 .. MaxVersion)
    /\ ~IsPortal => \A i \in Posts : hashes[i] = 0
    /\ SilenceIsExplained

LEMMA FetchNumbers ==
    /\ MaxAttempts \in Nat \ {0} /\ MaxRedirects \in Nat \ {0} /\ PageSize \in Nat /\ MaxPages \in Nat
    /\ MaxItems \in Nat /\ MaxPages * PageSize \in Nat /\ MaxIngestTries \in Nat
    /\ MaxPosts \in Nat /\ MaxVersion \in Nat \ {0} /\ MaxTime \in Nat \ {0}
    /\ 0 \in 0 .. MaxAttempts - 1 /\ 0 \in 0 .. MaxRedirects - 1 /\ 0 \in 0 .. MaxIngestTries
  <1>1. /\ MaxAttempts \in Nat \ {0} /\ MaxRedirects \in Nat \ {0} /\ PageSize \in Nat /\ MaxPages \in Nat
        /\ MaxItems \in Nat /\ MaxIngestTries \in Nat
        /\ MaxPosts \in Nat /\ MaxVersion \in Nat \ {0} /\ MaxTime \in Nat \ {0}
    BY FetchAssumption
  <1>2. MaxPages * PageSize \in Nat
    BY <1>1
  <1> QED
    BY <1>1, <1>2

LEMMA FetchFields ==
    ASSUME NEW f \in FetchRows
    PROVE  /\ f.run \in Nat /\ f.crashes \in Nat /\ f.tries \in 0 .. MaxIngestTries
           /\ f.stage \in {"idle", "queued", "asking", "storing", "stored"} /\ f.target \in Nat
           /\ f.attempt \in 0 .. MaxAttempts - 1 /\ f.hops \in 0 .. MaxRedirects - 1
           /\ f.todo \in Seq(Nat) /\ f.items \in Seq(ItemRows) /\ f.redis \in BOOLEAN
  BY DEF FetchRows

LEMMA FetchEdit ==
    ASSUME NEW f \in FetchRows
    PROVE  /\ \A g \in {"idle", "queued", "asking", "storing", "stored"} : [f EXCEPT !.stage = g] \in FetchRows
           /\ \A n \in 0 .. MaxIngestTries : [f EXCEPT !.tries = n] \in FetchRows
           /\ \A n \in Nat : [f EXCEPT !.run = n] \in FetchRows /\ [f EXCEPT !.target = n] \in FetchRows
           /\ \A n \in 0 .. MaxAttempts - 1 : [f EXCEPT !.attempt = n] \in FetchRows
           /\ \A n \in 0 .. MaxRedirects - 1 : [f EXCEPT !.hops = n] \in FetchRows
           /\ \A t \in Seq(Nat) : [f EXCEPT !.todo = t] \in FetchRows
           /\ \A q \in Seq(ItemRows) : [f EXCEPT !.items = q] \in FetchRows
           /\ \A b \in BOOLEAN : [f EXCEPT !.redis = b] \in FetchRows
  BY DEF FetchRows

(* The parts of a feed that an answer may hold.                               *)
LEMMA AnswerTyped ==
    ASSUME FetchInv, NEW ps \in Seq(1 .. Len(feed))
    PROVE  /\ Items(ps) \in Seq(ItemRows)
           /\ Reverse(ps) \in Seq(1 .. Len(feed))
           /\ \A n \in Nat : Capped(ps, n) \in Seq(1 .. Len(feed))
  <1>1. Len(ps) \in Nat /\ \A j \in 1 .. Len(ps) : ps[j] \in 1 .. Len(feed)
    BY LenProperties, ElementOfSeq
  <1>2. /\ Len(feed) \in Nat /\ Len(feed) <= MaxPosts
        /\ \A i \in 1 .. Len(feed) : feed[i] \in PostRows
    BY LenProperties, ElementOfSeq DEF FetchInv
  <1>3. Items(ps) \in Seq(ItemRows)
    <2>1. \A i \in 1 .. Len(feed) : i \in Posts /\ feed[i].version \in 1 .. MaxVersion
      BY <1>2, FetchNumbers DEF Posts, PostRows
    <2>2. \A j \in 1 .. Len(ps) : Item(ps[j], feed[ps[j]].version) \in ItemRows
      BY <1>1, <2>1 DEF Item, ItemRows
    <2> QED
      BY <1>1, <2>2 DEF Items
  <1>4. Reverse(ps) \in Seq(1 .. Len(feed))
    <2>1. \A j \in 1 .. Len(ps) : (Len(ps) - j) + 1 \in 1 .. Len(ps)
      BY <1>1
    <2> QED
      BY <1>1, <2>1 DEF Reverse
  <1>5. ASSUME NEW n \in Nat PROVE Capped(ps, n) \in Seq(1 .. Len(feed))
    <2>1. PICK m : m = IF Len(ps) < n THEN Len(ps) ELSE n
      OBVIOUS
    <2>2. m \in Nat /\ m <= Len(ps)
      BY <1>1, <2>1
    <2>3. \A i \in 1 .. m : ps[i] \in 1 .. Len(feed)
      BY <1>1, <2>2
    <2>4. SubSeq(ps, 1, m) \in Seq(1 .. Len(feed))
      BY <2>2, <2>3, SubSeqProperties
    <2> QED
      BY <2>1, <2>4 DEF Capped
  <1> QED
    BY <1>3, <1>4, <1>5

LEMMA ItemsTyped ==
    ASSUME FetchInv, ~IsPortal
    PROVE  ItemsOf \in Seq(ItemRows)
  <1> DEFINE Ps == Seq(1 .. Len(feed))
  <1>1. OldestFirst \in Ps /\ RecentPosts \in Ps
    <2>1. Len(feed) \in Nat
      BY LenProperties DEF FetchInv
    <2>2. OldestFirst \in Ps
      BY <2>1 DEF OldestFirst
    <2> QED
      BY <2>1, <2>2, RecentTyped
  <1>2. Reverse(OldestFirst) \in Ps /\ Reverse(RecentPosts) \in Ps
    BY <1>1, AnswerTyped
  <1>3. \A ps \in Ps, n \in Nat : Capped(ps, n) \in Ps
    BY AnswerTyped
  <1>4. \A ps \in Ps : Items(ps) \in Seq(ItemRows)
    BY AnswerTyped
  <1> HIDE DEF Ps
  <1>5. /\ TelegramItems \in Seq(ItemRows) /\ RedditItems \in Seq(ItemRows)
        /\ RssItems \in Seq(ItemRows) /\ XaiItems \in Seq(ItemRows)
        /\ GdeltItems \in Seq(ItemRows) /\ AcledItems \in Seq(ItemRows)
        /\ PastebinItems \in Seq(ItemRows) /\ NvdItems \in Seq(ItemRows)
        /\ KevItems \in Seq(ItemRows)
    BY <1>1, <1>2, <1>3, <1>4, FetchNumbers
       DEF TelegramItems, RedditItems, RssItems, XaiItems, GdeltItems, AcledItems, PastebinItems,
           NvdItems, KevItems
  <1>6. /\ UrlhausItems \in Seq(ItemRows) /\ ThreatFoxItems \in Seq(ItemRows)
        /\ ShodanItems \in Seq(ItemRows) /\ OtxItems \in Seq(ItemRows)
        /\ OsvItems \in Seq(ItemRows) /\ NwsItems \in Seq(ItemRows)
        /\ ReliefWebItems \in Seq(ItemRows) /\ BazaarItems \in Seq(ItemRows)
        /\ FeodoItems \in Seq(ItemRows)
    BY <1>1, <1>2, <1>3, <1>4, FetchNumbers
       DEF UrlhausItems, ThreatFoxItems, ShodanItems, OtxItems, OsvItems, NwsItems, ReliefWebItems,
           BazaarItems, FeodoItems
  <1>7. kind \in Retrying \cup Plain
    BY FetchAssumption DEF FetchInv, IsPortal
  <1> QED
    BY <1>5, <1>6, <1>7 DEF ItemsOf, Retrying, Plain

(* The next target is one of those that are left.                             *)
LEMMA NextTargetFits ==
    ASSUME NEW n \in Nat, NEW f, FetchFits(f, n)
    PROVE  FetchFits(NextTarget(f), n) /\ NextTarget(f).items = f.items
  <1>1. f \in FetchRows /\ f.target \in 0 .. n /\ f.todo \in Seq(1 .. n)
    BY DEF FetchFits
  <1>2. CASE f.todo = <<>>
    <2> DEFINE r1 == [f EXCEPT !.stage = "storing"]
               r2 == [r1 EXCEPT !.attempt = 0]
               r  == [r2 EXCEPT !.hops = 0]
    <2>1. r \in FetchRows
      <3>1. r1 \in FetchRows
        BY <1>1, FetchEdit
      <3> HIDE DEF r1
      <3>2. r2 \in FetchRows
        BY <3>1, FetchEdit, FetchNumbers
      <3> HIDE DEF r2
      <3> QED
        BY <3>2, FetchEdit, FetchNumbers
    <2>2. r.target = f.target /\ r.todo = f.todo /\ r.items = f.items
      BY <1>1 DEF FetchRows
    <2>3. NextTarget(f) = r
      BY <1>1, <1>2 DEF NextTarget, FetchRows
    <2> QED
      BY <1>1, <2>1, <2>2, <2>3 DEF FetchFits
  <1>3. CASE f.todo # <<>>
    <2> DEFINE r1 == [f EXCEPT !.target = Head(f.todo)]
               r2 == [r1 EXCEPT !.todo = Tail(f.todo)]
               r3 == [r2 EXCEPT !.attempt = 0]
               r  == [r3 EXCEPT !.hops = 0]
    <2>1. Head(f.todo) \in 1 .. n /\ Tail(f.todo) \in Seq(1 .. n)
      BY <1>1, <1>3, HeadTailProperties
    <2>2. Head(f.todo) \in Nat /\ Tail(f.todo) \in Seq(Nat)
      <3>1. 1 .. n \subseteq Nat
        OBVIOUS
      <3> QED
        BY <2>1, <3>1, SeqMonotonic
    <2>3. r \in FetchRows
      <3>1. r1 \in FetchRows
        BY <1>1, <2>2, FetchEdit
      <3> HIDE DEF r1
      <3>2. r2 \in FetchRows
        BY <2>2, <3>1, FetchEdit
      <3> HIDE DEF r2
      <3>3. r3 \in FetchRows
        BY <3>2, FetchEdit, FetchNumbers
      <3> HIDE DEF r3
      <3> QED
        BY <3>3, FetchEdit, FetchNumbers
    <2>4. r.target = Head(f.todo) /\ r.todo = Tail(f.todo) /\ r.items = f.items
      BY <1>1 DEF FetchRows
    <2>5. NextTarget(f) = r
      BY <1>1, <1>3 DEF NextTarget, FetchRows
    <2>6. Head(f.todo) \in 0 .. n
      BY <2>1
    <2> QED
      BY <2>1, <2>3, <2>4, <2>5, <2>6 DEF FetchFits
  <1> QED
    BY <1>2, <1>3

(* An execution that moves on and keeps its items.                            *)
LEMMA FetchMoves ==
    ASSUME FetchInv, NEW f, FetchFits(f, Len(feed)), fetch' = f,
           IsPortal => f.items = fetch.items,
           UNCHANGED <<kind, time, feed, hashes, caught, dropped>>
    PROVE  FetchInv'
  <1>1. SilenceIsExplained'
    BY DEF FetchInv, SilenceIsExplained, Recorded
  <1>2. FetchFits(fetch, Len(feed))'
    BY DEF FetchFits
  <1> QED
    BY <1>1, <1>2 DEF FetchInv, IsPortal

LEMMA FetchStartsStep == ASSUME FetchInv, FetchStarts PROVE FetchInv'
  <1>1. PICK q : q = fetch
    OBVIOUS
  <1>2. FetchFits(q, Len(feed)) /\ q \in FetchRows
    BY <1>1 DEF FetchInv, FetchFits
  <1> DEFINE r1 == [q EXCEPT !.stage = "asking"]
             r2 == [r1 EXCEPT !.run = q.run + 1]
  <1>3. r1 \in FetchRows /\ q.run + 1 \in Nat
    <2>1. r1 \in FetchRows
      BY <1>2, FetchEdit
    <2>2. q.run \in Nat
      BY <1>2, FetchFields
    <2>3. q.run + 1 \in Nat
      BY <2>2
    <2> QED
      BY <2>1, <2>3
  <1>4. r2 \in FetchRows
    <2> HIDE DEF r1
    <2> QED
      BY <1>3, FetchEdit
  <1>5. \A r \in {r1, r2} : r.target = q.target /\ r.todo = q.todo /\ r.items = q.items
    BY <1>2 DEF FetchRows
  <1>6. fetch' = r1 \/ fetch' = r2
    BY <1>1, <1>2 DEF FetchStarts, FetchRows
  <1>7. UNCHANGED <<kind, time, feed, hashes, caught, dropped>>
    BY DEF FetchStarts
  <1> HIDE DEF r1, r2
  <1>8. FetchFits(r1, Len(feed)) /\ FetchFits(r2, Len(feed))
    BY <1>2, <1>3, <1>4, <1>5 DEF FetchFits
  <1> QED
    BY <1>1, <1>5, <1>6, <1>7, <1>8, FetchMoves

LEMMA AskAgainStep == ASSUME FetchInv, AskAgain PROVE FetchInv'
  <1>1. PICK q : q = fetch
    OBVIOUS
  <1>2. FetchFits(q, Len(feed)) /\ q \in FetchRows /\ Len(feed) \in Nat
    BY <1>1, LenProperties DEF FetchInv, FetchFits
  <1>3. UNCHANGED <<kind, time, feed, hashes, caught, dropped>>
    BY DEF AskAgain
  <1>4. CASE q.attempt + 1 < MaxAttempts
    <2> DEFINE r == [q EXCEPT !.attempt = q.attempt + 1]
    <2>1. q.attempt + 1 \in 0 .. MaxAttempts - 1
      BY <1>2, <1>4, FetchFields, FetchNumbers
    <2>2. r \in FetchRows
      BY <1>2, <2>1, FetchEdit
    <2>3. r.target = q.target /\ r.todo = q.todo /\ r.items = q.items
      BY <1>2 DEF FetchRows
    <2>4. fetch' = r
      BY <1>1, <1>2, <1>4 DEF AskAgain, FetchRows
    <2> HIDE DEF r
    <2>5. FetchFits(r, Len(feed))
      BY <1>2, <2>2, <2>3 DEF FetchFits
    <2> QED
      BY <1>1, <1>3, <2>3, <2>4, <2>5, FetchMoves
  <1>5. CASE ~(q.attempt + 1 < MaxAttempts)
    <2>1. fetch' = NextTarget(q)
      BY <1>1, <1>5 DEF AskAgain, GivenUp
    <2> QED
      BY <1>1, <1>2, <1>3, <2>1, NextTargetFits, FetchMoves
  <1> QED
    BY <1>4, <1>5

LEMMA FollowStep == ASSUME FetchInv, Follow PROVE FetchInv'
  <1>1. PICK q : q = fetch
    OBVIOUS
  <1>2. FetchFits(q, Len(feed)) /\ q \in FetchRows /\ Len(feed) \in Nat
    BY <1>1, LenProperties DEF FetchInv, FetchFits
  <1>3. UNCHANGED <<kind, time, feed, hashes, caught, dropped>>
    BY DEF Follow
  <1>4. CASE q.hops + 1 < MaxRedirects
    <2> DEFINE r1 == [q EXCEPT !.hops = q.hops + 1]
               r  == [r1 EXCEPT !.attempt = 0]
    <2>1. q.hops + 1 \in 0 .. MaxRedirects - 1
      BY <1>2, <1>4, FetchFields, FetchNumbers
    <2>2. r \in FetchRows
      <3>1. r1 \in FetchRows
        BY <1>2, <2>1, FetchEdit
      <3> HIDE DEF r1
      <3> QED
        BY <3>1, FetchEdit, FetchNumbers
    <2>3. r.target = q.target /\ r.todo = q.todo /\ r.items = q.items
      BY <1>2 DEF FetchRows
    <2>4. fetch' = r
      BY <1>1, <1>2, <1>4 DEF Follow, NextHops, FetchRows
    <2> HIDE DEF r
    <2>5. FetchFits(r, Len(feed))
      BY <1>2, <2>2, <2>3 DEF FetchFits
    <2> QED
      BY <1>1, <1>3, <2>3, <2>4, <2>5, FetchMoves
  <1>5. CASE ~(q.hops + 1 < MaxRedirects)
    <2>1. fetch' = NextTarget(q)
      BY <1>1, <1>5 DEF Follow, GivenUp, NextHops
    <2> QED
      BY <1>1, <1>2, <1>3, <2>1, NextTargetFits, FetchMoves
  <1> QED
    BY <1>4, <1>5

LEMMA GiveUpStep == ASSUME FetchInv, GiveUp PROVE FetchInv'
  <1>1. FetchFits(fetch, Len(feed)) /\ Len(feed) \in Nat
    BY LenProperties DEF FetchInv
  <1>2. fetch' = NextTarget(fetch) /\ UNCHANGED <<kind, time, feed, hashes, caught, dropped>>
    BY DEF GiveUp, GivenUp
  <1>3. PICK f : f = NextTarget(fetch)
    OBVIOUS
  <1>4. FetchFits(f, Len(feed)) /\ f.items = fetch.items
    BY <1>1, <1>3, NextTargetFits
  <1> QED
    BY <1>2, <1>3, <1>4, FetchMoves

LEMMA TakeItemsStep == ASSUME FetchInv, TakeItems PROVE FetchInv'
  <1>1. PICK q : q = fetch
    OBVIOUS
  <1>2. PICK its : its = ItemsOf
    OBVIOUS
  <1>3. FetchFits(q, Len(feed)) /\ q \in FetchRows
    BY <1>1 DEF FetchInv, FetchFits
  <1>4. its \in Seq(ItemRows) /\ ~IsPortal
    BY <1>2, ItemsTyped DEF TakeItems
  <1> DEFINE r1 == [q EXCEPT !.stage = "storing"]
             r  == [r1 EXCEPT !.items = its]
  <1>5. r \in FetchRows
    <2>1. r1 \in FetchRows
      BY <1>3, FetchEdit
    <2> HIDE DEF r1
    <2> QED
      BY <1>4, <2>1, FetchEdit
  <1>6. r.target = q.target /\ r.todo = q.todo
    BY <1>3 DEF FetchRows
  <1>7. fetch' = r /\ UNCHANGED <<kind, time, feed, hashes, caught, dropped>>
    BY <1>1, <1>2 DEF TakeItems
  <1> HIDE DEF r
  <1>8. FetchFits(r, Len(feed))
    BY <1>3, <1>5, <1>6 DEF FetchFits
  <1> QED
    BY <1>4, <1>7, <1>8, FetchMoves

LEMMA TakeIndexStep == ASSUME FetchInv, TakeIndex PROVE FetchInv'
  <1>1. PICK q : q = fetch
    OBVIOUS
  <1>2. FetchFits(q, Len(feed)) /\ q \in FetchRows /\ Len(feed) \in Nat
    BY <1>1, LenProperties DEF FetchInv, FetchFits
  <1> DEFINE ps == [i \in 1 .. Len(feed) |-> i]
             r  == [q EXCEPT !.todo = ps]
  <1>3. ps \in Seq(1 .. Len(feed)) /\ ps \in Seq(Nat)
    BY <1>2
  <1>4. fetch' = NextTarget(r) /\ UNCHANGED <<kind, time, feed, hashes, caught, dropped>>
    BY <1>1 DEF TakeIndex
  <1> HIDE DEF ps
  <1>5. r \in FetchRows
    BY <1>2, <1>3, FetchEdit
  <1>6. r.target = q.target /\ r.todo = ps /\ r.items = q.items
    BY <1>2 DEF FetchRows
  <1> HIDE DEF r
  <1>7. FetchFits(r, Len(feed))
    BY <1>2, <1>3, <1>5, <1>6 DEF FetchFits
  <1>8. PICK f : f = NextTarget(r)
    OBVIOUS
  <1>9. FetchFits(f, Len(feed)) /\ f.items = q.items
    BY <1>2, <1>6, <1>7, <1>8, NextTargetFits
  <1> QED
    BY <1>1, <1>4, <1>8, <1>9, FetchMoves

LEMMA VersionsTyped ==
    ASSUME NEW q \in Seq(ItemRows)
    PROVE  Versions(q) \subseteq Posts \X (1 .. MaxVersion)
  <1>1. \A j \in 1 .. Len(q) : q[j] \in ItemRows
    BY ElementOfSeq
  <1> QED
    BY <1>1 DEF Versions, ItemRows

(* An item that is emitted adds its version to those of the execution.        *)
LEMMA VersionsGrow ==
    ASSUME NEW q \in Seq(ItemRows), NEW i \in Posts, NEW v \in 1 .. MaxVersion
    PROVE  /\ Append(q, Item(i, v)) \in Seq(ItemRows)
           /\ Versions(q) \subseteq Versions(Append(q, Item(i, v)))
           /\ <<i, v>> \in Versions(Append(q, Item(i, v)))
  <1> DEFINE r == Item(i, v)
             w == Append(q, r)
  <1>1. r \in ItemRows /\ r.key = i /\ r.version = v
    BY DEF Item, ItemRows
  <1> HIDE DEF r
  <1>2. /\ w \in Seq(ItemRows) /\ Len(w) = Len(q) + 1 /\ Len(q) \in Nat
        /\ \A j \in 1 .. Len(q) : w[j] = q[j]
        /\ w[Len(q) + 1] = r
    BY <1>1, AppendProperties, LenProperties
  <1> HIDE DEF w
  <1>3. 1 .. Len(q) \subseteq 1 .. Len(w) /\ Len(q) + 1 \in 1 .. Len(w)
    BY <1>2
  <1>4. Versions(q) \subseteq Versions(w)
    BY <1>2, <1>3 DEF Versions
  <1>5. <<i, v>> \in Versions(w)
    BY <1>1, <1>2, <1>3 DEF Versions
  <1> QED
    BY <1>2, <1>4, <1>5 DEF w, r

(* A hash that is written, or is not.                                         *)
LEMMA HashMoves ==
    ASSUME FetchInv, NEW i \in Posts, NEW v \in 1 .. MaxVersion, NEW lands \in BOOLEAN,
           hashes' = IF lands THEN [hashes EXCEPT ![i] = v] ELSE hashes
    PROVE  /\ hashes' \in [Posts -> 0 .. MaxVersion]
           /\ \A k \in Posts : hashes'[k] = hashes[k] \/ (k = i /\ hashes'[k] = v)
  <1>1. v \in 0 .. MaxVersion /\ hashes \in [Posts -> 0 .. MaxVersion]
    BY DEF FetchInv
  <1>2. CASE lands
    <2>1. hashes' = [hashes EXCEPT ![i] = v]
      BY <1>2
    <2> QED
      BY <1>1, <2>1
  <1>3. CASE ~lands
    <2>1. hashes' = hashes
      BY <1>3
    <2> QED
      BY <1>1, <2>1
  <1> QED
    BY <1>2, <1>3

(* The hash that a portal stores is that of the item it emits with it.        *)
LEMMA TakePolicyStep == ASSUME FetchInv, TakePolicy PROVE FetchInv'
  <1>1. PICK q : q = fetch
    OBVIOUS
  <1>2. PICK n : n = Len(feed)
    OBVIOUS
  <1>3. FetchFits(q, n) /\ q \in FetchRows /\ n \in Nat
    BY <1>1, <1>2, LenProperties DEF FetchInv, FetchFits
  <1>4. PICK i : i = q.target
    OBVIOUS
  <1>5. i \in 1 .. n /\ i \in Posts /\ IsPortal
    <2>1. i \in 0 .. n /\ i # 0 /\ n <= MaxPosts /\ IsPortal
      BY <1>1, <1>2, <1>3, <1>4 DEF FetchFits, TakePolicy, FetchInv
    <2> QED
      BY <1>3, <2>1, FetchNumbers DEF Posts
  <1>6. PICK v : v = feed[i].version
    OBVIOUS
  <1>7. v \in 1 .. MaxVersion
    <2>1. feed[i] \in PostRows
      BY <1>2, <1>5, ElementOfSeq DEF FetchInv
    <2> QED
      BY <1>6, <2>1 DEF PostRows
  <1>8. PICK reads \in BOOLEAN, writes \in BOOLEAN, lands \in BOOLEAN :
           \/ fetch' = NextTarget(q) /\ UNCHANGED hashes
           \/ /\ hashes' = IF q.redis /\ reads /\ lands THEN [hashes EXCEPT ![i] = v] ELSE hashes
              /\ fetch' = NextTarget([q EXCEPT !.redis = q.redis /\ reads /\ writes,
                                               !.items = Append(q.items, Item(i, v))])
    <2>1. PICK reads \in BOOLEAN, writes \in BOOLEAN, lands \in BOOLEAN, archived \in BOOLEAN :
             IF Known(i, reads) = v THEN fetch' = NextTarget(q) /\ UNCHANGED hashes
             ELSE /\ hashes' = Remembered(i, reads, lands)
                  /\ fetch' = NextTarget([q EXCEPT !.redis = q.redis /\ reads /\ writes,
                                                   !.items = Emitted(q.items, Item(i, v), archived)])
      <3>1. PICK reads \in BOOLEAN, writes \in BOOLEAN, lands \in BOOLEAN, archived \in BOOLEAN :
               IF Known(i, reads) = v THEN fetch' = NextTarget(fetch) /\ UNCHANGED hashes
               ELSE /\ hashes' = Remembered(i, reads, lands)
                    /\ fetch' = NextTarget([fetch EXCEPT !.redis = @ /\ reads /\ writes,
                                               !.items = Emitted(@, Item(i, v), archived)])
        BY <1>1, <1>4, <1>6, Zenon DEF TakePolicy
      <3>2. [fetch EXCEPT !.redis = @ /\ reads /\ writes, !.items = Emitted(@, Item(i, v), archived)]
            = [q EXCEPT !.redis = q.redis /\ reads /\ writes, !.items = Emitted(q.items, Item(i, v), archived)]
        BY <1>1, <1>3 DEF FetchRows
      <3> QED
        BY <1>1, <3>1, <3>2, Zenon
    <2>2. Remembered(i, reads, lands) = IF q.redis /\ reads /\ lands THEN [hashes EXCEPT ![i] = v] ELSE hashes
      BY <1>1, <1>6 DEF Remembered
    <2>3. Emitted(q.items, Item(i, v), archived) = Append(q.items, Item(i, v))
      BY DEF Emitted
    <2> QED
      BY <2>1, <2>2, <2>3, Zenon
  <1>9. UNCHANGED <<kind, time, feed, caught, dropped>>
    BY DEF TakePolicy
  <1>10. CASE fetch' = NextTarget(q) /\ UNCHANGED hashes
    <2>1. PICK f : f = NextTarget(q)
      OBVIOUS
    <2>2. FetchFits(f, Len(feed)) /\ f.items = fetch.items
      BY <1>1, <1>2, <1>3, <2>1, NextTargetFits
    <2> QED
      BY <1>9, <1>10, <2>1, <2>2, FetchMoves
  <1>11. CASE /\ hashes' = IF q.redis /\ reads /\ lands THEN [hashes EXCEPT ![i] = v] ELSE hashes
              /\ fetch' = NextTarget([q EXCEPT !.redis = q.redis /\ reads /\ writes,
                                               !.items = Append(q.items, Item(i, v))])
    <2> DEFINE its == Append(q.items, Item(i, v))
               b   == q.redis /\ reads /\ writes
               r1  == [q EXCEPT !.redis = b]
               r   == [r1 EXCEPT !.items = its]
    <2>1. q.items \in Seq(ItemRows) /\ b \in BOOLEAN
      BY <1>3, FetchFields
    <2>2. /\ its \in Seq(ItemRows) /\ Versions(q.items) \subseteq Versions(its)
          /\ <<i, v>> \in Versions(its)
      BY <1>5, <1>7, <2>1, VersionsGrow
    <2>3. fetch' = NextTarget(r)
      BY <1>11
    <2> HIDE DEF its, b
    <2>4. r \in FetchRows
      <3>1. r1 \in FetchRows
        BY <1>3, <2>1, FetchEdit
      <3> HIDE DEF r1
      <3> QED
        BY <2>2, <3>1, FetchEdit
    <2>5. r.target = q.target /\ r.todo = q.todo /\ r.items = its
      BY <1>3 DEF FetchRows
    <2> HIDE DEF r
    <2>6. FetchFits(r, n)
      BY <1>3, <2>4, <2>5 DEF FetchFits
    <2>7. FetchFits(fetch', n) /\ fetch'.items = its
      BY <1>3, <2>3, <2>5, <2>6, NextTargetFits
    <2>8. hashes' \in [Posts -> 0 .. MaxVersion]
          /\ \A k \in Posts : hashes'[k] = hashes[k] \/ (k = i /\ hashes'[k] = v)
      BY <1>5, <1>7, <1>11, HashMoves
    <2>9. SilenceIsExplained'
      <3> SUFFICES ASSUME NEW k \in Posts, hashes'[k] # 0
                   PROVE  <<k, hashes'[k]>> \in Versions(fetch'.items) \cup dropped' \cup Recorded'
        BY DEF SilenceIsExplained, Posts
      <3>1. Recorded' = Recorded /\ dropped' = dropped
        BY <1>9 DEF Recorded
      <3>2. CASE hashes'[k] = hashes[k]
        <4>1. <<k, hashes[k]>> \in Versions(q.items) \cup dropped \cup Recorded
          BY <1>1, <3>2 DEF FetchInv, SilenceIsExplained
        <4> QED
          BY <2>2, <2>7, <3>1, <3>2, <4>1
      <3>3. CASE k = i /\ hashes'[k] = v
        BY <2>2, <2>7, <3>3
      <3> QED
        BY <2>8, <3>2, <3>3
    <2>10. FetchFits(fetch, Len(feed))'
      BY <1>2, <1>9, <2>7 DEF FetchFits
    <2>11. kind' = kind /\ time' = time /\ feed' = feed /\ caught' = caught /\ dropped' = dropped
      BY <1>9
    <2> QED
      BY <1>5, <2>8, <2>9, <2>10, <2>11 DEF FetchInv, IsPortal, Posts
  <1> QED
    BY <1>8, <1>10, <1>11

LEMMA FreshFits ==
    ASSUME NEW run \in Nat, NEW crashes \in Nat, NEW tries \in 0 .. MaxIngestTries,
           NEW g \in {"idle", "queued", "stored"}, NEW n \in Nat
    PROVE  FetchFits(Fresh(run, crashes, tries, g), n)
  <1>1. <<>> \in Seq(Nat) /\ <<>> \in Seq(1 .. n) /\ <<>> \in Seq(ItemRows)
    BY EmptySeq
  <1>2. Fresh(run, crashes, tries, g) \in FetchRows
    BY <1>1, FetchNumbers DEF Fresh, FetchRows
  <1> QED
    BY <1>1, <1>2 DEF FetchFits, Fresh

LEMMA AfterErrorFits ==
    ASSUME NEW q \in FetchRows, NEW f \in AfterError(q), NEW n \in Nat
    PROVE  FetchFits(f, n)
  <1>1. q.run \in Nat /\ q.crashes \in Nat /\ q.tries \in 0 .. MaxIngestTries
    BY FetchFields
  <1>2. CASE f = Fresh(q.run, q.crashes, 0, "idle")
    BY <1>1, <1>2, FetchNumbers, FreshFits
  <1>3. CASE q.tries < MaxIngestTries /\ f = Fresh(q.run, q.crashes, q.tries + 1, "queued")
    <2>1. q.tries + 1 \in 0 .. MaxIngestTries
      BY <1>1, <1>3, FetchNumbers
    <2> QED
      BY <1>1, <1>3, <2>1, FreshFits
  <1> QED
    BY <1>2, <1>3 DEF AfterError

(* An execution ends: what it emitted is recorded or counts as dropped.       *)
LEMMA FetchLoses ==
    ASSUME FetchInv, NEW f, FetchFits(f, Len(feed)), fetch' = f,
           dropped' = (dropped \cup Versions(fetch.items)) \ Recorded',
           caught \subseteq caught', caught' \subseteq ItemRows,
           UNCHANGED <<kind, time, feed, hashes>>
    PROVE  FetchInv'
  <1>1. Recorded \subseteq Recorded'
    BY DEF Recorded
  <1>2. SilenceIsExplained'
    <2> SUFFICES ASSUME NEW k \in Posts, hashes[k] # 0
                 PROVE  <<k, hashes[k]>> \in Versions(fetch'.items) \cup dropped' \cup Recorded'
      BY DEF SilenceIsExplained, Posts
    <2>1. <<k, hashes[k]>> \in Versions(fetch.items) \cup dropped \cup Recorded
      BY DEF FetchInv, SilenceIsExplained
    <2> QED
      BY <1>1, <2>1
  <1>3. dropped' \subseteq Posts \X (1 .. MaxVersion)
    <2>1. fetch.items \in Seq(ItemRows)
      BY FetchFields DEF FetchInv, FetchFits
    <2> QED
      BY <2>1, VersionsTyped DEF FetchInv
  <1>4. FetchFits(fetch, Len(feed))'
    BY DEF FetchFits
  <1> QED
    BY <1>2, <1>3, <1>4 DEF FetchInv, IsPortal, Posts

LEMMA StoreItemsStep == ASSUME FetchInv, StoreItems PROVE FetchInv'
  <1>1. PICK its : its = fetch.items
    OBVIOUS
  <1>2. PICK kept : kept = Kept(its)
    OBVIOUS
  <1>3. /\ its \in Seq(ItemRows) /\ fetch.run \in Nat /\ fetch.crashes \in Nat
        /\ fetch.tries \in 0 .. MaxIngestTries /\ Len(feed) \in Nat
    BY <1>1, FetchFields, LenProperties DEF FetchInv, FetchFits
  <1>4. \A j \in DOMAIN kept : kept[j] \in ItemRows
    <2>1. PICK m : m = IF Len(its) < MaxItems THEN Len(its) ELSE MaxItems
      OBVIOUS
    <2>2. m \in Nat /\ m <= Len(its) /\ Len(its) \in Nat
      BY <1>3, <2>1, LenProperties, FetchNumbers
    <2>3. \A j \in 1 .. m : its[j] \in ItemRows
      BY <1>3, <2>2, ElementOfSeq
    <2>4. SubSeq(its, 1, m) \in Seq(ItemRows)
      BY <2>2, <2>3, SubSeqProperties
    <2>5. kept = SubSeq(its, 1, m)
      BY <1>2, <2>1 DEF Kept, Capped
    <2>6. kept \in Seq(ItemRows) /\ DOMAIN kept = 1 .. Len(kept)
      BY <2>4, <2>5, LenProperties
    <2> QED
      BY <2>6, ElementOfSeq
  <1>5. /\ \E stored \in SUBSET DOMAIN kept : caught' = caught \cup {kept[j] : j \in stored}
        /\ dropped' = (dropped \cup Versions(fetch.items)) \ Recorded'
        /\ fetch' = Fresh(fetch.run, fetch.crashes, fetch.tries, "stored")
        /\ UNCHANGED <<kind, time, feed, hashes>>
    <2>1. PICK blank \in SUBSET DOMAIN Kept(fetch.items), failed \in SUBSET DOMAIN Kept(fetch.items) :
             \E stored \in {(DOMAIN Kept(fetch.items) \ blank) \ failed} \cup (IF failed = {} THEN {} ELSE {{}}) :
                caught' = caught \cup {Kept(fetch.items)[j] : j \in stored}
      BY Zenon DEF StoreItems
    <2>2. PICK stored \in {(DOMAIN Kept(fetch.items) \ blank) \ failed} \cup (IF failed = {} THEN {} ELSE {{}}) :
             caught' = caught \cup {Kept(fetch.items)[j] : j \in stored}
      BY <2>1
    <2>3. Kept(fetch.items) = kept
      BY <1>1, <1>2
    <2>4. stored \in SUBSET DOMAIN kept /\ caught' = caught \cup {kept[j] : j \in stored}
      BY <2>2, <2>3
    <2> QED
      BY <2>4 DEF StoreItems, Lost
  <1>6. caught \subseteq caught' /\ caught' \subseteq ItemRows
    BY <1>4, <1>5 DEF FetchInv
  <1>7. PICK f : f = Fresh(fetch.run, fetch.crashes, fetch.tries, "stored")
    OBVIOUS
  <1>8. FetchFits(f, Len(feed))
    BY <1>3, <1>7, FreshFits
  <1> QED
    BY <1>5, <1>6, <1>7, <1>8, FetchLoses

LEMMA FetchReturnsStep == ASSUME FetchInv, FetchReturns PROVE FetchInv'
  <1>1. PICK q : q = fetch
    OBVIOUS
  <1>2. FetchFits(q, Len(feed)) /\ q \in FetchRows
    BY <1>1 DEF FetchInv, FetchFits
  <1> DEFINE r1 == [q EXCEPT !.stage = "idle"]
             r  == [r1 EXCEPT !.tries = 0]
  <1>3. r \in FetchRows
    <2>1. r1 \in FetchRows
      BY <1>2, FetchEdit
    <2> HIDE DEF r1
    <2> QED
      BY <2>1, FetchEdit, FetchNumbers
  <1>4. r.target = q.target /\ r.todo = q.todo /\ r.items = q.items
    BY <1>2 DEF FetchRows
  <1>5. fetch' = r /\ UNCHANGED <<kind, time, feed, hashes, caught, dropped>>
    BY <1>1, <1>2 DEF FetchReturns, FetchRows
  <1> HIDE DEF r
  <1>6. FetchFits(r, Len(feed))
    BY <1>2, <1>3, <1>4 DEF FetchFits
  <1> QED
    BY <1>1, <1>4, <1>5, <1>6, FetchMoves

(* The hash of a document that cannot be parsed silences a version that is    *)
(* lost with the execution.                                                   *)
LEMMA PolicyBreaksStep == ASSUME FetchInv, PolicyBreaks PROVE FetchInv'
  <1>1. PICK q : q = fetch
    OBVIOUS
  <1>2. PICK n : n = Len(feed)
    OBVIOUS
  <1>3. FetchFits(q, n) /\ q \in FetchRows /\ n \in Nat /\ q.items \in Seq(ItemRows)
    BY <1>1, <1>2, LenProperties, FetchFields DEF FetchInv, FetchFits
  <1>4. PICK i : i = q.target
    OBVIOUS
  <1>5. i \in 1 .. n /\ i \in Posts /\ IsPortal
    <2>1. i \in 0 .. n /\ i # 0 /\ n <= MaxPosts /\ IsPortal
      BY <1>1, <1>2, <1>3, <1>4 DEF FetchFits, PolicyBreaks, FetchInv
    <2> QED
      BY <1>3, <2>1, FetchNumbers DEF Posts
  <1>6. PICK v : v = feed[i].version
    OBVIOUS
  <1>7. v \in 1 .. MaxVersion
    <2>1. feed[i] \in PostRows
      BY <1>2, <1>5, ElementOfSeq DEF FetchInv
    <2> QED
      BY <1>6, <2>1 DEF PostRows
  <1>8. PICK its : its = Append(q.items, Item(i, v))
    OBVIOUS
  <1>9. /\ its \in Seq(ItemRows) /\ Versions(q.items) \subseteq Versions(its)
        /\ <<i, v>> \in Versions(its)
    BY <1>3, <1>5, <1>7, <1>8, VersionsGrow
  <1>10. /\ \E lands \in BOOLEAN : hashes' = IF lands THEN [hashes EXCEPT ![i] = v] ELSE hashes
         /\ fetch' \in AfterError(q)
         /\ dropped' = (dropped \cup Versions(its)) \ Recorded'
         /\ UNCHANGED <<kind, time, feed, caught>>
    <2>1. PICK reads \in BOOLEAN, lands \in BOOLEAN :
             hashes' = IF q.redis /\ reads /\ lands THEN [hashes EXCEPT ![i] = v] ELSE hashes
      BY <1>1, <1>4, <1>6 DEF PolicyBreaks, Remembered
    <2>2. (q.redis /\ reads /\ lands) \in BOOLEAN
      OBVIOUS
    <2> QED
      BY <1>1, <1>4, <1>6, <1>8, <2>1, <2>2 DEF PolicyBreaks, Lost
  <1>11. hashes' \in [Posts -> 0 .. MaxVersion]
         /\ \A k \in Posts : hashes'[k] = hashes[k] \/ (k = i /\ hashes'[k] = v)
    BY <1>5, <1>7, <1>10, HashMoves
  <1>12. SilenceIsExplained'
    <2> SUFFICES ASSUME NEW k \in Posts, hashes'[k] # 0
                 PROVE  <<k, hashes'[k]>> \in Versions(fetch'.items) \cup dropped' \cup Recorded'
      BY DEF SilenceIsExplained, Posts
    <2>1. Recorded' = Recorded
      BY <1>10 DEF Recorded
    <2>2. <<k, hashes'[k]>> \in dropped \cup Versions(its) \cup Recorded
      <3>1. CASE hashes'[k] = hashes[k]
        <4>1. <<k, hashes[k]>> \in Versions(q.items) \cup dropped \cup Recorded
          BY <1>1, <3>1 DEF FetchInv, SilenceIsExplained
        <4> QED
          BY <1>9, <3>1, <4>1
      <3>2. CASE k = i /\ hashes'[k] = v
        BY <1>9, <3>2
      <3> QED
        BY <1>11, <3>1, <3>2
    <2> QED
      BY <1>10, <2>1, <2>2
  <1>13. dropped' \subseteq Posts \X (1 .. MaxVersion)
    BY <1>9, <1>10, VersionsTyped DEF FetchInv
  <1>14. FetchFits(fetch, Len(feed))'
    <2>1. FetchFits(fetch', n)
      BY <1>3, <1>10, AfterErrorFits
    <2> QED
      BY <1>2, <1>10, <2>1 DEF FetchFits
  <1> QED
    BY <1>5, <1>10, <1>11, <1>12, <1>13, <1>14 DEF FetchInv, IsPortal, Posts

LEMMA FetchFailsStep == ASSUME FetchInv, FetchFails PROVE FetchInv'
  <1>1. fetch \in FetchRows /\ Len(feed) \in Nat
    BY LenProperties DEF FetchInv, FetchFits
  <1>2. /\ dropped' = (dropped \cup Versions(fetch.items)) \ Recorded'
        /\ UNCHANGED <<kind, time, feed, hashes, caught>>
    BY DEF FetchFails, Lost
  <1>3. caught \subseteq caught' /\ caught' \subseteq ItemRows
    BY <1>2 DEF FetchInv
  <1>4. PICK f \in AfterError(fetch) : fetch' = f
    BY DEF FetchFails
  <1>5. FetchFits(f, Len(feed))
    BY <1>1, <1>4, AfterErrorFits
  <1> QED
    BY <1>2, <1>3, <1>4, <1>5, FetchLoses

LEMMA FetchCrashStep == ASSUME FetchInv, FetchCrash PROVE FetchInv'
  <1>1. /\ fetch.run \in Nat /\ fetch.crashes \in Nat /\ fetch.tries \in 0 .. MaxIngestTries
        /\ Len(feed) \in Nat
    BY FetchFields, LenProperties DEF FetchInv, FetchFits
  <1>2. /\ dropped' = (dropped \cup Versions(fetch.items)) \ Recorded'
        /\ UNCHANGED <<kind, time, feed, hashes, caught>>
    BY DEF FetchCrash, Lost
  <1>3. caught \subseteq caught' /\ caught' \subseteq ItemRows
    BY <1>2 DEF FetchInv
  <1>4. PICK f : f = Fresh(fetch.run, fetch.crashes + 1, fetch.tries, "queued")
    OBVIOUS
  <1>5. fetch.crashes + 1 \in Nat
    BY <1>1
  <1>6. fetch' = f
    BY <1>4 DEF FetchCrash
  <1>7. FetchFits(f, Len(feed))
    BY <1>1, <1>4, <1>5, FreshFits
  <1> QED
    BY <1>2, <1>3, <1>6, <1>7, FetchLoses

(* The source publishes and edits: hashes and items are not touched.          *)
LEMMA SourceMoves ==
    ASSUME FetchInv, PostAppears \/ PostChanges \/ TimePasses
    PROVE  FetchInv'
  <1>1. /\ feed \in Seq(PostRows) /\ Len(feed) \in Nat /\ FetchFits(fetch, Len(feed))
        /\ time \in 1 .. MaxTime /\ Len(feed) <= MaxPosts
    BY LenProperties DEF FetchInv
  <1>2. ASSUME UNCHANGED <<kind, hashes, fetch, caught, dropped>>, time' \in 1 .. MaxTime,
               feed' \in Seq(PostRows), Len(feed') \in Len(feed) .. MaxPosts
        PROVE  FetchInv'
    <2>1. FetchFits(fetch, Len(feed))'
      <3>1. 0 .. Len(feed) \subseteq 0 .. Len(feed') /\ 1 .. Len(feed) \subseteq 1 .. Len(feed')
        BY <1>1, <1>2, FetchNumbers
      <3>2. fetch.todo \in Seq(1 .. Len(feed'))
        BY <1>1, <3>1, SeqMonotonic DEF FetchFits
      <3> QED
        BY <1>1, <1>2, <3>1, <3>2 DEF FetchFits
    <2>2. SilenceIsExplained'
      BY <1>2 DEF FetchInv, SilenceIsExplained, Recorded
    <2>3. Len(feed') <= MaxPosts
      BY <1>1, <1>2, FetchNumbers
    <2> QED
      BY <1>2, <2>1, <2>2, <2>3 DEF FetchInv, IsPortal
  <1>3. CASE PostAppears
    <2> DEFINE r == [version |-> 1, at |-> time]
    <2>1. r \in PostRows
      BY <1>1, FetchNumbers DEF PostRows
    <2>2. feed' = Append(feed, r) /\ Len(feed) < MaxPosts /\ time' = time
          /\ UNCHANGED <<kind, hashes, fetch, caught, dropped>>
      BY <1>3 DEF PostAppears
    <2> HIDE DEF r
    <2>3. feed' \in Seq(PostRows) /\ Len(feed') = Len(feed) + 1
      BY <1>1, <2>1, <2>2, AppendProperties
    <2>4. Len(feed') \in Len(feed) .. MaxPosts
      BY <1>1, <2>2, <2>3, FetchNumbers
    <2> QED
      BY <1>1, <1>2, <2>2, <2>3, <2>4
  <1>4. CASE PostChanges
    <2>1. PICK i \in Changing \cap 1 .. Len(feed), v \in 1 .. MaxVersion :
             feed' = [feed EXCEPT ![i].version = v]
      BY <1>4 DEF PostChanges
    <2>2. time' = time /\ UNCHANGED <<kind, hashes, fetch, caught, dropped>>
      BY <1>4 DEF PostChanges
    <2>3. feed[i] \in PostRows
      BY <1>1, ElementOfSeq
    <2> DEFINE r == [feed[i] EXCEPT !.version = v]
    <2>4. r \in PostRows
      BY <2>3 DEF PostRows
    <2>5. feed' = [feed EXCEPT ![i] = r]
      BY <2>1
    <2> HIDE DEF r
    <2>6. feed' \in Seq(PostRows) /\ Len(feed') = Len(feed)
      BY <1>1, <2>4, <2>5, ExceptSeq
    <2>7. Len(feed') \in Len(feed) .. MaxPosts
      BY <1>1, <2>6, FetchNumbers
    <2> QED
      BY <1>1, <1>2, <2>2, <2>6, <2>7
  <1>5. CASE TimePasses
    <2>1. time' = time + 1 /\ time < MaxTime /\ feed' = feed
          /\ UNCHANGED <<kind, hashes, fetch, caught, dropped>>
      BY <1>5 DEF TimePasses
    <2>2. time' \in 1 .. MaxTime
      BY <1>1, <2>1, FetchNumbers
    <2>3. Len(feed') \in Len(feed) .. MaxPosts
      BY <1>1, <2>1, FetchNumbers
    <2> QED
      BY <1>1, <1>2, <2>1, <2>2, <2>3
  <1> QED
    BY <1>3, <1>4, <1>5

LEMMA FetchInitInv == FetchInit => FetchInv
  <1> SUFFICES ASSUME FetchInit PROVE FetchInv
    OBVIOUS
  <1>1. feed \in Seq(PostRows) /\ Len(feed) = 0
    BY EmptySeq DEF FetchInit
  <1>2. PICK f : f = Fresh(0, 0, 0, "idle")
    OBVIOUS
  <1>3. FetchFits(f, 0)
    BY <1>2, FetchNumbers, FreshFits
  <1>4. FetchFits(fetch, Len(feed))
    BY <1>1, <1>2, <1>3 DEF FetchInit
  <1>5. /\ kind \in Kinds /\ time \in 1 .. MaxTime /\ hashes = [i \in Posts |-> 0]
        /\ caught = {} /\ dropped = {}
    BY FetchNumbers DEF FetchInit
  <1>6. hashes \in [Posts -> 0 .. MaxVersion] /\ Len(feed) <= MaxPosts
    BY <1>1, <1>5, FetchNumbers
  <1>7. SilenceIsExplained
    BY <1>5 DEF SilenceIsExplained
  <1> QED
    BY <1>1, <1>4, <1>5, <1>6, <1>7 DEF FetchInv

LEMMA FetchInvAlways == FetchSpec => []FetchInv
  <1>1. ASSUME FetchInv, [FetchNext]_fetchVars PROVE FetchInv'
    <2>1. CASE UNCHANGED fetchVars
      <3>1. UNCHANGED <<kind, time, feed, hashes, fetch, caught, dropped>>
        BY <2>1 DEF fetchVars
      <3>2. FetchFits(fetch, Len(feed)) /\ fetch' = fetch
        BY <1>1, <3>1 DEF FetchInv
      <3> QED
        BY <1>1, <3>1, <3>2, FetchMoves
    <2> QED
      BY <1>1, <2>1, SourceMoves, FetchStartsStep, AskAgainStep, FollowStep, GiveUpStep, TakeItemsStep,
         TakeIndexStep, TakePolicyStep, PolicyBreaksStep, StoreItemsStep, FetchReturnsStep,
         FetchFailsStep, FetchCrashStep
         DEF FetchNext, Working
  <1> QED
    BY <1>1, FetchInitInv, PTL DEF FetchSpec

(* The types of the fetch. They hold the bounds on attempts, redirects and    *)
(* retries: no answer of a server makes an execution ask more often.          *)
THEOREM AttemptsAreBounded == FetchSpec => []FetchTypeOK
  <1>1. ASSUME FetchInv PROVE FetchTypeOK
    <2>1. /\ fetch \in FetchRows /\ fetch.target \in 0 .. Len(feed) /\ fetch.todo \in Seq(1 .. Len(feed))
          /\ Len(feed) \in Nat /\ Len(feed) <= MaxPosts
      BY <1>1, LenProperties DEF FetchInv, FetchFits
    <2>2. /\ fetch.stage \in {"idle", "queued", "asking", "storing", "stored"}
          /\ fetch.attempt \in 0 .. MaxAttempts - 1 /\ fetch.hops \in 0 .. MaxRedirects - 1
          /\ fetch.tries \in 0 .. MaxIngestTries /\ fetch.redis \in BOOLEAN
      BY <2>1, FetchFields
    <2>3. fetch.attempt < MaxAttempts /\ fetch.hops < MaxRedirects
      BY <2>2, FetchNumbers
    <2>4. 0 .. Len(feed) \subseteq 0 .. MaxPosts /\ 1 .. Len(feed) \subseteq Posts
      BY <2>1, FetchNumbers DEF Posts
    <2>5. fetch.target \in 0 .. MaxPosts /\ fetch.todo \in Seq(Posts)
      BY <2>1, <2>4, SeqMonotonic
    <2>6. /\ kind \in Kinds /\ time \in 1 .. MaxTime
          /\ feed \in Seq([version : 1 .. MaxVersion, at : 1 .. MaxTime])
          /\ hashes \in [Posts -> 0 .. MaxVersion]
          /\ dropped \subseteq Posts \X (1 .. MaxVersion)
      BY <1>1 DEF FetchInv, PostRows
    <2>7. \A item \in caught : item.key \in Posts /\ item.version \in 1 .. MaxVersion
      BY <1>1 DEF FetchInv, ItemRows
    <2> QED
      BY <2>2, <2>3, <2>5, <2>6, <2>7 DEF FetchTypeOK
  <1> QED
    BY <1>1, FetchInvAlways, PTL

(* A stored hash silences a policy version for good. That version became an   *)
(* event, is held by the running execution, or was emitted by one that lost   *)
(* it, whatever Redis, MinIO, the servers and the workers do.                 *)
THEOREM SilenceHasAReason == FetchSpec => []SilenceIsExplained
  <1>1. FetchInv => SilenceIsExplained
    BY DEF FetchInv
  <1> QED
    BY <1>1, FetchInvAlways, PTL

-----------------------------------------------------------------------------
(* The analysis of one lead *)

ProvisionRows == [section : Sections, severity : 0 .. Unhashable]
CaseRows == STRING \X BOOLEAN

(* What the fold of FirstOfEach does with an answer.                          *)
Keeps(kept, p) ==
    IF p = NoAnswer \/ \E i \in 1 .. Len(kept) : kept[i].section = p.section THEN kept ELSE Append(kept, p)
FirstFold(answers, k, g) ==
    [s \in SUBSET (1 .. k) |-> IF s = {} THEN <<>> ELSE Keeps(g[s \ {Max(s)}], answers[Max(s)])]

LEMMA FirstFoldExists ==
    ASSUME NEW answers, NEW n \in Nat
    PROVE  \E g : g = FirstFold(answers, n, g)
  <1> DEFINE E(k) == \E g : g = FirstFold(answers, k, g)
             T == {k \in Nat : E(k)}
  <1>1. E(0)
    <2> DEFINE g == [s \in SUBSET (1 .. 0) |-> <<>>]
    <2>1. \A s \in SUBSET (1 .. 0) : s = {}
      OBVIOUS
    <2>2. g = FirstFold(answers, 0, g)
      BY <2>1 DEF FirstFold
    <2> QED
      BY <2>2
  <1>2. ASSUME NEW k \in Nat, E(k) PROVE E(k + 1)
    <2>1. PICK g : g = FirstFold(answers, k, g)
      BY <1>2
    <2> DEFINE h == [s \in SUBSET (1 .. k + 1) |->
                        IF k + 1 \in s THEN Keeps(g[s \ {k + 1}], answers[k + 1]) ELSE g[s]]
    <2>2. ASSUME NEW s \in SUBSET (1 .. k + 1)
          PROVE  h[s] = IF s = {} THEN <<>> ELSE Keeps(h[s \ {Max(s)}], answers[Max(s)])
      <3>1. CASE k + 1 \in s
        <4>1. Max(s) = k + 1 /\ s \ {k + 1} \in SUBSET (1 .. k)
          BY <3>1, LastPosition
        <4>2. s \ {k + 1} \in SUBSET (1 .. k + 1) /\ k + 1 \notin s \ {k + 1}
          OBVIOUS
        <4>3. h[s \ {k + 1}] = g[s \ {k + 1}]
          BY <4>2
        <4> QED
          BY <3>1, <4>1, <4>3
      <3>2. CASE k + 1 \notin s
        <4>1. s \in SUBSET (1 .. k)
          BY <3>2, EarlierPositions
        <4>2. g[s] = IF s = {} THEN <<>> ELSE Keeps(g[s \ {Max(s)}], answers[Max(s)])
          BY <2>1, <4>1 DEF FirstFold
        <4>3. h[s \ {Max(s)}] = g[s \ {Max(s)}]
          BY <3>2
        <4> QED
          BY <3>2, <4>2, <4>3
      <3> QED
        BY <3>1, <3>2
    <2>3. h = [s \in SUBSET (1 .. k + 1) |-> h[s]]
      OBVIOUS
    <2> HIDE DEF h
    <2>4. h = FirstFold(answers, k + 1, h)
      BY <2>2, <2>3 DEF FirstFold
    <2> QED
      BY <2>4
  <1> HIDE DEF E
  <1>3. 0 \in T /\ \A k \in Nat : k \in T => k + 1 \in T
    BY <1>1, <1>2
  <1>4. n \in T
    <2> HIDE DEF T
    <2> QED
      BY <1>3, SetInduction
  <1> QED
    BY <1>4 DEF E

(* The kept answers are provisions of flagged sections.                       *)
LEMMA FirstTyped ==
    ASSUME NEW n \in Nat, NEW answers \in [1 .. n -> {NoAnswer} \cup ProvisionRows]
    PROVE  FirstOfEach(answers) \in Seq(ProvisionRows)
  <1>1. DOMAIN answers = 1 .. n
    OBVIOUS
  <1> DEFINE g == CHOOSE f : f = FirstFold(answers, n, f)
  <1>2. g = FirstFold(answers, n, g)
    BY FirstFoldExists
  <1>3. FirstOfEach(answers) = g[1 .. n]
    BY <1>1 DEF FirstOfEach, FoldLeft, MapThenFoldSet, FirstFold, Keeps
  <1> HIDE DEF g
  <1> DEFINE B(k) == \A s \in SUBSET (1 .. k) : g[s] \in Seq(ProvisionRows)
             T == {k \in Nat : k <= n => B(k)}
  <1>4. B(0)
    <2>1. \A s \in SUBSET (1 .. 0) : s = {}
      OBVIOUS
    <2>2. {} \in SUBSET (1 .. n) /\ g[{}] = <<>>
      BY <1>2 DEF FirstFold
    <2>3. <<>> \in Seq(ProvisionRows)
      BY EmptySeq
    <2> QED
      BY <2>1, <2>2, <2>3
  <1>5. ASSUME NEW k \in Nat, k + 1 <= n, B(k) PROVE B(k + 1)
    <2> SUFFICES ASSUME NEW s \in SUBSET (1 .. k + 1) PROVE g[s] \in Seq(ProvisionRows)
      OBVIOUS
    <2>1. CASE k + 1 \notin s
      BY <1>5, <2>1, EarlierPositions
    <2>2. CASE k + 1 \in s
      <3>1. Max(s) = k + 1 /\ s \ {k + 1} \in SUBSET (1 .. k)
        BY <2>2, LastPosition
      <3>2. k + 1 \in 1 .. n /\ s \in SUBSET (1 .. n)
        BY <1>5
      <3>3. PICK p : p = answers[k + 1]
        OBVIOUS
      <3>4. PICK kept \in Seq(ProvisionRows) : kept = g[s \ {k + 1}]
        BY <1>5, <3>1
      <3>5. g[s] = Keeps(kept, p)
        BY <1>2, <2>2, <3>1, <3>2, <3>3, <3>4 DEF FirstFold
      <3>6. CASE p = NoAnswer
        BY <3>5, <3>6 DEF Keeps
      <3>7. CASE p # NoAnswer
        <4>1. p \in ProvisionRows
          BY <3>2, <3>3, <3>7
        <4>2. Append(kept, p) \in Seq(ProvisionRows)
          BY <4>1, AppendProperties
        <4>3. g[s] \in {kept, Append(kept, p)}
          BY <3>5 DEF Keeps
        <4> QED
          BY <4>2, <4>3
      <3> QED
        BY <3>6, <3>7
    <2> QED
      BY <2>1, <2>2
  <1> HIDE DEF B
  <1>6. 0 \in T /\ \A k \in Nat : k \in T => k + 1 \in T
    BY <1>4, <1>5
  <1>7. n \in T
    <2> HIDE DEF T
    <2> QED
      BY <1>6, SetInduction
  <1>8. 1 .. n \in SUBSET (1 .. n)
    OBVIOUS
  <1> QED
    BY <1>3, <1>7, <1>8 DEF B

(* The cases of all provisions, one after the other.                          *)
FlatRows(cases, k, g) == [i \in 1 .. k |-> IF i = 1 THEN cases[i] ELSE g[i - 1] \o cases[i]]

LEMMA FlatRowsExist ==
    ASSUME NEW cases, NEW n \in Nat
    PROVE  \E g : g = FlatRows(cases, n, g)
  <1> DEFINE E(k) == \E g : g = FlatRows(cases, k, g)
             T == {k \in Nat : E(k)}
  <1>1. E(0)
    <2> DEFINE g == [i \in 1 .. 0 |-> <<>>]
    <2>1. g = FlatRows(cases, 0, g)
      BY DEF FlatRows
    <2> QED
      BY <2>1
  <1>2. ASSUME NEW k \in Nat, E(k) PROVE E(k + 1)
    <2>1. PICK g : g = FlatRows(cases, k, g)
      BY <1>2
    <2> DEFINE h == [i \in 1 .. k + 1 |->
                        IF i = k + 1 THEN (IF i = 1 THEN cases[i] ELSE g[k] \o cases[i]) ELSE g[i]]
    <2>2. ASSUME NEW i \in 1 .. k + 1
          PROVE  h[i] = IF i = 1 THEN cases[i] ELSE h[i - 1] \o cases[i]
      <3>1. CASE i = k + 1
        <4>1. k # 0 => h[k] = g[k]
          OBVIOUS
        <4>2. i # 1 => k # 0 /\ i - 1 = k
          BY <3>1
        <4> QED
          BY <3>1, <4>1, <4>2
      <3>2. CASE i # k + 1
        <4>1. i \in 1 .. k /\ h[i] = g[i]
          BY <3>2
        <4>2. i # 1 => i - 1 \in 1 .. k /\ h[i - 1] = g[i - 1]
          BY <4>1
        <4> QED
          BY <2>1, <4>1, <4>2 DEF FlatRows
      <3> QED
        BY <3>1, <3>2
    <2>3. h = [i \in 1 .. k + 1 |-> h[i]]
      OBVIOUS
    <2> HIDE DEF h
    <2>4. h = FlatRows(cases, k + 1, h)
      BY <2>2, <2>3 DEF FlatRows
    <2> QED
      BY <2>4
  <1> HIDE DEF E
  <1>3. 0 \in T /\ \A k \in Nat : k \in T => k + 1 \in T
    BY <1>1, <1>2
  <1>4. n \in T
    <2> HIDE DEF T
    <2> QED
      BY <1>3, SetInduction
  <1> QED
    BY <1>4 DEF E

LEMMA FlatTyped ==
    ASSUME NEW S, NEW cases \in Seq(Seq(S))
    PROVE  FlattenSeq(cases) \in Seq(S) /\ (cases = <<>> => FlattenSeq(cases) = <<>>)
  <1>1. PICK n \in Nat : n = Len(cases)
    BY LenProperties
  <1>2. CASE n = 0
    <2>1. cases = <<>>
      BY <1>1, <1>2, EmptySeq
    <2>2. FlattenSeq(cases) = cases
      BY <1>1, <1>2 DEF FlattenSeq
    <2> QED
      BY <2>1, <2>2, EmptySeq
  <1>3. CASE n # 0
    <2> DEFINE g == CHOOSE f : f = FlatRows(cases, n, f)
    <2>1. g = FlatRows(cases, n, g)
      BY FlatRowsExist
    <2>2. FlattenSeq(cases) = g[n]
      BY <1>1, <1>3 DEF FlattenSeq, FlatRows
    <2> HIDE DEF g
    <2> DEFINE T == {k \in Nat : k \in 1 .. n => g[k] \in Seq(S)}
    <2>3. 0 \in T
      OBVIOUS
    <2>4. ASSUME NEW k \in Nat, k \in T, k + 1 \in 1 .. n PROVE g[k + 1] \in Seq(S)
      <3>1. cases[k + 1] \in Seq(S)
        BY <1>1, <2>4, ElementOfSeq
      <3>2. CASE k = 0
        BY <2>1, <2>4, <3>1, <3>2 DEF FlatRows
      <3>3. CASE k # 0
        <4>1. k \in 1 .. n
          BY <2>4, <3>3
        <4>2. g[k] \in Seq(S)
          BY <2>4, <4>1
        <4>3. PICK i \in 1 .. n : i = k + 1 /\ i # 1 /\ i - 1 = k
          BY <2>4, <3>3
        <4>4. g[i] = g[i - 1] \o cases[i]
          BY <2>1, <4>3 DEF FlatRows
        <4>5. g[k + 1] = g[k] \o cases[k + 1]
          BY <4>3, <4>4
        <4> QED
          BY <3>1, <4>2, <4>5, ConcatProperties
      <3> QED
        BY <3>2, <3>3
    <2>5. \A k \in Nat : k \in T => k + 1 \in T
      BY <2>4
    <2>6. n \in T
      <3> HIDE DEF T
      <3> QED
        BY <2>3, <2>5, SetInduction
    <2>7. g[n] \in Seq(S)
      BY <1>3, <2>6
    <2>8. cases # <<>>
      BY <1>1, <1>3, EmptySeq
    <2> QED
      BY <2>2, <2>7, <2>8
  <1> QED
    BY <1>2, <1>3

(* The highest of some severities.                                            *)
LEMMA HighestSeverity ==
    ASSUME NEW provisions \in Seq([section : Sections, severity : 0 .. 4]), provisions # <<>>
    PROVE  /\ MaxSeverity(provisions) \in 0 .. 4
           /\ \E i \in 1 .. Len(provisions) : provisions[i].severity = MaxSeverity(provisions)
           /\ \A i \in 1 .. Len(provisions) : provisions[i].severity <= MaxSeverity(provisions)
  <1> DEFINE S == {provisions[i].severity : i \in 1 .. Len(provisions)}
             P(s) == /\ \E i \in 1 .. Len(provisions) : provisions[i].severity = s
                     /\ \A i \in 1 .. Len(provisions) : provisions[i].severity <= s
  <1>1. S \in SUBSET (0 .. 4) /\ S # {}
    <2>1. Len(provisions) \in Nat /\ Len(provisions) # 0
      BY LenProperties, EmptySeq
    <2>2. \A i \in 1 .. Len(provisions) : provisions[i] \in [section : Sections, severity : 0 .. 4]
      BY ElementOfSeq
    <2>3. \A i \in 1 .. Len(provisions) : provisions[i].severity \in 0 .. 4
      BY <2>2
    <2>4. 1 \in 1 .. Len(provisions)
      BY <2>1
    <2>5. provisions[1].severity \in S
      BY <2>4
    <2> QED
      BY <2>3, <2>5
  <1>2. \E m \in S : \A s \in S : s <= m
    <2> HIDE DEF S
    <2>1. CASE 4 \in S
      BY <1>1, <2>1
    <2>2. CASE 4 \notin S /\ 3 \in S
      BY <1>1, <2>2
    <2>3. CASE 4 \notin S /\ 3 \notin S /\ 2 \in S
      BY <1>1, <2>3
    <2>4. CASE 4 \notin S /\ 3 \notin S /\ 2 \notin S /\ 1 \in S
      BY <1>1, <2>4
    <2>5. CASE 4 \notin S /\ 3 \notin S /\ 2 \notin S /\ 1 \notin S
      <3>1. \A s \in S : s = 0
        BY <1>1, <2>5
      <3>2. PICK s \in S : TRUE
        BY <1>1
      <3> QED
        BY <3>1, <3>2
    <2> QED
      BY <2>1, <2>2, <2>3, <2>4, <2>5
  <1>3. PICK m \in S : \A s \in S : s <= m
    BY <1>2
  <1>4. m \in 0 .. 4 /\ P(m)
    BY <1>1, <1>3
  <1>5. MaxSeverity(provisions) = CHOOSE s \in 0 .. 4 : P(s)
    BY DEF MaxSeverity
  <1> HIDE DEF P
  <1>6. MaxSeverity(provisions) \in 0 .. 4 /\ P(MaxSeverity(provisions))
    BY <1>4, <1>5
  <1> QED
    BY <1>6 DEF P

Statuses == {"pending", "completed", "no_source_material", "failed",
             "not_actionable", "extraction_failed", "non_english", "no_content"}

(* What the analyzer answers, as far as the assignments of the loop look at it. *)
ResultFits(result) ==
    /\ result.kind \in {"none", "raised", "error", "gate", "verdict"}
    /\ result.kind = "gate" => result.status \in {"no_content", "extraction_failed", "non_english"}
    /\ result.kind = "verdict" =>
          /\ result.status \in {"completed", "not_actionable"}
          /\ result.provisions \in Seq(ProvisionRows) /\ result.cases \in Seq(Seq(CaseRows))
          /\ result.status = "not_actionable" => result.provisions = <<>>
          /\ result.provisions = <<>> => result.cases = <<>>

LEMMA VerdictFits ==
    ASSUME NEW provisions \in Seq(ProvisionRows), NEW cases \in Seq(Seq(CaseRows)),
           provisions = <<>> => cases = <<>>
    PROVE  ResultFits(Verdict(provisions, cases))
  BY DEF ResultFits, Verdict, Result

LEMMA SimpleResultsFit ==
    /\ ResultFits(NoSource) /\ ResultFits(Failed) /\ ResultFits(TaskError)
    /\ \A status \in {"no_content", "extraction_failed", "non_english"} : ResultFits(Gate(status))
    /\ ResultFits(Verdict(<<>>, <<>>))
    /\ ResultFits([Verdict(<<>>, <<>>) EXCEPT !.status = "completed"])
  <1>1. ResultFits(NoSource) /\ ResultFits(Failed) /\ ResultFits(TaskError)
    BY DEF ResultFits, NoSource, Failed, TaskError, Result
  <1>2. \A status \in {"no_content", "extraction_failed", "non_english"} : ResultFits(Gate(status))
    BY DEF ResultFits, Gate, Result
  <1>3. <<>> \in Seq(ProvisionRows) /\ <<>> \in Seq(Seq(CaseRows))
    BY EmptySeq
  <1>4. ResultFits(Verdict(<<>>, <<>>))
    BY <1>3, VerdictFits
  <1>5. ResultFits([Verdict(<<>>, <<>>) EXCEPT !.status = "completed"])
    BY <1>3 DEF ResultFits, Verdict, Result
  <1> QED
    BY <1>1, <1>2, <1>4, <1>5

LEMMA PrecedentTyped ==
    ASSUME NEW section \in Sections, NEW answer
    PROVE  Precedent(section, answer) \in Seq(CaseRows)
  <1>1. CasesOf[section] \in Seq(STRING) /\ MaxCases \in Nat
    BY AnalysisAssumption
  <1>2. PICK cases \in Seq(STRING) : cases = CasesOf[section]
    BY <1>1
  <1>3. PICK m : m = IF Len(cases) < MaxCases THEN Len(cases) ELSE MaxCases
    OBVIOUS
  <1>4. m \in Nat /\ m <= Len(cases)
    BY <1>1, <1>3, LenProperties
  <1>5. \A i \in 1 .. m : cases[i] \in STRING
    BY <1>4, ElementOfSeq
  <1>6. PICK first : first = SubSeq(cases, 1, m)
    OBVIOUS
  <1>7. first \in Seq(STRING)
    BY <1>4, <1>5, <1>6, SubSeqProperties
  <1>8. Matched(section) = first
    BY <1>2, <1>3, <1>6 DEF Matched
  <1>9. Len(first) \in Nat /\ \A i \in 1 .. Len(first) : first[i] \in STRING
    BY <1>7, LenProperties, ElementOfSeq
  <1>10. \A i \in 1 .. Len(first) : <<first[i], Verified(answer, first[i])>> \in CaseRows
    BY <1>9 DEF CaseRows, Verified
  <1>11. Precedent(section, answer) = [i \in 1 .. Len(first) |-> <<first[i], Verified(answer, first[i])>>]
    BY <1>8 DEF Precedent
  <1> QED
    BY <1>9, <1>10, <1>11

LEMMA ProvisionsFit ==
    ASSUME NEW flagged \in Nat, NEW answers \in [1 .. flagged -> SectionAnswers], NEW lookup
    PROVE  ResultFits(Provisions(answers, lookup))
  <1>1. CASE Malformed \in ToSet(answers)
    BY <1>1, SimpleResultsFit DEF Provisions
  <1>2. CASE Malformed \notin ToSet(answers)
    <2>1. \A i \in 1 .. flagged : answers[i] # Malformed
      BY <1>2 DEF ToSet
    <2>2. \A i \in 1 .. flagged : answers[i] \in {NoAnswer} \cup ProvisionRows
      BY <2>1, AnalysisAssumption DEF ProvisionRows
    <2>3. answers \in [1 .. flagged -> {NoAnswer} \cup ProvisionRows]
      BY <2>2
    <2>4. PICK unique \in Seq(ProvisionRows) : unique = FirstOfEach(answers)
      BY <2>3, FirstTyped
    <2>5. Len(unique) \in Nat /\ \A i \in 1 .. Len(unique) : unique[i] \in ProvisionRows
      BY LenProperties, ElementOfSeq
    <2>6. \A i \in 1 .. Len(unique) : Precedent(unique[i].section, lookup) \in Seq(CaseRows)
      BY <2>5, PrecedentTyped DEF ProvisionRows
    <2>7. PICK cases : cases = [i \in 1 .. Len(unique) |-> Precedent(unique[i].section, lookup)]
      OBVIOUS
    <2>8. cases \in Seq(Seq(CaseRows))
      BY <2>5, <2>6, <2>7
    <2>9. unique = <<>> => cases = <<>>
      BY <2>5, <2>7
    <2>10. Provisions(answers, lookup) = Verdict(unique, cases)
      BY <1>2, <2>4, <2>7 DEF Provisions
    <2> QED
      BY <2>8, <2>9, <2>10, VerdictFits
  <1> QED
    BY <1>1, <1>2

LEMMA ResultsFit ==
    ASSUME NEW l \in AnalysedLeads, NEW result \in ResultsFor[l]
    PROVE  ResultFits(result)
  <1>1. ASSUME NEW r \in Screened PROVE ResultFits(r)
    <2>1. CASE \/ r \in {Failed, Gate("non_english"), Verdict(<<>>, <<>>)} \/ r = NoSource
      BY <2>1, SimpleResultsFit
    <2>2. CASE \E flagged \in FlaggedSections :
                  \E answers \in [1 .. flagged -> SectionAnswers], lookup \in Lookups :
                     r = Provisions(answers, lookup)
      <3>1. FlaggedSections \subseteq Nat
        BY AnalysisAssumption, FS_CardinalityType DEF FlaggedSections
      <3> QED
        BY <2>2, <3>1, ProvisionsFit
    <2> QED
      BY <1>1, <2>1, <2>2 DEF Screened
  <1>2. ASSUME NEW r \in PolicyResults PROVE ResultFits(r)
    <2>1. \A text \in DOMAIN GateOf : GateOf[text] \in {"no_content", "extraction_failed", "non_english"}
      BY DEF GateOf
    <2>2. r \in {NoSource, Failed} \cup {Gate(GateOf[text]) : text \in DOMAIN GateOf} \cup Screened
      BY <1>2 DEF PolicyResults
    <2> QED
      BY <1>1, <2>1, <2>2, SimpleResultsFit
  <1>3. ASSUME NEW r \in IncidentResults PROVE ResultFits(r)
    <2>1. r = NoSource \/ r \in IncidentAnswers
      BY <1>3 DEF IncidentResults
    <2> QED
      BY <2>1, SimpleResultsFit DEF IncidentAnswers
  <1>4. result \in {NoSource} \cup PolicyResults \cup IncidentResults
    BY DEF ResultsFor
  <1> QED
    BY <1>2, <1>3, <1>4, SimpleResultsFit

(* An analysis of the loop, as far as the proofs look at it.                  *)
AnalysisFits(analysis) ==
    \A i \in 1 .. Len(analysis.provisions) : analysis.provisions[i].severity \in Int

CitationsFit(citations) ==
    /\ citations = [sources |-> citations.sources, analysed |-> citations.analysed, list |-> citations.list]
    /\ citations.sources \subseteq Matchings

IsRow(row) ==
    row = [status |-> row.status, severity |-> row.severity, analysis |-> row.analysis,
           citations |-> row.citations]

RowFits(row) ==
    /\ IsRow(row)
    /\ row.status \in Statuses /\ row.severity \in 0 .. 4
    /\ AnalysisFits(row.analysis) /\ CitationsFit(row.citations)

(* The status and the analysis of a row go together.                          *)
Spoken(row) ==
    /\ row.status = "pending" => row.analysis = NoAnalysis
    /\ row.status \in Analysed \cup Gated => row.analysis.status = row.status

(* What an execution did to the status and the analysis that it loaded: both  *)
(* stay, both change, or the status says that there is no analysis. An UPDATE *)
(* then sets both or none, and no mixture with another execution can arise.   *)
Turns(loaded, work) ==
    \/ work.status = loaded.status /\ work.analysis = loaded.analysis
    \/ work.status # loaded.status /\ work.status \in {"no_source_material", "failed"}
    \/ /\ work.status # loaded.status /\ work.analysis # loaded.analysis
       /\ work.analysis.status = work.status /\ work.status # "pending"

WorkFits(l, loaded, work) ==
    /\ RowFits(work)
    /\ OneStory(l, loaded) => OneStory(l, work)
    /\ Turns(loaded, work)

(* OneStory with the sections and the severities of the provisions named.     *)
StoryOf(l, row, sections, severities) ==
    /\ row.citations.analysed = (row.status \in Analysed)
    /\ sections = {} => row.citations.list = <<>>
    /\ \A s \in sections : \E i \in 1 .. Len(row.citations.list) : row.citations.list[i][1] = s
    /\ \E base \in IF row.status = "not_actionable" THEN {0}
                   ELSE IF severities = {} THEN {FirstSeverity[l]} ELSE severities :
          (\A s \in severities : s <= base) /\ RaisedFrom(l, base, row.severity)
    /\ row.status = "not_actionable" => sections = {}
    /\ row.status \notin Analysed => sections = {}

(* The story of a row without provisions.                                     *)
LEMMA PlainStory ==
    ASSUME NEW l, NEW row, row.analysis.provisions = <<>>
    PROVE  OneStory(l, row) <=>
              /\ row.citations.analysed = (row.status \in Analysed)
              /\ row.citations.list = <<>>
              /\ RaisedFrom(l, IF row.status = "not_actionable" THEN 0 ELSE FirstSeverity[l], row.severity)
  <1>1. 1 .. Len(row.analysis.provisions) = {}
    BY EmptySeq
  <1> QED
    BY <1>1 DEF OneStory

(* The story of a row without a verdict.                                      *)
LEMMA UnanalysedStory ==
    ASSUME NEW l, NEW row, row.analysis.provisions = <<>>, row.status \notin Analysed
    PROVE  OneStory(l, row) <=> /\ row.citations.analysed = FALSE /\ row.citations.list = <<>>
                                /\ RaisedFrom(l, FirstSeverity[l], row.severity)
  <1>1. row.status # "not_actionable" /\ (row.status \in Analysed) = FALSE
    BY DEF Analysed
  <1> QED
    BY <1>1, PlainStory

LEMMA FirstRowFits ==
    ASSUME NEW l \in AnalysedLeads
    PROVE  RowFits(FirstRow(l)) /\ Spoken(FirstRow(l)) /\ OneStory(l, FirstRow(l))
  <1>1. PICK f : f = FirstRow(l)
    OBVIOUS
  <1>2. /\ f.status = "pending" /\ f.severity = FirstSeverity[l] /\ f.analysis = NoAnalysis
        /\ f.citations = NoCitations /\ FirstSeverity[l] \in 0 .. 4 /\ IsRow(f)
    BY <1>1, AnalysisAssumption DEF FirstRow, IsRow
  <1>3. NoAnalysis.provisions = <<>> /\ 1 .. Len(NoAnalysis.provisions) = {}
    BY EmptySeq DEF NoAnalysis
  <1>4. RowFits(f) /\ Spoken(f)
    BY <1>2, <1>3 DEF RowFits, AnalysisFits, CitationsFit, NoCitations, Statuses, Spoken, Analysed, Gated
  <1>5. OneStory(l, f)
    <2>1. RaisedFrom(l, FirstSeverity[l], f.severity)
      BY <1>2 DEF RaisedFrom
    <2>2. f.citations.analysed = FALSE /\ f.citations.list = <<>>
      BY <1>2 DEF NoCitations
    <2>3. f.analysis.provisions = <<>> /\ f.status # "not_actionable" /\ f.status \notin Analysed
      BY <1>2, <1>3 DEF Analysed
    <2> QED
      BY <2>1, <2>2, <2>3, UnanalysedStory
  <1> QED
    BY <1>1, <1>4, <1>5

(* The answers to a pending lead. A verdict takes the severity, the analysis  *)
(* and the citations from the same provisions, every other answer leaves the  *)
(* severity and cites nothing.                                                *)
LEMMA ResultsSettle ==
    ASSUME NEW l \in AnalysedLeads, NEW f, RowFits(f), Spoken(f), f.status = "pending",
           NEW result, ResultFits(result), ~Breaks(result)
    PROVE  WorkFits(l, f, Written(f, result))
  <1>1. PICK w : w = Written(f, result)
    OBVIOUS
  <1>2. /\ f.analysis = NoAnalysis /\ NoAnalysis.provisions = <<>> /\ NoAnalysis.status = "none"
        /\ IsRow(f) /\ f.severity \in 0 .. 4 /\ FirstSeverity[l] \in 0 .. 4
        /\ AnalysisFits(f.analysis) /\ CitationsFit(f.citations)
    BY AnalysisAssumption DEF RowFits, Spoken, NoAnalysis
  <1>3. ASSUME OneStory(l, f)
        PROVE  /\ f.citations.analysed = FALSE /\ f.citations.list = <<>>
               /\ RaisedFrom(l, FirstSeverity[l], f.severity)
    <2>1. f.analysis.provisions = <<>> /\ f.status # "not_actionable" /\ f.status \notin Analysed
      BY <1>2 DEF Analysed
    <2> QED
      BY <1>3, <2>1, UnanalysedStory
  <1>4. CASE result.kind = "none" \/ result.kind = "raised"
    <2>1. PICK g \in {"no_source_material", "failed"} : w = [f EXCEPT !.status = g]
      BY <1>1, <1>4 DEF Written
    <2>2. /\ w.status = g /\ w.severity = f.severity /\ w.analysis = f.analysis
          /\ w.citations = f.citations /\ IsRow(w)
      BY <1>2, <2>1 DEF IsRow
    <2>3. OneStory(l, f) => OneStory(l, w)
      BY <1>2, <1>3, <2>2, PlainStory DEF Analysed
    <2>4. RowFits(w)
      BY <1>2, <2>2 DEF RowFits, Statuses
    <2>5. Turns(f, w)
      BY <2>2 DEF Turns
    <2> QED
      BY <1>1, <2>3, <2>4, <2>5 DEF WorkFits
  <1>5. CASE result.kind = "gate"
    <2>1. PICK g \in {"no_content", "extraction_failed", "non_english"} : result.status = g
      BY <1>5 DEF ResultFits
    <2>2. PICK analysis : analysis = [status |-> g, provisions |-> <<>>]
      OBVIOUS
    <2>3. w = [f EXCEPT !.status = g, !.analysis = analysis]
      BY <1>1, <1>5, <2>1, <2>2 DEF Written
    <2>4. /\ w.status = g /\ w.severity = f.severity /\ w.citations = f.citations
          /\ w.analysis = analysis /\ IsRow(w)
      BY <1>2, <2>3 DEF IsRow
    <2>5. analysis.status = g /\ analysis.provisions = <<>> /\ analysis # NoAnalysis
      BY <2>2 DEF NoAnalysis
    <2>6. OneStory(l, f) => OneStory(l, w)
      <3> SUFFICES ASSUME OneStory(l, f) PROVE OneStory(l, w)
        OBVIOUS
      <3>1. /\ w.citations.analysed = FALSE /\ w.citations.list = <<>>
            /\ RaisedFrom(l, FirstSeverity[l], w.severity)
        BY <1>3, <2>4
      <3>2. w.analysis.provisions = <<>> /\ w.status # "not_actionable" /\ w.status \notin Analysed
        BY <2>4, <2>5 DEF Analysed
      <3> QED
        BY <3>1, <3>2, UnanalysedStory
    <2>7. AnalysisFits(analysis)
      BY <2>5, EmptySeq DEF AnalysisFits
    <2>8. RowFits(w)
      BY <1>2, <2>4, <2>7 DEF RowFits, Statuses
    <2>9. Turns(f, w)
      BY <1>2, <2>4, <2>5 DEF Turns
    <2> QED
      BY <1>1, <2>6, <2>8, <2>9 DEF WorkFits
  <1>6. CASE result.kind = "verdict"
    <2>1. PICK provisions \in Seq(ProvisionRows) : provisions = result.provisions
      BY <1>6 DEF ResultFits
    <2>2. PICK cases \in Seq(Seq(CaseRows)) : cases = result.cases
      BY <1>6 DEF ResultFits
    <2>3. PICK g \in {"completed", "not_actionable"} : g = result.status
      BY <1>6 DEF ResultFits
    <2>4. (g = "not_actionable" => provisions = <<>>) /\ (provisions = <<>> => cases = <<>>)
      BY <1>6, <2>1, <2>2, <2>3 DEF ResultFits
    <2>5. PICK cited : cited = [i \in 1 .. Len(provisions) |-> <<provisions[i].section, TRUE>>]
      OBVIOUS
    <2>6. Len(provisions) \in Nat /\ \A i \in 1 .. Len(provisions) : provisions[i] \in ProvisionRows
      BY LenProperties, ElementOfSeq
    <2>7. PICK list : list = cited \o FlattenSeq(cases)
      OBVIOUS
    <2>8. Citations(result) = list
      BY <2>1, <2>2, <2>5, <2>7 DEF Citations
    <2>9. \A i \in 1 .. Len(provisions) :
             \E j \in 1 .. Len(list) : list[j][1] = provisions[i].section
      <3>1. PICK S : S = CaseRows \cup (Sections \X {TRUE})
        OBVIOUS
      <3>2. FlattenSeq(cases) \in Seq(S)
        <4>1. FlattenSeq(cases) \in Seq(CaseRows)
          BY FlatTyped
        <4> QED
          BY <3>1, <4>1, SeqMonotonic
      <3>3. cited \in Seq(S) /\ Len(cited) = Len(provisions)
        <4>1. \A i \in 1 .. Len(provisions) : <<provisions[i].section, TRUE>> \in S
          BY <2>6, <3>1 DEF ProvisionRows
        <4>2. PICK n \in Nat : n = Len(provisions)
          BY <2>6
        <4>3. cited \in [1 .. n -> S]
          BY <2>5, <4>1, <4>2
        <4>4. cited \in Seq(S) /\ Len(cited) = n
          BY <4>2, <4>3, SeqDef
        <4> QED
          BY <4>2, <4>4
      <3>4. PICK flat \in Seq(S) : flat = FlattenSeq(cases)
        BY <3>2
      <3>5. /\ Len(list) = Len(cited) + Len(flat) /\ Len(flat) \in Nat
            /\ \A i \in 1 .. Len(cited) + Len(flat) :
                  list[i] = IF i <= Len(cited) THEN cited[i] ELSE flat[i - Len(cited)]
        BY <2>7, <3>3, <3>4, ConcatProperties, LenProperties
      <3> SUFFICES ASSUME NEW i \in 1 .. Len(provisions)
                   PROVE  i \in 1 .. Len(list) /\ list[i][1] = provisions[i].section
        OBVIOUS
      <3>6. i \in 1 .. Len(cited) + Len(flat) /\ i <= Len(cited)
        BY <2>6, <3>3, <3>5
      <3>7. list[i] = cited[i] /\ i \in 1 .. Len(list)
        BY <3>5, <3>6
      <3>8. cited[i] = <<provisions[i].section, TRUE>>
        BY <2>5
      <3> QED
        BY <3>7, <3>8
    <2>10. provisions = <<>> => list = <<>>
      <3> SUFFICES ASSUME provisions = <<>> PROVE list = <<>>
        OBVIOUS
      <3>1. cases = <<>>
        BY <2>4
      <3>2. FlattenSeq(cases) = <<>>
        BY <3>1, FlatTyped
      <3>3. cited = <<>>
        BY <2>5, EmptySeq
      <3> QED
        BY <2>7, <3>2, <3>3, ConcatEmptySeq, EmptySeq
    <2>11. PICK severity : severity = IF g = "not_actionable" THEN 0
                                      ELSE IF provisions = <<>> THEN f.severity ELSE MaxSeverity(provisions)
      OBVIOUS
    <2>12. PICK analysis : analysis = [status |-> g, provisions |-> provisions]
      OBVIOUS
    <2>13. PICK citations : citations = [sources |-> {}, analysed |-> TRUE, list |-> list]
      OBVIOUS
    <2>14. w = [status |-> g, severity |-> severity, analysis |-> analysis, citations |-> citations]
      BY <1>1, <1>6, <2>1, <2>3, <2>8, <2>11, <2>12, <2>13 DEF Written
    <2>15. /\ w.status = g /\ w.severity = severity /\ w.citations = citations
           /\ w.analysis = analysis /\ IsRow(w)
      BY <2>14 DEF IsRow
    <2>16. analysis.status = g /\ analysis.provisions = provisions /\ analysis # NoAnalysis
      BY <2>12 DEF NoAnalysis
    <2>17. citations.analysed = TRUE /\ citations.list = list /\ CitationsFit(citations)
      BY <2>13 DEF CitationsFit
    <2>18. Turns(f, w)
      BY <1>2, <2>15, <2>16 DEF Turns
    <2>19. AnalysisFits(analysis)
      BY <2>6, <2>16 DEF AnalysisFits, ProvisionRows, Unhashable
    <2>20. ASSUME severity \in 0 .. 4 PROVE RowFits(w)
      BY <2>15, <2>17, <2>19, <2>20 DEF RowFits, Statuses
    <2>21. CASE provisions = <<>>
      <3>1. severity = IF g = "not_actionable" THEN 0 ELSE f.severity
        BY <2>11, <2>21
      <3>2. list = <<>> /\ severity \in 0 .. 4
        BY <1>2, <2>10, <2>21, <3>1
      <3>3. OneStory(l, f) => OneStory(l, w)
        <4> SUFFICES ASSUME OneStory(l, f) PROVE OneStory(l, w)
          OBVIOUS
        <4>1. RaisedFrom(l, IF w.status = "not_actionable" THEN 0 ELSE FirstSeverity[l], w.severity)
          BY <1>3, <2>15, <3>1 DEF RaisedFrom
        <4> QED
          BY <2>15, <2>16, <2>17, <2>21, <3>2, <4>1, PlainStory DEF Analysed
      <3> QED
        BY <1>1, <2>18, <2>20, <3>2, <3>3 DEF WorkFits
    <2>22. CASE provisions # <<>>
      <3>1. g = "completed" /\ severity = MaxSeverity(provisions)
        BY <2>4, <2>11, <2>22
      <3>2. provisions \in Seq([section : Sections, severity : 0 .. 4])
        <4>1. \A i \in 1 .. Len(provisions) : provisions[i].severity # 5
          BY <2>1 DEF Breaks, Unhashable
        <4>2. \A i \in 1 .. Len(provisions) : provisions[i] \in [section : Sections, severity : 0 .. 4]
          BY <2>6, <4>1 DEF ProvisionRows, Unhashable
        <4>3. PICK n, R : n = Len(provisions) /\ R = [section : Sections, severity : 0 .. 4]
          OBVIOUS
        <4>4. n \in Nat /\ provisions \in [1 .. n -> R]
          BY <2>6, <4>2, <4>3, LenProperties
        <4>5. provisions \in Seq(R)
          BY <4>4, SeqDef
        <4> QED
          BY <4>3, <4>5
      <3>3. /\ severity \in 0 .. 4
            /\ \E i \in 1 .. Len(provisions) : provisions[i].severity = severity
            /\ \A i \in 1 .. Len(provisions) : provisions[i].severity <= severity
        BY <2>22, <3>1, <3>2, HighestSeverity
      <3>4. PICK sections : sections = {provisions[i].section : i \in 1 .. Len(provisions)}
        OBVIOUS
      <3>5. PICK severities : severities = {provisions[i].severity : i \in 1 .. Len(provisions)}
        OBVIOUS
      <3>6. severity \in severities /\ \A s \in severities : s <= severity
        BY <3>3, <3>5
      <3>7. \A s \in sections : \E i \in 1 .. Len(list) : list[i][1] = s
        BY <2>9, <3>4
      <3>8. sections # {} /\ severities # {}
        BY <3>3, <3>4, <3>5
      <3>9. OneStory(l, w)
        <4>1. /\ w.status = "completed" /\ w.severity = severity /\ w.citations.list = list
              /\ w.citations.analysed = TRUE /\ w.analysis.provisions = provisions
          BY <2>15, <2>16, <2>17, <3>1
        <4>2. /\ sections = {w.analysis.provisions[i].section : i \in 1 .. Len(w.analysis.provisions)}
              /\ severities = {w.analysis.provisions[i].severity : i \in 1 .. Len(w.analysis.provisions)}
          BY <3>4, <3>5, <4>1
        <4>3. \E base \in IF w.status = "not_actionable" THEN {0}
                          ELSE IF severities = {} THEN {FirstSeverity[l]} ELSE severities :
                 (\A s \in severities : s <= base) /\ RaisedFrom(l, base, w.severity)
          <5>1. RaisedFrom(l, severity, w.severity)
            BY <4>1 DEF RaisedFrom
          <5> QED
            BY <3>6, <3>8, <4>1, <5>1
        <4>4. /\ w.citations.analysed = (w.status \in Analysed)
              /\ w.status # "not_actionable" /\ ~(w.status \notin Analysed)
          BY <4>1 DEF Analysed
        <4> QED
          BY <3>7, <3>8, <4>1, <4>2, <4>3, <4>4 DEF OneStory
      <3> QED
        BY <1>1, <2>18, <2>20, <3>3, <3>9 DEF WorkFits
    <2> QED
      BY <2>21, <2>22
  <1>7. result.kind # "error"
    BY DEF Breaks
  <1> QED
    BY <1>4, <1>5, <1>6, <1>7 DEF ResultFits

(* An event merged into a lead leaves its status and its analysis, and raises *)
(* the severity of its story to one that an event of the matching has.        *)
LEMMA MergeSettles ==
    ASSUME NEW m \in Matchings, NEW l \in DOMAIN Brings[m], NEW f, RowFits(f), NEW sourced \in BOOLEAN
    PROVE  WorkFits(l, f, Merged(f, m, l, sourced))
  <1>1. PICK w : w = Merged(f, m, l, sourced)
    OBVIOUS
  <1>2. PICK brought : brought = Brings[m][l]
    OBVIOUS
  <1>3. brought \in 0 .. 4 /\ l \in AnalysedLeads /\ FirstSeverity[l] \in 0 .. 4
    BY <1>2, AnalysisAssumption
  <1>4. PICK c : c = f.citations
    OBVIOUS
  <1>5. PICK sources, citations :
           /\ sources = IF sourced THEN c.sources \cup {m} ELSE c.sources
           /\ citations = [c EXCEPT !.sources = sources]
    OBVIOUS
  <1>6. CitationsFit(c) /\ IsRow(f) /\ f.severity \in 0 .. 4 /\ f.status \in Statuses
        /\ AnalysisFits(f.analysis)
    BY <1>4 DEF RowFits
  <1>7. PICK severity : severity = IF brought > f.severity THEN brought ELSE f.severity
    OBVIOUS
  <1>8. w = [f EXCEPT !.severity = severity, !.citations = citations]
    BY <1>1, <1>2, <1>4, <1>5, <1>6, <1>7 DEF Merged, IsRow, CitationsFit
  <1>9. /\ w.status = f.status /\ w.analysis = f.analysis /\ w.severity = severity
        /\ w.citations = citations /\ IsRow(w)
    BY <1>6, <1>8 DEF IsRow
  <1>10. CitationsFit(citations) /\ citations.analysed = c.analysed /\ citations.list = c.list
    <2>1. citations = [sources |-> sources, analysed |-> c.analysed, list |-> c.list]
      BY <1>5, <1>6 DEF CitationsFit
    <2>2. sources \subseteq Matchings
      BY <1>5, <1>6 DEF CitationsFit
    <2> QED
      BY <2>1, <2>2 DEF CitationsFit
  <1>11. RowFits(w) /\ Turns(f, w)
    BY <1>3, <1>6, <1>7, <1>9, <1>10 DEF RowFits, Turns
  <1>12. ASSUME OneStory(l, f) PROVE OneStory(l, w)
    <2>1. PICK sections : sections = {f.analysis.provisions[i].section : i \in 1 .. Len(f.analysis.provisions)}
      OBVIOUS
    <2>2. PICK severities :
             severities = {f.analysis.provisions[i].severity : i \in 1 .. Len(f.analysis.provisions)}
      OBVIOUS
    <2>3. \A s \in severities : s \in Int
      BY <1>6, <2>2 DEF AnalysisFits
    <2>4. PICK base \in IF f.status = "not_actionable" THEN {0}
                        ELSE IF severities = {} THEN {FirstSeverity[l]} ELSE severities :
             (\A s \in severities : s <= base) /\ RaisedFrom(l, base, f.severity)
      BY <1>12, <2>2 DEF OneStory
    <2>5. base \in Int
      BY <1>3, <2>3, <2>4
    <2>6. RaisedFrom(l, base, severity)
      <3>1. CASE brought > f.severity
        <4>1. severity = brought /\ severity > base
          BY <1>3, <1>6, <1>7, <2>4, <2>5, <3>1 DEF RaisedFrom
        <4> QED
          BY <1>2, <4>1 DEF RaisedFrom
      <3>2. CASE ~(brought > f.severity)
        BY <1>7, <2>4, <3>2
      <3> QED
        BY <3>1, <3>2
    <2>7. /\ sections = {w.analysis.provisions[i].section : i \in 1 .. Len(w.analysis.provisions)}
          /\ severities = {w.analysis.provisions[i].severity : i \in 1 .. Len(w.analysis.provisions)}
      BY <1>9, <2>1, <2>2
    <2>8. \E b \in IF w.status = "not_actionable" THEN {0}
                   ELSE IF severities = {} THEN {FirstSeverity[l]} ELSE severities :
             (\A s \in severities : s <= b) /\ RaisedFrom(l, b, w.severity)
      BY <1>9, <2>4, <2>6
    <2>9. /\ f.citations.analysed = (f.status \in Analysed)
          /\ sections = {} => f.citations.list = <<>>
          /\ \A s \in sections : \E i \in 1 .. Len(f.citations.list) : f.citations.list[i][1] = s
          /\ f.status = "not_actionable" => sections = {}
          /\ f.status \notin Analysed => sections = {}
      BY <1>12, <2>1 DEF OneStory
    <2>10. /\ w.citations.analysed = (w.status \in Analysed)
           /\ sections = {} => w.citations.list = <<>>
           /\ \A s \in sections : \E i \in 1 .. Len(w.citations.list) : w.citations.list[i][1] = s
           /\ w.status = "not_actionable" => sections = {}
           /\ w.status \notin Analysed => sections = {}
      BY <1>4, <1>9, <1>10, <2>9
    <2> QED
      <3>1. StoryOf(l, w, sections, severities)
        BY <2>8, <2>10 DEF StoryOf
      <3>2. OneStory(l, w) <=> StoryOf(l, w, {w.analysis.provisions[i].section : i \in 1 .. Len(w.analysis.provisions)},
                                             {w.analysis.provisions[i].severity : i \in 1 .. Len(w.analysis.provisions)})
        BY DEF OneStory, StoryOf
      <3> QED
        BY <2>7, <3>1, <3>2
  <1> QED
    BY <1>1, <1>11, <1>12 DEF WorkFits

-----------------------------------------------------------------------------
(* The executions *)

(* The leads that an execution still goes through: what an analysis loaded,   *)
(* what the events of a matching are about.                                   *)
Ahead(s, run) == IF s \in Analyses THEN DOMAIN run.loaded ELSE DOMAIN Brings[s]

IsRun(run) ==
    run = [tries |-> run.tries, stage |-> run.stage, todo |-> run.todo, loaded |-> run.loaded,
           work |-> run.work, held |-> run.held]

RunFits(s, run) ==
    /\ IsRun(run)
    /\ run.tries \in 0 .. MaxAnalysisTries /\ run.stage \in {"queued", "asking", "done", "lost"}
    /\ run.stage # "asking" => DOMAIN run.loaded = {}
    /\ run.held \subseteq DOMAIN run.work
    /\ run.todo \in Seq(Ahead(s, run))
    /\ DOMAIN run.work \subseteq DOMAIN run.loaded /\ DOMAIN run.loaded \subseteq AnalysedLeads
    /\ \A l \in DOMAIN run.loaded : RowFits(run.loaded[l]) /\ Spoken(run.loaded[l])
    /\ s \in Analyses => \A l \in DOMAIN run.loaded : run.loaded[l].status = "pending"
    /\ \A l \in DOMAIN run.work : WorkFits(l, run.loaded[l], run.work[l])

LeadFits(l, row, written) ==
    /\ RowFits(row) /\ Spoken(row)
    /\ l \notin written => OneStory(l, row)

(* What an execution writes keeps the story of the row that it loaded, so the *)
(* story of a lead survives every commit from a copy that is up to date; and  *)
(* it turns the status and the analysis together, so those two go together    *)
(* whatever copy a commit was made from.                                      *)
AnalysisInv ==
    /\ rows = [l \in AnalysedLeads |-> rows[l]] /\ sessions = [s \in Sessions |-> sessions[s]]
    /\ \A l \in AnalysedLeads : LeadFits(l, rows[l], stale)
    /\ \A s \in Sessions : RunFits(s, sessions[s])
    /\ stale \subseteq AnalysedLeads /\ faults \in 0 .. MaxFaults

LEMMA WaitingFits ==
    ASSUME NEW s, NEW tries \in 0 .. MaxAnalysisTries, NEW g \in {"queued", "asking", "done", "lost"}
    PROVE  RunFits(s, Waiting(tries)) /\ RunFits(s, Ended(tries, g))
  <1>1. PICK e : e = <<>>
    OBVIOUS
  <1>2. DOMAIN e = {} /\ \A S : e \in Seq(S)
    BY <1>1, EmptySeq
  <1>3. ASSUME NEW h \in {"queued", "asking", "done", "lost"},
               NEW run, run = [tries |-> tries, stage |-> h, todo |-> e, loaded |-> e, work |-> e, held |-> {}]
        PROVE  RunFits(s, run)
    <2>1. run.todo \in Seq(Ahead(s, run))
      BY <1>2, <1>3
    <2> QED
      BY <1>2, <1>3, <2>1 DEF RunFits, IsRun
  <1>4. Waiting(tries) = [tries |-> tries, stage |-> "queued", todo |-> e, loaded |-> e, work |-> e,
                          held |-> {}]
    BY <1>1 DEF Waiting
  <1>5. Ended(tries, g) = [tries |-> tries, stage |-> g, todo |-> e, loaded |-> e, work |-> e,
                           held |-> {}]
    <2>1. PICK w : w = Waiting(tries)
      OBVIOUS
    <2>2. Ended(tries, g) = [w EXCEPT !.stage = g]
      BY <2>1 DEF Ended
    <2> QED
      BY <1>4, <2>1, <2>2
  <1> QED
    BY <1>3, <1>4, <1>5

(* A retry is another message or the end.                                     *)
LEMMA RetriedFits ==
    ASSUME NEW s, NEW run, RunFits(s, run)
    PROVE  RunFits(s, Retried(run))
  <1>1. run.tries \in 0 .. MaxAnalysisTries /\ MaxAnalysisTries \in Nat
    BY AnalysisAssumption DEF RunFits
  <1>2. CASE run.tries < MaxAnalysisTries
    <2>1. PICK n \in 0 .. MaxAnalysisTries : n = run.tries + 1
      BY <1>1, <1>2
    <2>2. Retried(run) = Waiting(n)
      BY <1>2, <2>1 DEF Retried
    <2> QED
      BY <2>2, WaitingFits
  <1>3. CASE ~(run.tries < MaxAnalysisTries)
    <2>1. Retried(run) = Ended(run.tries, "lost")
      BY <1>3 DEF Retried
    <2> QED
      BY <1>1, <2>1, WaitingFits
  <1> QED
    BY <1>2, <1>3

(* One execution moves on without a commit.                                   *)
LEMMA RunMoves ==
    ASSUME AnalysisInv, NEW s \in Sessions, NEW run, RunFits(s, run), Sets(s, run),
           faults' \in 0 .. MaxFaults
    PROVE  AnalysisInv'
  <1>1. UNCHANGED <<rows, stale>> /\ sessions' = [sessions EXCEPT ![s] = run]
    BY DEF Sets
  <1>2. /\ sessions' = [t \in Sessions |-> sessions'[t]]
        /\ sessions'[s] = run /\ \A t \in Sessions \ {s} : sessions'[t] = sessions[t]
    BY <1>1 DEF AnalysisInv
  <1>3. \A t \in Sessions : RunFits(t, sessions'[t])
    BY <1>2 DEF AnalysisInv
  <1>4. \A l \in AnalysedLeads : LeadFits(l, rows'[l], stale')
    BY <1>1 DEF AnalysisInv
  <1>5. rows' = [l \in AnalysedLeads |-> rows'[l]] /\ stale' \subseteq AnalysedLeads
    BY <1>1 DEF AnalysisInv
  <1> QED
    BY <1>2, <1>3, <1>4, <1>5 DEF AnalysisInv

(* The fields of an execution that a step changes.                            *)
LEMMA RunFields ==
    ASSUME NEW s, NEW run, RunFits(s, run)
    PROVE  /\ DOMAIN run.loaded = {} => RunFits(s, [run EXCEPT !.stage = "done"])
           /\ \A t \in Seq(Ahead(s, run)) : RunFits(s, [run EXCEPT !.todo = t])
           /\ \A h \in SUBSET DOMAIN run.work : RunFits(s, [run EXCEPT !.held = h])
  <1>1. ASSUME DOMAIN run.loaded = {}
        PROVE  RunFits(s, [run EXCEPT !.stage = "done"])
    <2>1. PICK r : r = [run EXCEPT !.stage = "done"]
      OBVIOUS
    <2>2. /\ r.tries = run.tries /\ r.stage = "done" /\ r.todo = run.todo /\ r.loaded = run.loaded
          /\ r.work = run.work /\ r.held = run.held /\ IsRun(r) /\ Ahead(s, r) = Ahead(s, run)
      BY <2>1 DEF RunFits, IsRun, Ahead
    <2>3. RunFits(s, r)
      BY <1>1, <2>2 DEF RunFits
    <2> QED
      BY <2>1, <2>3
  <1>2. ASSUME NEW t \in Seq(Ahead(s, run))
        PROVE  RunFits(s, [run EXCEPT !.todo = t])
    <2>1. PICK r : r = [run EXCEPT !.todo = t]
      OBVIOUS
    <2>2. /\ r.tries = run.tries /\ r.stage = run.stage /\ r.todo = t /\ r.loaded = run.loaded
          /\ r.work = run.work /\ r.held = run.held /\ IsRun(r) /\ Ahead(s, r) = Ahead(s, run)
      BY <2>1 DEF RunFits, IsRun, Ahead
    <2>3. RunFits(s, r)
      BY <2>2 DEF RunFits
    <2> QED
      BY <2>1, <2>3
  <1>3. ASSUME NEW h \in SUBSET DOMAIN run.work
        PROVE  RunFits(s, [run EXCEPT !.held = h])
    <2>1. PICK r : r = [run EXCEPT !.held = h]
      OBVIOUS
    <2>2. /\ r.tries = run.tries /\ r.stage = run.stage /\ r.todo = run.todo /\ r.loaded = run.loaded
          /\ r.work = run.work /\ r.held = h /\ IsRun(r) /\ Ahead(s, r) = Ahead(s, run)
      BY <2>1 DEF RunFits, IsRun, Ahead
    <2>3. RunFits(s, r)
      BY <2>2 DEF RunFits
    <2> QED
      BY <2>1, <2>3
  <1> QED
    BY <1>1, <1>2, <1>3

(* The leads of a set in any order.                                           *)
LEMMA OrderTyped ==
    ASSUME NEW S \in SUBSET AnalysedLeads, NEW order \in SetToSeqs(S)
    PROVE  order \in Seq(S)
  <1>1. IsFiniteSet(S)
    BY AnalysisAssumption, FS_Subset
  <1>2. PICK n \in Nat : n = Cardinality(S)
    BY <1>1, FS_CardinalityType
  <1>3. order \in [1 .. n -> S]
    BY <1>2 DEF SetToSeqs
  <1> QED
    BY <1>3, SeqDef

LEMMA AnalysisStartsStep ==
    ASSUME AnalysisInv, NEW a \in Analyses, AnalysisStarts(a) PROVE AnalysisInv'
  <1>1. PICK pending : pending = Pending
    OBVIOUS
  <1>2. PICK q : q = sessions[a]
    OBVIOUS
  <1>3. PICK loaded : loaded = [l \in pending |-> rows[l]]
    OBVIOUS
  <1>4. PICK g \in {"done", "asking"} : g = IF pending = {} THEN "done" ELSE "asking"
    OBVIOUS
  <1>5. PICK order \in SetToSeqs(Pending) :
           Sets(a, [sessions[a] EXCEPT !.stage = IF Pending = {} THEN "done" ELSE "asking", !.todo = order,
                                       !.loaded = [l \in Pending |-> rows[l]]])
    BY Zenon DEF AnalysisStarts
  <1>6. order \in Seq(pending)
    BY <1>1, OrderTyped DEF Pending
  <1>7. \A l \in pending : RowFits(loaded[l]) /\ Spoken(loaded[l]) /\ loaded[l].status = "pending"
    <2>1. \A l \in pending : l \in AnalysedLeads /\ rows[l].status = "pending" /\ loaded[l] = rows[l]
      BY <1>1, <1>3 DEF Pending
    <2> QED
      BY <2>1 DEF AnalysisInv, LeadFits
  <1>8. a \in Sessions
    BY DEF Sessions
  <1>9. RunFits(a, q) /\ q.stage = "queued"
    BY <1>2, <1>8 DEF AnalysisInv, AnalysisStarts
  <1>10. DOMAIN q.work = {}
    BY <1>9 DEF RunFits
  <1>11. PICK run : run = [q EXCEPT !.stage = g, !.todo = order, !.loaded = loaded]
    OBVIOUS
  <1>12. /\ run.tries = q.tries /\ run.stage = g /\ run.todo = order /\ run.loaded = loaded
         /\ run.work = q.work /\ run.held = q.held /\ IsRun(run)
    BY <1>9, <1>11 DEF RunFits, IsRun
  <1>13. DOMAIN loaded = pending /\ pending \subseteq AnalysedLeads
    BY <1>1, <1>3 DEF Pending
  <1>14. run.stage # "asking" => DOMAIN loaded = {}
    BY <1>4, <1>12, <1>13
  <1>15. run.todo \in Seq(Ahead(a, run))
    BY <1>6, <1>12, <1>13 DEF Ahead
  <1>16. RunFits(a, run)
    BY <1>7, <1>9, <1>10, <1>12, <1>13, <1>14, <1>15 DEF RunFits
  <1>17. Sets(a, run)
    BY <1>1, <1>2, <1>3, <1>4, <1>5, <1>11
  <1>18. faults' \in 0 .. MaxFaults
    BY DEF AnalysisStarts, AnalysisInv
  <1> QED
    BY <1>8, <1>16, <1>17, <1>18, RunMoves

LEMMA SkipsStep ==
    ASSUME AnalysisInv, NEW s \in Sessions, Skips(s) PROVE AnalysisInv'
  <1>1. RunFits(s, sessions[s]) /\ sessions[s].stage = "queued"
    BY DEF AnalysisInv, Skips
  <1>2. PICK run : run = [sessions[s] EXCEPT !.stage = "done"]
    OBVIOUS
  <1>3. DOMAIN sessions[s].loaded = {}
    BY <1>1 DEF RunFits
  <1>4. RunFits(s, run)
    BY <1>1, <1>2, <1>3, RunFields
  <1>5. Sets(s, run) /\ faults' \in 0 .. MaxFaults
    BY <1>2 DEF Skips, AnalysisInv
  <1> QED
    BY <1>4, <1>5, RunMoves

(* g is f with the value v at l.                                              *)
Assigned(f, l, v, g) ==
    /\ DOMAIN g = DOMAIN f \cup {l} /\ g[l] = v
    /\ \A m \in DOMAIN f : m # l => g[m] = f[m]

LEMMA WithAssigns ==
    ASSUME NEW f, NEW l, NEW v
    PROVE  Assigned(f, l, v, With(f, l, v))
  BY DEF Assigned, With

(* A step that assigns to a lead: its work fits the row that was loaded, be   *)
(* it long ago or just now.                                                   *)
LEMMA LeadWorked ==
    ASSUME NEW s, NEW q, RunFits(s, q), q.stage = "asking", NEW l \in AnalysedLeads,
           NEW row, RowFits(row), Spoken(row), s \in Analyses => row.status = "pending",
           NEW w, WorkFits(l, row, w), NEW run, IsRun(run),
           run.tries = q.tries, run.stage = q.stage, run.held = q.held, run.todo \in Seq(Ahead(s, run)),
           Assigned(q.loaded, l, row, run.loaded), Assigned(q.work, l, w, run.work)
    PROVE  RunFits(s, run)
  <1>1. PICK work, loaded : work = run.work /\ loaded = run.loaded
    OBVIOUS
  <1>2. /\ DOMAIN work = DOMAIN q.work \cup {l} /\ DOMAIN loaded = DOMAIN q.loaded \cup {l}
        /\ work[l] = w /\ loaded[l] = row
        /\ \A m \in DOMAIN q.work : m # l => work[m] = q.work[m]
        /\ \A m \in DOMAIN q.loaded : m # l => loaded[m] = q.loaded[m]
    BY <1>1 DEF Assigned
  <1>3. \A m \in DOMAIN loaded : /\ RowFits(loaded[m]) /\ Spoken(loaded[m])
                                 /\ s \in Analyses => loaded[m].status = "pending"
    <2> SUFFICES ASSUME NEW m \in DOMAIN loaded
                 PROVE  /\ RowFits(loaded[m]) /\ Spoken(loaded[m])
                        /\ s \in Analyses => loaded[m].status = "pending"
      OBVIOUS
    <2>1. CASE m = l
      BY <1>2, <2>1
    <2>2. CASE m # l
      <3>1. m \in DOMAIN q.loaded /\ loaded[m] = q.loaded[m]
        BY <1>2, <2>2
      <3> QED
        BY <3>1 DEF RunFits
    <2> QED
      BY <2>1, <2>2
  <1>4. \A m \in DOMAIN work : WorkFits(m, loaded[m], work[m])
    <2> SUFFICES ASSUME NEW m \in DOMAIN work PROVE WorkFits(m, loaded[m], work[m])
      OBVIOUS
    <2>1. CASE m = l
      BY <1>2, <2>1
    <2>2. CASE m # l
      <3>1. m \in DOMAIN q.work /\ DOMAIN q.work \subseteq DOMAIN q.loaded
        BY <1>2, <2>2 DEF RunFits
      <3>2. work[m] = q.work[m] /\ loaded[m] = q.loaded[m]
        BY <1>2, <2>2, <3>1
      <3> QED
        BY <3>1, <3>2 DEF RunFits
    <2> QED
      BY <2>1, <2>2
  <1>5. DOMAIN work \subseteq DOMAIN loaded /\ DOMAIN loaded \subseteq AnalysedLeads
        /\ q.held \subseteq DOMAIN work
    BY <1>2 DEF RunFits
  <1> QED
    BY <1>1, <1>3, <1>4, <1>5 DEF RunFits

(* One answer: it settles the lead in the work of the execution, or breaks    *)
(* the loop.                                                                  *)
LEMMA AnalyseStep ==
    ASSUME AnalysisInv, NEW a \in Analyses, Analyse(a) PROVE AnalysisInv'
  <1>1. PICK q : q = sessions[a]
    OBVIOUS
  <1>2. PICK l : l = Head(q.todo)
    OBVIOUS
  <1>3. a \in Sessions
    BY DEF Sessions
  <1>4. RunFits(a, q) /\ q.stage = "asking" /\ q.todo # <<>>
    BY <1>1, <1>3 DEF AnalysisInv, Analyse
  <1>5. l \in DOMAIN q.loaded /\ Tail(q.todo) \in Seq(DOMAIN q.loaded) /\ l \in AnalysedLeads
    <2>1. q.todo \in Seq(DOMAIN q.loaded)
      BY <1>4 DEF RunFits, Ahead
    <2>2. l \in DOMAIN q.loaded /\ Tail(q.todo) \in Seq(DOMAIN q.loaded)
      BY <1>2, <1>4, <2>1, HeadTailProperties
    <2> QED
      BY <1>4, <2>2 DEF RunFits
  <1>6. PICK result \in ResultsFor[Head(sessions[a].todo)] :
           Sets(a, IF Breaks(result) THEN Retried(sessions[a])
                   ELSE [sessions[a] EXCEPT
                           !.todo = Tail(sessions[a].todo),
                           !.work = With(sessions[a].work, Head(sessions[a].todo),
                                         Written(sessions[a].loaded[Head(sessions[a].todo)], result))])
    BY Zenon DEF Analyse
  <1>7. faults' \in 0 .. MaxFaults
    BY DEF Analyse, AnalysisInv
  <1>8. result \in ResultsFor[l]
    BY <1>1, <1>2, <1>6
  <1>9. CASE Breaks(result)
    <2>1. PICK run : run = Retried(q)
      OBVIOUS
    <2>2. RunFits(a, run)
      BY <1>4, <2>1, RetriedFits
    <2>3. Sets(a, run)
      BY <1>1, <1>6, <1>9, <2>1
    <2> QED
      BY <1>3, <1>7, <2>2, <2>3, RunMoves
  <1>10. CASE ~Breaks(result)
    <2>1. PICK f : f = q.loaded[l]
      OBVIOUS
    <2>2. RowFits(f) /\ Spoken(f) /\ f.status = "pending"
      BY <1>4, <1>5, <2>1 DEF RunFits
    <2>3. PICK w : w = Written(f, result)
      OBVIOUS
    <2>4. WorkFits(l, f, w)
      BY <1>5, <1>8, <1>10, <2>2, <2>3, ResultsFit, ResultsSettle
    <2>5. PICK todo, work : todo = Tail(q.todo) /\ work = With(q.work, l, w)
      OBVIOUS
    <2>6. PICK run : run = [q EXCEPT !.todo = todo, !.work = work]
      OBVIOUS
    <2>7. Sets(a, run)
      BY <1>1, <1>2, <1>6, <1>10, <2>1, <2>3, <2>5, <2>6
    <2>8. /\ run.tries = q.tries /\ run.stage = q.stage /\ run.todo = todo /\ run.loaded = q.loaded
          /\ run.work = work /\ run.held = q.held /\ IsRun(run)
      BY <1>4, <2>6 DEF RunFits, IsRun
    <2>9. run.todo \in Seq(Ahead(a, run))
      BY <1>5, <2>5, <2>8 DEF Ahead
    <2>10. Assigned(q.loaded, l, f, run.loaded)
      BY <1>5, <2>1, <2>8 DEF Assigned
    <2>11. Assigned(q.work, l, w, run.work)
      BY <2>5, <2>8, WithAssigns
    <2>12. RunFits(a, run)
      BY <1>4, <1>5, <2>2, <2>4, <2>8, <2>9, <2>10, <2>11, LeadWorked
    <2> QED
      BY <1>3, <1>7, <2>7, <2>12, RunMoves
  <1> QED
    BY <1>9, <1>10

LEMMA MatchStartsStep ==
    ASSUME AnalysisInv, NEW m \in Matchings, MatchStarts(m) PROVE AnalysisInv'
  <1>1. PICK q : q = sessions[m]
    OBVIOUS
  <1>2. m \in Sessions /\ m \notin Analyses
    BY AnalysisAssumption DEF Sessions
  <1>3. RunFits(m, q) /\ q.stage = "queued"
    BY <1>1, <1>2 DEF AnalysisInv, MatchStarts
  <1>4. PICK order \in SetToSeqs(DOMAIN Brings[m]) :
           Sets(m, [sessions[m] EXCEPT !.stage = "asking", !.todo = order])
    BY Zenon DEF MatchStarts
  <1>5. order \in Seq(DOMAIN Brings[m])
    BY AnalysisAssumption, OrderTyped
  <1>6. PICK run : run = [q EXCEPT !.stage = "asking", !.todo = order]
    OBVIOUS
  <1>7. /\ run.tries = q.tries /\ run.stage = "asking" /\ run.todo = order /\ run.loaded = q.loaded
        /\ run.work = q.work /\ run.held = q.held /\ IsRun(run)
    BY <1>3, <1>6 DEF RunFits, IsRun
  <1>8. run.todo \in Seq(Ahead(m, run))
    BY <1>2, <1>5, <1>7 DEF Ahead
  <1>9. RunFits(m, run)
    BY <1>3, <1>7, <1>8 DEF RunFits
  <1>10. Sets(m, run) /\ faults' \in 0 .. MaxFaults
    BY <1>1, <1>4, <1>6 DEF MatchStarts, AnalysisInv
  <1> QED
    BY <1>2, <1>9, <1>10, RunMoves

(* An event is merged into the row as it is now.                              *)
LEMMA MatchEventStep ==
    ASSUME AnalysisInv, NEW m \in Matchings, MatchEvent(m) PROVE AnalysisInv'
  <1>1. PICK q : q = sessions[m]
    OBVIOUS
  <1>2. m \in Sessions /\ m \notin Analyses
    BY AnalysisAssumption DEF Sessions
  <1>3. PICK l : l = Head(q.todo)
    OBVIOUS
  <1>4. RunFits(m, q) /\ q.stage = "asking" /\ q.todo # <<>>
    BY <1>1, <1>2 DEF AnalysisInv, MatchEvent
  <1>5. l \in DOMAIN Brings[m] /\ Tail(q.todo) \in Seq(DOMAIN Brings[m])
    <2>1. q.todo \in Seq(DOMAIN Brings[m])
      BY <1>2, <1>4 DEF RunFits, Ahead
    <2> QED
      BY <1>3, <1>4, <2>1, HeadTailProperties
  <1>6. l \in AnalysedLeads
    BY <1>5, AnalysisAssumption
  <1>7. PICK row : row = rows[l]
    OBVIOUS
  <1>8. RowFits(row) /\ Spoken(row)
    BY <1>6, <1>7 DEF AnalysisInv, LeadFits
  <1>9. PICK sourced \in BOOLEAN :
           Sets(m, [sessions[m] EXCEPT
                      !.todo = Tail(sessions[m].todo),
                      !.loaded = With(sessions[m].loaded, Head(sessions[m].todo), rows[Head(sessions[m].todo)]),
                      !.work = With(sessions[m].work, Head(sessions[m].todo),
                                    Merged(rows[Head(sessions[m].todo)], m, Head(sessions[m].todo), sourced))])
    BY Zenon DEF MatchEvent
  <1>10. PICK w : w = Merged(row, m, l, sourced)
    OBVIOUS
  <1>11. WorkFits(l, row, w)
    BY <1>5, <1>8, <1>10, MergeSettles
  <1>12. PICK todo, loaded, work :
            todo = Tail(q.todo) /\ loaded = With(q.loaded, l, row) /\ work = With(q.work, l, w)
    OBVIOUS
  <1>13. PICK run : run = [q EXCEPT !.todo = todo, !.loaded = loaded, !.work = work]
    OBVIOUS
  <1>14. /\ run.tries = q.tries /\ run.stage = q.stage /\ run.todo = todo /\ run.loaded = loaded
         /\ run.work = work /\ run.held = q.held /\ IsRun(run)
    BY <1>4, <1>13 DEF RunFits, IsRun
  <1>15. run.todo \in Seq(Ahead(m, run))
    BY <1>2, <1>5, <1>12, <1>14 DEF Ahead
  <1>16. Assigned(q.loaded, l, row, run.loaded) /\ Assigned(q.work, l, w, run.work)
    BY <1>12, <1>14, WithAssigns
  <1>17. RunFits(m, run)
    BY <1>2, <1>4, <1>6, <1>8, <1>11, <1>14, <1>15, <1>16, LeadWorked
  <1>18. Sets(m, run)
    BY <1>1, <1>3, <1>7, <1>9, <1>10, <1>12, <1>13
  <1>19. faults' \in 0 .. MaxFaults
    BY DEF MatchEvent, AnalysisInv
  <1> QED
    BY <1>2, <1>17, <1>18, <1>19, RunMoves

LEMMA MatchPassesStep ==
    ASSUME AnalysisInv, NEW m \in Matchings, MatchPasses(m) PROVE AnalysisInv'
  <1>1. PICK q : q = sessions[m]
    OBVIOUS
  <1>2. m \in Sessions
    BY DEF Sessions
  <1>3. RunFits(m, q) /\ q.todo # <<>>
    BY <1>1, <1>2 DEF AnalysisInv, MatchPasses
  <1>4. PICK todo \in Seq(Ahead(m, q)) : todo = Tail(q.todo)
    BY <1>3, HeadTailProperties DEF RunFits
  <1>5. PICK run : run = [q EXCEPT !.todo = todo]
    OBVIOUS
  <1>6. RunFits(m, run)
    BY <1>3, <1>5, RunFields
  <1>7. Sets(m, run) /\ faults' \in 0 .. MaxFaults
    BY <1>1, <1>4, <1>5 DEF MatchPasses, AnalysisInv
  <1> QED
    BY <1>2, <1>6, <1>7, RunMoves

LEMMA FlushStep ==
    ASSUME AnalysisInv, NEW s \in Sessions, Flush(s) PROVE AnalysisInv'
  <1>1. PICK q : q = sessions[s]
    OBVIOUS
  <1>2. PICK l \in Unflushed(s) : Sets(s, [sessions[s] EXCEPT !.held = @ \cup {l}])
    BY DEF Flush
  <1>3. RunFits(s, q) /\ q.held \subseteq DOMAIN q.work
    BY <1>1 DEF AnalysisInv, RunFits
  <1>4. PICK h \in SUBSET DOMAIN q.work : h = q.held \cup {l}
    BY <1>1, <1>2, <1>3 DEF Unflushed
  <1>5. PICK run : run = [q EXCEPT !.held = h]
    OBVIOUS
  <1>6. RunFits(s, run)
    BY <1>3, <1>5, RunFields
  <1>7. Sets(s, run)
    <2>1. [q EXCEPT !.held = @ \cup {l}] = run
      BY <1>3, <1>4, <1>5 DEF RunFits, IsRun
    <2> QED
      BY <1>1, <1>2, <2>1
  <1>8. faults' \in 0 .. MaxFaults
    BY DEF AnalysisInv, Flush
  <1> QED
    BY <1>6, <1>7, <1>8, RunMoves

(* An execution that ends without a commit, whether it is retried, delivered  *)
(* again or over, forgets what it assigned.                                   *)
LEMMA EndsWithoutCommit ==
    ASSUME AnalysisInv, NEW s \in Sessions, Victim(s) \/ Fails(s) \/ Crash(s) PROVE AnalysisInv'
  <1>1. PICK q : q = sessions[s]
    OBVIOUS
  <1>2. RunFits(s, q)
    BY <1>1 DEF AnalysisInv
  <1>3. faults' \in 0 .. MaxFaults
    BY AnalysisAssumption DEF AnalysisInv, Victim, Fails, Crash
  <1>4. CASE Victim(s) \/ Fails(s)
    <2>1. PICK run : run = Retried(q)
      OBVIOUS
    <2>2. RunFits(s, run)
      BY <1>2, <2>1, RetriedFits
    <2>3. Sets(s, run)
      BY <1>1, <1>4, <2>1 DEF Victim, Fails
    <2> QED
      BY <1>3, <2>2, <2>3, RunMoves
  <1>5. CASE Crash(s)
    <2>1. PICK run : run = Waiting(q.tries)
      OBVIOUS
    <2>2. q.tries \in 0 .. MaxAnalysisTries
      BY <1>2 DEF RunFits
    <2>3. RunFits(s, run)
      BY <2>1, <2>2, WaitingFits
    <2>4. Sets(s, run)
      BY <1>1, <1>5, <2>1 DEF Crash
    <2> QED
      BY <1>3, <2>3, <2>4, RunMoves
  <1> QED
    BY <1>4, <1>5

LEMMA MatchBreaksStep ==
    ASSUME AnalysisInv, NEW m \in Matchings, MatchBreaks(m) PROVE AnalysisInv'
  <1>1. m \in Sessions
    BY DEF Sessions
  <1>2. sessions[m].tries \in 0 .. MaxAnalysisTries
    BY <1>1 DEF AnalysisInv, RunFits
  <1>3. PICK run : run = Ended(sessions[m].tries, "done")
    OBVIOUS
  <1>4. RunFits(m, run)
    BY <1>2, <1>3, WaitingFits
  <1>5. Sets(m, run) /\ faults' \in 0 .. MaxFaults
    BY <1>3, AnalysisAssumption DEF MatchBreaks, AnalysisInv
  <1> QED
    BY <1>1, <1>4, <1>5, RunMoves

(* The commit writes the columns that differ from the loaded row. A row that  *)
(* is still the one that was loaded becomes what the execution made of it. In *)
(* any other the status and the analysis come from one execution.             *)
LEMMA UpdatedFits ==
    ASSUME NEW l \in AnalysedLeads, NEW row, RowFits(row), Spoken(row),
           NEW loaded, RowFits(loaded), Spoken(loaded), NEW work, WorkFits(l, loaded, work),
           NEW new, new = Updated(row, loaded, work)
    PROVE  RowFits(new) /\ Spoken(new) /\ (row = loaded => new = work)
  <1>1. RowFits(work) /\ Turns(loaded, work) /\ IsRow(work) /\ IsRow(row) /\ IsRow(loaded)
    BY DEF WorkFits, RowFits
  <1>2. DOMAIN row = {"status", "severity", "analysis", "citations"}
    BY <1>1 DEF IsRow
  <1>3. /\ new.status = IF work.status # loaded.status THEN work.status ELSE row.status
        /\ new.severity = IF work.severity # loaded.severity THEN work.severity ELSE row.severity
        /\ new.analysis = IF work.analysis # loaded.analysis THEN work.analysis ELSE row.analysis
        /\ new.citations = IF work.citations # loaded.citations THEN work.citations ELSE row.citations
    BY <1>2 DEF Updated
  <1>4. IsRow(new)
    BY <1>2 DEF Updated, IsRow
  <1>5. RowFits(new)
    BY <1>1, <1>3, <1>4 DEF RowFits
  <1>6. Spoken(new)
    <2>1. CASE work.status = loaded.status /\ work.analysis = loaded.analysis
      BY <1>3, <2>1 DEF Spoken
    <2>2. CASE work.status # loaded.status /\ work.status \in {"no_source_material", "failed"}
      BY <1>3, <2>2 DEF Spoken, Analysed, Gated
    <2>3. CASE /\ work.status # loaded.status /\ work.analysis # loaded.analysis
               /\ work.analysis.status = work.status /\ work.status # "pending"
      BY <1>3, <2>3 DEF Spoken
    <2> QED
      BY <1>1, <2>1, <2>2, <2>3 DEF Turns
  <1>7. ASSUME row = loaded PROVE new = work
    <2>1. /\ new.status = work.status /\ new.severity = work.severity
          /\ new.analysis = work.analysis /\ new.citations = work.citations
      BY <1>3, <1>7
    <2> QED
      BY <1>1, <1>4, <2>1 DEF IsRow
  <1> QED
    BY <1>5, <1>6, <1>7

LEMMA CommitsStep ==
    ASSUME AnalysisInv, NEW s \in Sessions, Commits(s) PROVE AnalysisInv'
  <1>1. PICK q : q = sessions[s]
    OBVIOUS
  <1>2. RunFits(s, q)
    BY <1>1 DEF AnalysisInv
  <1>3. /\ rows' = [l \in AnalysedLeads |->
              IF l \in DOMAIN q.work THEN Updated(rows[l], q.loaded[l], q.work[l]) ELSE rows[l]]
        /\ stale' = stale \cup {l \in DOMAIN q.work : rows[l] # q.loaded[l]}
        /\ sessions' = [sessions EXCEPT ![s] = Ended(q.tries, "done")]
        /\ faults' = faults
    BY <1>1 DEF Commits
  <1>4. PICK run : run = Ended(q.tries, "done")
    OBVIOUS
  <1>5. RunFits(s, run)
    <2>1. q.tries \in 0 .. MaxAnalysisTries
      BY <1>2 DEF RunFits
    <2> QED
      BY <1>4, <2>1, WaitingFits
  <1>6. /\ sessions' = [t \in Sessions |-> sessions'[t]]
        /\ sessions'[s] = run /\ \A t \in Sessions \ {s} : sessions'[t] = sessions[t]
    BY <1>3, <1>4 DEF AnalysisInv
  <1>7. \A t \in Sessions : RunFits(t, sessions'[t])
    BY <1>5, <1>6 DEF AnalysisInv
  <1>8. ASSUME NEW l \in AnalysedLeads
        PROVE  LeadFits(l, rows'[l], stale')
    <2>1. PICK row : row = rows[l]
      OBVIOUS
    <2>2. RowFits(row) /\ Spoken(row) /\ (l \notin stale => OneStory(l, row))
      BY <2>1 DEF AnalysisInv, LeadFits
    <2>3. CASE l \in DOMAIN q.work
      <3>1. PICK loaded, work : loaded = q.loaded[l] /\ work = q.work[l]
        OBVIOUS
      <3>2. RowFits(loaded) /\ Spoken(loaded) /\ WorkFits(l, loaded, work)
        BY <1>2, <2>3, <3>1 DEF RunFits
      <3>3. PICK new : new = rows'[l]
        OBVIOUS
      <3>4. new = Updated(row, loaded, work)
        BY <1>3, <2>1, <2>3, <3>1, <3>3
      <3>5. RowFits(new) /\ Spoken(new) /\ (row = loaded => new = work)
        BY <2>2, <3>2, <3>4, UpdatedFits
      <3>6. l \notin stale' => l \notin stale /\ row = loaded
        BY <1>3, <2>1, <2>3, <3>1
      <3>7. l \notin stale' => OneStory(l, new)
        BY <2>2, <3>2, <3>5, <3>6 DEF WorkFits
      <3> QED
        BY <3>3, <3>5, <3>7 DEF LeadFits
    <2>4. CASE l \notin DOMAIN q.work
      <3>1. rows'[l] = row /\ (l \notin stale' => l \notin stale)
        BY <1>3, <2>1, <2>4
      <3> QED
        BY <2>2, <3>1 DEF LeadFits
    <2> QED
      BY <2>3, <2>4
  <1>9. stale' \subseteq AnalysedLeads
    <2>1. DOMAIN q.work \subseteq AnalysedLeads
      BY <1>2 DEF RunFits
    <2> QED
      BY <1>3, <2>1 DEF AnalysisInv
  <1>10. rows' = [l \in AnalysedLeads |-> rows'[l]] /\ faults' \in 0 .. MaxFaults
    BY <1>3 DEF AnalysisInv
  <1> QED
    BY <1>6, <1>7, <1>8, <1>9, <1>10 DEF AnalysisInv

LEMMA AnalysisInitInv == AnalysisInit => AnalysisInv
  <1> SUFFICES ASSUME AnalysisInit PROVE AnalysisInv
    OBVIOUS
  <1>1. /\ rows = [l \in AnalysedLeads |-> FirstRow(l)] /\ stale = {}
        /\ sessions = [s \in Sessions |-> Waiting(0)] /\ faults = 0
    BY DEF AnalysisInit
  <1>2. 0 \in 0 .. MaxAnalysisTries /\ 0 \in 0 .. MaxFaults
    BY AnalysisAssumption
  <1>3. \A s \in Sessions : RunFits(s, sessions[s])
    <2>1. \A s \in Sessions : RunFits(s, Waiting(0))
      BY <1>2, WaitingFits
    <2> QED
      BY <1>1, <2>1
  <1>4. \A l \in AnalysedLeads : LeadFits(l, rows[l], stale)
    <2>1. \A l \in AnalysedLeads : LeadFits(l, FirstRow(l), stale)
      BY FirstRowFits DEF LeadFits
    <2> QED
      BY <1>1, <2>1
  <1> QED
    BY <1>1, <1>2, <1>3, <1>4 DEF AnalysisInv

LEMMA AnalysisInvAlways == AnalysisSpec => []AnalysisInv
  <1>1. ASSUME AnalysisInv, [AnalysisNext]_analysisVars PROVE AnalysisInv'
    <2>1. CASE UNCHANGED analysisVars
      <3>1. UNCHANGED <<rows, sessions, stale, faults>>
        BY <2>1 DEF analysisVars
      <3>2. \A l \in AnalysedLeads : LeadFits(l, rows'[l], stale')
        BY <1>1, <3>1 DEF AnalysisInv
      <3>3. \A s \in Sessions : RunFits(s, sessions'[s])
        BY <1>1, <3>1 DEF AnalysisInv
      <3> QED
        BY <1>1, <3>1, <3>2, <3>3 DEF AnalysisInv
    <2>2. CASE \E a \in Analyses : AnalysisStarts(a) \/ Analyse(a)
      BY <1>1, <2>2, AnalysisStartsStep, AnalyseStep
    <2>3. CASE \E m \in Matchings : MatchStarts(m) \/ MatchEvent(m) \/ MatchPasses(m) \/ MatchBreaks(m)
      BY <1>1, <2>3, MatchStartsStep, MatchEventStep, MatchPassesStep, MatchBreaksStep
    <2>4. CASE \E s \in Sessions : Skips(s) \/ Flush(s) \/ Victim(s) \/ Fails(s) \/ Commits(s) \/ Crash(s)
      BY <1>1, <2>4, SkipsStep, FlushStep, EndsWithoutCommit, CommitsStep
    <2> QED
      BY <1>1, <2>1, <2>2, <2>3, <2>4 DEF AnalysisNext
  <1> QED
    BY <1>1, AnalysisInitInv, PTL DEF AnalysisSpec

(* The types of the analysis: no answer of the model, no event and no mixture *)
(* of commits leaves a status or a severity outside of the columns' values,   *)
(* and an execution holds the rows of leads that it assigned to.              *)
THEOREM ColumnsKeepTheirTypes == AnalysisSpec => []AnalysisTypeOK
  <1>1. ASSUME AnalysisInv PROVE AnalysisTypeOK
    <2>1. ASSUME NEW l \in AnalysedLeads
          PROVE  /\ rows[l].status \in Statuses /\ rows[l].severity \in 0 .. 4
                 /\ rows[l].citations.sources \subseteq Matchings
      BY <1>1 DEF AnalysisInv, LeadFits, RowFits, CitationsFit
    <2>2. ASSUME NEW s \in Sessions
          PROVE  /\ sessions[s].stage \in {"queued", "asking", "done", "lost"}
                 /\ sessions[s].tries \in 0 .. MaxAnalysisTries
                 /\ sessions[s].held \subseteq DOMAIN sessions[s].work
      BY <1>1 DEF AnalysisInv, RunFits
    <2>3. stale \subseteq AnalysedLeads /\ faults \in 0 .. MaxFaults
      BY <1>1 DEF AnalysisInv
    <2> QED
      BY <2>1, <2>2, <2>3 DEF AnalysisTypeOK, Statuses
  <1> QED
    BY <1>1, AnalysisInvAlways, PTL

(* A verdict and the answer of a gate stand in the status and in the analysis *)
(* of a lead together, whichever analyses and matchings commit over each      *)
(* other. A lead that no commit wrote from an outdated copy has a severity,   *)
(* an analysis and citations of one story, whatever the model and             *)
(* CourtListener answered and whatever events were merged into it before or   *)
(* after its verdict.                                                         *)
THEOREM SettledLeadsAgree == AnalysisSpec => []VerdictsStand
  <1>1. ASSUME AnalysisInv PROVE VerdictsStand
    BY <1>1 DEF AnalysisInv, LeadFits, Spoken, VerdictsStand
  <1> QED
    BY <1>1, AnalysisInvAlways, PTL

-----------------------------------------------------------------------------
(* All services at once *)

(* They share no variable, so a behaviour of all of them is one of each.      *)
LEMMA EdgesRunApart == EdgeServicesSpec => RealtimeSpec /\ FetchSpec /\ AnalysisSpec
  <1>1. EdgeServicesInit => RealtimeInit /\ FetchInit /\ AnalysisInit
    BY DEF EdgeServicesInit
  <1>2. [EdgeServicesNext]_edgeServicesVars =>
           /\ [StreamNext]_streamVars /\ [FetchNext]_fetchVars /\ [AnalysisNext]_analysisVars
    BY DEF EdgeServicesNext, StreamMoves, FetchMove, AnalysisMoves, edgeServicesVars
  <1> QED
    BY <1>1, <1>2, PTL DEF EdgeServicesSpec, RealtimeSpec, FetchSpec, AnalysisSpec

(* The types of the stream, of a fetch and of an analysis, which bound the    *)
(* queues, attempts, redirects, retries and held rows, when all of them run at *)
(* once and in any order.                                                     *)
THEOREM EdgesKeepTheirTypes == EdgeServicesSpec => []ServicesTypeOK
  <1>1. StreamTypeOK /\ FetchTypeOK /\ AnalysisTypeOK => ServicesTypeOK
    BY DEF ServicesTypeOK
  <1> QED
    BY <1>1, EdgesRunApart, QueuesStayBounded, AttemptsAreBounded, ColumnsKeepTheirTypes, PTL

(* What each service keeps when it runs alone it keeps in company: silence is *)
(* explained, verdicts stand, and the stream implements FrameStream.     *)
THEOREM EdgesKeepTheirPromises ==
    EdgeServicesSpec => [](SilenceIsExplained /\ VerdictsStand) /\ FramesKeepOrder
  BY EdgesRunApart, SilenceHasAReason, SettledLeadsAgree, StreamKeepsItsPromise, PTL
=============================================================================
