------------------------ MODULE EventServicesProofs ------------------------
(***************************************************************************)
(* Proofs about Notifications, EventDigests and EventAlerts, for every     *)
(* number of events, channels, messages, retries and crashes.              *)
(***************************************************************************)
EXTENDS EventServices, EventStoresProofs, SequenceTheorems, FiniteSetTheorems,
        WellFoundedInduction, TLAPS

-----------------------------------------------------------------------------
(* Notifications *)

(* But for the attempts whose answer was lost, a channel has heard no more    *)
(* than one attempt per delivery. While a message waits, or has not come to a *)
(* channel, or has reached nobody that the task knows of, the attempt under   *)
(* way has not been heard or its answer was lost.                             *)
NoticeFits(r) ==
    /\ Len(r.heard) = Len(r.channels) /\ Len(r.lost) = Len(r.channels)
    /\ r.stage = "sending" => r.next >= 1
    /\ \A i \in 1 .. Len(r.heard) :
          /\ r.heard[i] <= 1 + r.lost[i] + r.deliveries
          /\ r.stage = "queued" => r.heard[i] <= r.lost[i] + r.deliveries
          /\ r.stage = "sending" /\ (~r.dispatched \/ i >= r.next) => r.heard[i] <= r.lost[i] + r.deliveries

NoticeInv == NoticeTypeOK /\ \A n \in DOMAIN notices : NoticeFits(notices[n])

LEMMA OneMore ==
    ASSUME NEW x \in Nat, NEW y \in Nat, NEW z \in Nat, x <= 1 + y + z
    PROVE  x <= y + (z + 1) /\ x <= 1 + y + (z + 1)
  OBVIOUS

LEMMA BothOneMore ==
    ASSUME NEW x \in Nat, NEW y \in Nat, NEW z \in Nat, x <= y + z
    PROVE  x + 1 <= (y + 1) + z /\ x + 1 <= 1 + (y + 1) + z
  OBVIOUS

LEMMA OneMoreFirst ==
    ASSUME NEW x \in Nat, NEW y \in Nat, NEW z \in Nat, x <= y + z
    PROVE  x + 1 <= 1 + y + z
  OBVIOUS

LEMMA NatEntry ==
    ASSUME NEW s \in Seq(Nat), NEW i \in 1 .. Len(s)
    PROVE  s[i] \in Nat /\ s[i] + 1 \in Nat
  <1>1. s[i] \in Nat
    BY ElementOfSeq
  <1> QED
    BY <1>1

LEMMA NoticeEdit ==
    ASSUME NEW r \in Notice
    PROVE  /\ \A s \in NoticeStages : [r EXCEPT !.stage = s] \in Notice
           /\ \A n \in Nat : /\ [r EXCEPT !.next = n] \in Notice
                             /\ [r EXCEPT !.tries = n] \in Notice
                             /\ [r EXCEPT !.deliveries = n] \in Notice
           /\ \A b \in BOOLEAN : /\ [r EXCEPT !.dispatched = b] \in Notice
                                 /\ [r EXCEPT !.unreached = b] \in Notice
           /\ \A h \in Seq(Nat) : /\ [r EXCEPT !.heard = h] \in Notice
                                  /\ [r EXCEPT !.lost = h] \in Notice
  BY DEF Notice

LEMMA NoticeFields ==
    ASSUME NEW r \in Notice
    PROVE  /\ r.about \in Nat /\ r.channels \in Seq(Channels) /\ r.stage \in NoticeStages
           /\ r.next \in Nat /\ r.dispatched \in BOOLEAN /\ r.unreached \in BOOLEAN
           /\ r.tries \in Nat /\ r.deliveries \in Nat /\ r.heard \in Seq(Nat)
           /\ r.lost \in Seq(Nat)
           /\ Len(r.heard) \in Nat /\ Len(r.lost) \in Nat /\ Len(r.channels) \in Nat
           /\ \A i \in 1 .. Len(r.heard) : r.heard[i] \in Nat
           /\ \A i \in 1 .. Len(r.lost) : r.lost[i] \in Nat
  <1>1. /\ r.about \in Nat /\ r.channels \in Seq(Channels) /\ r.stage \in NoticeStages
        /\ r.next \in Nat /\ r.dispatched \in BOOLEAN /\ r.unreached \in BOOLEAN
        /\ r.tries \in Nat /\ r.deliveries \in Nat /\ r.heard \in Seq(Nat)
        /\ r.lost \in Seq(Nat)
    BY DEF Notice
  <1>2. Len(r.heard) \in Nat /\ Len(r.lost) \in Nat /\ Len(r.channels) \in Nat
    BY <1>1, LenProperties
  <1>3. /\ \A i \in 1 .. Len(r.heard) : r.heard[i] \in Nat
        /\ \A i \in 1 .. Len(r.lost) : r.lost[i] \in Nat
    BY <1>1, ElementOfSeq
  <1> QED
    BY <1>1, <1>2, <1>3

(* A notice moves on: the others stay as they are, and its subject too.       *)
LEMMA NoticeMoves ==
    ASSUME NoticeInv, NEW n \in DOMAIN notices, NEW r \in Notice, NoticeFits(r),
           r.about = notices[n].about, notices' = [notices EXCEPT ![n] = r]
    PROVE  /\ NoticeInv'
           /\ DOMAIN notices' = DOMAIN notices
           /\ \A m \in DOMAIN notices : notices'[m].about = notices[m].about
  <1>1. notices \in Seq(Notice) /\ DOMAIN notices = 1 .. Len(notices)
    BY LenProperties DEF NoticeInv, NoticeTypeOK
  <1>2. /\ notices' \in Seq(Notice) /\ Len(notices') = Len(notices)
        /\ \A m \in 1 .. Len(notices) : notices'[m] = IF m = n THEN r ELSE notices[m]
    BY <1>1, ExceptSeq
  <1>3. DOMAIN notices' = 1 .. Len(notices)
    BY <1>2, LenProperties
  <1>4. \A m \in DOMAIN notices' : NoticeFits(notices'[m])
    BY <1>1, <1>2, <1>3 DEF NoticeInv
  <1> QED
    BY <1>1, <1>2, <1>3, <1>4 DEF NoticeInv, NoticeTypeOK, NoticeFits

(* A new notice waits for its first delivery.                                 *)
LEMMA AnnounceStep ==
    ASSUME NoticeInv, NEW about \in Nat, NEW payload \in Payloads, NEW severe \in BOOLEAN,
           NEW channels \in Seq(Channels), Announce(about, payload, severe, channels)
    PROVE  /\ NoticeInv'
           /\ Len(notices) \in Nat /\ DOMAIN notices = 1 .. Len(notices)
           /\ DOMAIN notices' = 1 .. Len(notices) + 1
           /\ \A m \in DOMAIN notices : notices'[m] = notices[m]
           /\ notices'[Len(notices) + 1].about = about
  <1> DEFINE h == [i \in DOMAIN channels |-> 0]
             r == [about |-> about, payload |-> payload, severe |-> severe, channels |-> channels,
                   stage |-> "queued", next |-> 1, dispatched |-> FALSE, unreached |-> FALSE,
                   tries |-> 0, deliveries |-> 0, heard |-> h, lost |-> h]
  <1>1. Len(channels) \in Nat /\ DOMAIN channels = 1 .. Len(channels)
    BY LenProperties
  <1>2. h \in Seq(Nat) /\ Len(h) = Len(channels) /\ \A i \in 1 .. Len(h) : h[i] = 0
    BY <1>1
  <1> HIDE DEF h
  <1>3. r \in Notice
    BY <1>2 DEF Notice, NoticeStages
  <1>4. NoticeFits(r) /\ r.about = about
    BY <1>2 DEF NoticeFits
  <1>5. notices' = Append(notices, r)
    BY DEF Announce, h
  <1> HIDE DEF r
  <1>6. notices \in Seq(Notice) /\ DOMAIN notices = 1 .. Len(notices) /\ Len(notices) \in Nat
    BY LenProperties DEF NoticeInv, NoticeTypeOK
  <1>7. /\ notices' \in Seq(Notice) /\ Len(notices') = Len(notices) + 1
        /\ \A m \in 1 .. Len(notices) : notices'[m] = notices[m]
        /\ notices'[Len(notices) + 1] = r
    BY <1>3, <1>5, <1>6, AppendProperties
  <1>8. DOMAIN notices' = 1 .. Len(notices) + 1
    BY <1>7, LenProperties
  <1>9. \A m \in DOMAIN notices' : NoticeFits(notices'[m])
    <2> SUFFICES ASSUME NEW m \in DOMAIN notices' PROVE NoticeFits(notices'[m])
      OBVIOUS
    <2>1. m \in DOMAIN notices \/ m = Len(notices) + 1
      BY <1>6, <1>8
    <2> QED
      BY <1>4, <1>6, <1>7, <2>1 DEF NoticeInv
  <1> QED
    BY <1>4, <1>6, <1>7, <1>8, <1>9 DEF NoticeInv, NoticeTypeOK, NoticeFits

(* Each step of the task replaces one notice by one that fits.                *)
LEMMA NoticeNextStep ==
    ASSUME NoticeInv, NEW n \in DOMAIN notices, NoticeStep(n) \/ SenderCrash(n)
    PROVE  \E r \in Notice : /\ NoticeFits(r) /\ r.about = notices[n].about
                             /\ notices' = [notices EXCEPT ![n] = r]
  <1> DEFINE q == notices[n]
  <1>1. q \in Notice /\ NoticeFits(q)
    BY LenProperties, ElementOfSeq DEF NoticeInv, NoticeTypeOK
  <1>2. /\ q.stage \in NoticeStages /\ q.next \in Nat /\ q.tries \in Nat /\ q.deliveries \in Nat
        /\ q.dispatched \in BOOLEAN /\ q.heard \in Seq(Nat) /\ q.about \in Nat
        /\ Len(q.heard) \in Nat /\ \A i \in 1 .. Len(q.heard) : q.heard[i] \in Nat
    BY <1>1, NoticeFields
  <1>11. q.lost \in Seq(Nat) /\ \A i \in 1 .. Len(q.lost) : q.lost[i] \in Nat
    BY <1>1, NoticeFields
  <1>12. Len(q.lost) = Len(q.heard)
    BY <1>1 DEF NoticeFits
  <1>3. ASSUME NEW s \in {"unsent", "sent", "failed"}, Update(n, [q EXCEPT !.stage = s])
        PROVE  \E r \in Notice : /\ NoticeFits(r) /\ r.about = q.about
                                 /\ notices' = [notices EXCEPT ![n] = r]
    <2> DEFINE r == [q EXCEPT !.stage = s]
    <2>1. r \in Notice
      BY <1>1, NoticeEdit DEF NoticeStages
    <2>2. /\ r.stage = s /\ r.heard = q.heard /\ r.lost = q.lost /\ r.channels = q.channels /\ r.about = q.about
          /\ r.deliveries = q.deliveries
      BY <1>1 DEF Notice
    <2>3. notices' = [notices EXCEPT ![n] = r]
      BY <1>3 DEF Update
    <2> HIDE DEF r
    <2>4. NoticeFits(r)
      BY <1>1, <2>2 DEF NoticeFits
    <2> QED
      BY <2>1, <2>2, <2>3, <2>4
  <1>4. CASE RejectPayload(n) \/ BelowThreshold(n) \/ TemplateBreaks(n)
    BY <1>3, <1>4 DEF RejectPayload, BelowThreshold, TemplateBreaks
  <1>5. CASE StartSending(n)
    <2> DEFINE r1 == [q EXCEPT !.stage = "sending"]
               r2 == [r1 EXCEPT !.next = 1]
               r3 == [r2 EXCEPT !.dispatched = FALSE]
               r  == [r3 EXCEPT !.unreached = FALSE]
    <2>1. r \in Notice
      <3>1. r1 \in Notice
        BY <1>1, NoticeEdit DEF NoticeStages
      <3> HIDE DEF r1
      <3>2. r2 \in Notice
        BY <3>1, NoticeEdit
      <3> HIDE DEF r2
      <3>3. r3 \in Notice
        BY <3>2, NoticeEdit
      <3> HIDE DEF r3
      <3> QED
        BY <3>3, NoticeEdit
    <2>2. /\ r.stage = "sending" /\ r.heard = q.heard /\ r.lost = q.lost /\ r.channels = q.channels
          /\ r.about = q.about /\ r.deliveries = q.deliveries /\ r.next = 1
      BY <1>1 DEF Notice
    <2>3. notices' = [notices EXCEPT ![n] = r] /\ q.stage = "queued"
      BY <1>1, <1>5 DEF StartSending, Update, Notice
    <2> HIDE DEF r
    <2>4. NoticeFits(r)
      BY <1>1, <2>2, <2>3 DEF NoticeFits
    <2> QED
      BY <2>1, <2>2, <2>3, <2>4
  <1>6. CASE Dispatched(n)
    <2>1. q.stage = "sending" /\ q.next <= Len(q.channels)
      BY <1>6 DEF Dispatched, Answers, Sending
    <2>2. q.next \in 1 .. Len(q.heard)
      BY <1>1, <1>2, <2>1 DEF NoticeFits
    <2> DEFINE h  == [q.heard EXCEPT ![q.next] = q.heard[q.next] + 1]
               r1 == [q EXCEPT !.next = q.next + 1]
               r2 == [r1 EXCEPT !.dispatched = TRUE]
               r  == [r2 EXCEPT !.heard = h]
    <2>3. q.heard[q.next] + 1 \in Nat
      BY <1>2, <2>2, NatEntry
    <2>4. /\ h \in Seq(Nat) /\ Len(h) = Len(q.heard)
          /\ \A i \in 1 .. Len(q.heard) : h[i] = IF i = q.next THEN q.heard[q.next] + 1 ELSE q.heard[i]
      BY <1>2, <2>2, <2>3, ExceptSeq
    <2>5. notices' = [notices EXCEPT ![n] = r]
      BY <1>1, <1>6 DEF Dispatched, Update, Notice
    <2> HIDE DEF h
    <2>6. r \in Notice
      <3>1. q.next + 1 \in Nat
        BY <1>2
      <3>2. r1 \in Notice
        BY <1>1, <3>1, NoticeEdit
      <3> HIDE DEF r1
      <3>3. r2 \in Notice
        BY <3>2, NoticeEdit
      <3> HIDE DEF r2
      <3> QED
        BY <2>4, <3>3, NoticeEdit
    <2>7. /\ r.stage = q.stage /\ r.heard = h /\ r.lost = q.lost /\ r.channels = q.channels
          /\ r.about = q.about /\ r.deliveries = q.deliveries /\ r.next = q.next + 1 /\ r.dispatched = TRUE
      BY <1>1 DEF Notice
    <2> HIDE DEF r
    <2>8. NoticeFits(r)
      <3>1. Len(r.heard) = Len(r.channels) /\ Len(r.lost) = Len(r.channels) /\ r.next >= 1
        BY <1>1, <1>2, <2>4, <2>7 DEF NoticeFits
      <3>2. ASSUME NEW i \in 1 .. Len(q.heard)
            PROVE  h[i] <= 1 + q.lost[i] + q.deliveries /\ (i >= q.next + 1 => h[i] <= q.lost[i] + q.deliveries)
        <4>1. /\ q.heard[i] \in Nat /\ q.lost[i] \in Nat /\ q.heard[i] <= 1 + q.lost[i] + q.deliveries
              /\ i >= q.next => q.heard[i] <= q.lost[i] + q.deliveries
          BY <1>1, <1>2, <1>11, <1>12, <2>1 DEF NoticeFits
        <4>2. CASE i = q.next
          <5>1. q.deliveries \in Nat /\ q.heard[i] <= q.lost[i] + q.deliveries
            BY <1>2, <4>1, <4>2
          <5>2. q.heard[i] + 1 <= 1 + q.lost[i] + q.deliveries
            BY <4>1, <5>1, OneMoreFirst
          <5>3. h[i] = q.heard[i] + 1 /\ ~(i >= q.next + 1)
            BY <1>2, <2>4, <4>2
          <5> QED
            BY <5>2, <5>3
        <4>3. CASE i # q.next
          <5>1. h[i] = q.heard[i] /\ (i >= q.next + 1 => i >= q.next)
            BY <1>2, <1>12, <2>4, <4>3
          <5> QED
            BY <4>1, <5>1
        <4> QED
          BY <4>2, <4>3
      <3>3. \A i \in 1 .. Len(r.heard) :
               /\ r.heard[i] <= 1 + r.lost[i] + r.deliveries
               /\ i >= r.next => r.heard[i] <= r.lost[i] + r.deliveries
        BY <2>4, <2>7, <3>2
      <3> QED
        BY <2>1, <2>7, <3>1, <3>3 DEF NoticeFits
    <2> QED
      BY <2>5, <2>6, <2>7, <2>8
  <1>7. CASE Skipped(n) \/ Unreachable(n)
    <2> DEFINE p1 == [q EXCEPT !.next = q.next + 1]
               p2 == [p1 EXCEPT !.unreached = TRUE]
    <2>1. q.stage = "sending" /\ q.next + 1 \in Nat
      BY <1>2, <1>7 DEF Skipped, Unreachable, Answers, Sending
    <2>2. p1 \in Notice
      BY <1>1, <2>1, NoticeEdit
    <2>3. p2 \in Notice
      <3> HIDE DEF p1
      <3> QED
        BY <2>2, NoticeEdit
    <2>4. \A r \in {p1, p2} :
             /\ r.stage = q.stage /\ r.heard = q.heard /\ r.lost = q.lost /\ r.channels = q.channels
             /\ r.about = q.about /\ r.deliveries = q.deliveries /\ r.next = q.next + 1
             /\ r.dispatched = q.dispatched
      BY <1>1 DEF Notice
    <2>5. \E r \in {p1, p2} : notices' = [notices EXCEPT ![n] = r]
      BY <1>1, <1>7 DEF Skipped, Unreachable, Update, Notice
    <2>6. PICK r \in {p1, p2} : notices' = [notices EXCEPT ![n] = r]
      BY <2>5
    <2>7. /\ r.stage = q.stage /\ r.heard = q.heard /\ r.lost = q.lost /\ r.channels = q.channels
          /\ r.about = q.about /\ r.deliveries = q.deliveries /\ r.next = q.next + 1
          /\ r.dispatched = q.dispatched /\ r \in Notice
      BY <2>2, <2>3, <2>4
    <2> HIDE DEF p1, p2, q
    <2>8. NoticeFits(r)
      <3>1. r.next >= 1 /\ \A i \in 1 .. Len(q.heard) : i >= r.next => i >= q.next
        BY <1>2, <1>12, <2>7
      <3> QED
        BY <1>1, <2>1, <2>7, <3>1 DEF NoticeFits
    <2> QED
      BY <2>6, <2>7, <2>8 DEF q
  <1>10. CASE AnswerLost(n)
    <2>1. q.stage = "sending" /\ q.next <= Len(q.channels)
      BY <1>10 DEF AnswerLost, Answers, Sending
    <2>2. q.next \in 1 .. Len(q.heard) /\ q.next \in 1 .. Len(q.lost)
      BY <1>1, <1>2, <2>1 DEF NoticeFits
    <2> DEFINE h  == [q.heard EXCEPT ![q.next] = q.heard[q.next] + 1]
               k  == [q.lost EXCEPT ![q.next] = q.lost[q.next] + 1]
               u  == q.unreached \/ KindOf[q.channels[q.next]] # "email"
               r1 == [q EXCEPT !.next = q.next + 1]
               r2 == [r1 EXCEPT !.unreached = u]
               r3 == [r2 EXCEPT !.heard = h]
               r  == [r3 EXCEPT !.lost = k]
    <2>3. q.heard[q.next] + 1 \in Nat /\ q.lost[q.next] + 1 \in Nat
      BY <1>2, <1>11, <2>2, NatEntry
    <2>4. /\ h \in Seq(Nat) /\ Len(h) = Len(q.heard)
          /\ \A i \in 1 .. Len(q.heard) : h[i] = IF i = q.next THEN q.heard[q.next] + 1 ELSE q.heard[i]
      BY <1>2, <2>2, <2>3, ExceptSeq
    <2>5. /\ k \in Seq(Nat) /\ Len(k) = Len(q.lost)
          /\ \A i \in 1 .. Len(q.lost) : k[i] = IF i = q.next THEN q.lost[q.next] + 1 ELSE q.lost[i]
      BY <1>11, <2>2, <2>3, ExceptSeq
    <2>6. notices' = [notices EXCEPT ![n] = r] /\ u \in BOOLEAN
      BY <1>1, <1>10 DEF AnswerLost, Update, Notice
    <2> HIDE DEF h, k, u
    <2>7. r \in Notice
      <3>1. q.next + 1 \in Nat
        BY <1>2
      <3>2. r1 \in Notice
        BY <1>1, <3>1, NoticeEdit
      <3> HIDE DEF r1
      <3>3. r2 \in Notice
        BY <2>6, <3>2, NoticeEdit
      <3> HIDE DEF r2
      <3>4. r3 \in Notice
        BY <2>4, <3>3, NoticeEdit
      <3> HIDE DEF r3
      <3> QED
        BY <2>5, <3>4, NoticeEdit
    <2>8. /\ r.stage = q.stage /\ r.heard = h /\ r.lost = k /\ r.channels = q.channels
          /\ r.about = q.about /\ r.deliveries = q.deliveries /\ r.next = q.next + 1
          /\ r.dispatched = q.dispatched
      BY <1>1 DEF Notice
    <2> HIDE DEF r
    <2>9. ASSUME NEW i \in 1 .. Len(q.heard)
          PROVE  /\ h[i] <= 1 + k[i] + q.deliveries
                 /\ ~q.dispatched \/ i >= q.next + 1 => h[i] <= k[i] + q.deliveries
      <3>1. /\ q.heard[i] \in Nat /\ q.lost[i] \in Nat /\ q.heard[i] <= 1 + q.lost[i] + q.deliveries
            /\ ~q.dispatched \/ i >= q.next => q.heard[i] <= q.lost[i] + q.deliveries
        BY <1>1, <1>2, <1>11, <1>12, <2>1 DEF NoticeFits
      <3>2. CASE i = q.next
        <4>1. h[i] = q.heard[i] + 1 /\ k[i] = q.lost[i] + 1
          BY <1>2, <2>2, <2>4, <2>5, <3>2
        <4>2. q.deliveries \in Nat /\ q.heard[i] <= q.lost[i] + q.deliveries
          BY <1>2, <3>1, <3>2
        <4>3. /\ q.heard[i] + 1 <= (q.lost[i] + 1) + q.deliveries
              /\ q.heard[i] + 1 <= 1 + (q.lost[i] + 1) + q.deliveries
          BY <3>1, <4>2, BothOneMore
        <4> QED
          BY <4>1, <4>3
      <3>3. CASE i # q.next
        <4>1. h[i] = q.heard[i] /\ k[i] = q.lost[i] /\ (i >= q.next + 1 => i >= q.next)
          BY <1>2, <1>12, <2>4, <2>5, <3>3
        <4> HIDE DEF q
        <4> QED
          BY SMTT(30), <1>2, <3>1, <4>1
      <3> QED
        BY <3>2, <3>3
    <2>10. NoticeFits(r)
      <3>1. Len(r.heard) = Len(r.channels) /\ Len(r.lost) = Len(r.channels) /\ r.next >= 1
        BY <1>1, <1>2, <2>4, <2>5, <2>8 DEF NoticeFits
      <3> QED
        BY <2>1, <2>4, <2>8, <2>9, <3>1 DEF NoticeFits
    <2> QED
      BY <2>6, <2>7, <2>8, <2>10
  <1>8. CASE EndSending(n)
    <2>1. q.stage = "sending"
      BY <1>8 DEF EndSending
    <2>2. CASE ~MayRetry(q)
      BY <1>3, <1>8, <2>2 DEF EndSending
    <2>3. CASE MayRetry(q) /\ ~(q.tries < MaxTries)
      BY <1>3, <1>8, <2>3 DEF EndSending
    <2>4. CASE MayRetry(q) /\ q.tries < MaxTries
      <3> DEFINE r1 == [q EXCEPT !.stage = "queued"]
                 r  == [r1 EXCEPT !.tries = q.tries + 1]
      <3>1. r \in Notice
        <4>1. q.tries + 1 \in Nat
          BY <1>2
        <4>2. r1 \in Notice
          BY <1>1, NoticeEdit DEF NoticeStages
        <4> HIDE DEF r1
        <4> QED
          BY <4>1, <4>2, NoticeEdit
      <3>2. /\ r.stage = "queued" /\ r.heard = q.heard /\ r.lost = q.lost /\ r.channels = q.channels
            /\ r.about = q.about /\ r.deliveries = q.deliveries
        BY <1>1 DEF Notice
      <3>3. notices' = [notices EXCEPT ![n] = r] /\ ~q.dispatched
        BY <1>1, <1>8, <2>4 DEF EndSending, MayRetry, Update, Notice
      <3> HIDE DEF r
      <3>4. NoticeFits(r)
        BY <1>1, <2>1, <3>2, <3>3 DEF NoticeFits
      <3> QED
        BY <3>1, <3>2, <3>3, <3>4
    <2> QED
      BY <2>2, <2>3, <2>4
  <1>9. CASE SenderCrash(n)
    <2> DEFINE r1 == [q EXCEPT !.stage = "queued"]
               r  == [r1 EXCEPT !.deliveries = q.deliveries + 1]
    <2>1. r \in Notice
      <3>1. q.deliveries + 1 \in Nat
        BY <1>2
      <3>2. r1 \in Notice
        BY <1>1, NoticeEdit DEF NoticeStages
      <3> HIDE DEF r1
      <3> QED
        BY <3>1, <3>2, NoticeEdit
    <2>2. /\ r.stage = "queued" /\ r.heard = q.heard /\ r.lost = q.lost /\ r.channels = q.channels
          /\ r.about = q.about /\ r.deliveries = q.deliveries + 1
      BY <1>1 DEF Notice
    <2>3. notices' = [notices EXCEPT ![n] = r]
      BY <1>1, <1>9 DEF SenderCrash, Update, Notice
    <2> HIDE DEF r, q
    <2>4. NoticeFits(r)
      <3>1. ASSUME NEW i \in 1 .. Len(q.heard)
            PROVE  /\ q.heard[i] <= q.lost[i] + (q.deliveries + 1)
                   /\ q.heard[i] <= 1 + q.lost[i] + (q.deliveries + 1)
        <4>1. q.heard[i] \in Nat /\ q.lost[i] \in Nat /\ q.deliveries \in Nat
          BY <1>2, <1>11, <1>12
        <4>2. q.heard[i] <= 1 + q.lost[i] + q.deliveries
          BY <1>1 DEF NoticeFits
        <4> QED
          BY <4>1, <4>2, OneMore
      <3> QED
        BY <1>1, <2>2, <3>1 DEF NoticeFits
    <2> QED
      BY <2>1, <2>2, <2>3, <2>4 DEF q
  <1> QED
    BY <1>4, <1>5, <1>6, <1>7, <1>8, <1>9, <1>10 DEF NoticeStep

LEMMA NoticesMoveOn ==
    ASSUME NoticeInv, NoticeNext
    PROVE  /\ NoticeInv'
           /\ DOMAIN notices' = DOMAIN notices
           /\ \A m \in DOMAIN notices : notices'[m].about = notices[m].about
  BY NoticeNextStep, NoticeMoves DEF NoticeNext

LEMMA NoticeInvAlways == NoticeSpec => []NoticeInv
  <1>1. NoticeInit => NoticeInv
    <2>1. <<>> \in Seq(Notice) /\ DOMAIN <<>> = {}
      BY EmptySeq
    <2> QED
      BY <2>1 DEF NoticeInit, NoticeInv, NoticeTypeOK
  <1>2. ASSUME NoticeInv, [AnyCall \/ NoticeNext]_notices PROVE NoticeInv'
    <2>1. CASE AnyCall
      BY <1>2, <2>1, AnnounceStep DEF AnyCall, Call
    <2>2. CASE UNCHANGED notices
      BY <1>2, <2>2 DEF NoticeInv, NoticeTypeOK, NoticeFits
    <2> QED
      BY <1>2, <2>1, <2>2, NoticesMoveOn
  <1> QED
    BY <1>1, <1>2, PTL DEF NoticeSpec

(* What the invariant says of what the channels hear.                         *)
LEMMA NoticesPromise == NoticeInv => RepeatsAreOwn
  <1> SUFFICES ASSUME NoticeInv, NEW n \in DOMAIN notices, NEW i \in DOMAIN notices[n].heard
               PROVE  notices[n].heard[i] <= 1 + notices[n].lost[i] + notices[n].deliveries
    BY DEF RepeatsAreOwn
  <1>1. notices[n] \in Notice /\ NoticeFits(notices[n])
    BY LenProperties, ElementOfSeq DEF NoticeInv, NoticeTypeOK
  <1>2. i \in 1 .. Len(notices[n].heard)
    BY <1>1, NoticeFields, LenProperties
  <1> QED
    BY <1>1, <1>2 DEF NoticeFits

(* A channel hears a notice again only when an answer of its own was lost or  *)
(* the sender died, however the notice is retried and whichever other         *)
(* channels fail.                                                             *)
THEOREM NoticesRepeatForOwnLoss == NoticeSpec => []RepeatsAreOwn
  BY NoticesPromise, NoticeInvAlways, PTL

-----------------------------------------------------------------------------
(* Digests and enrichment *)

Copies == UNION {[E -> Meta] : E \in SUBSET Events}

(* Who holds the metadata of a quiet event holds them as they are. It is in   *)
(* one digest at most, and marked when it is in one.                          *)
QuietFits(e) ==
    /\ \A x \in NlpHolders(e) : nlp[x].copy = events[e].meta
    /\ \A d \in DigestHolders(e) : digest[d].copy[e] = events[e].meta
    /\ \A b \in Digests(e), c \in Digests(e) : b = c
    /\ Digests(e) # {} => events[e].meta.digested

(* The LLM is asked only when the plan wants it, and a digest takes events    *)
(* without the mark.                                                          *)
Asked(r) == r.stage = "asked" => Flavour[r.event] # "off"
Unmarked(q) == q.stage = "read" => \A e \in DOMAIN q.copy : ~q.copy[e].digested

DigestInv ==
    /\ DigestTypeOK
    /\ \A x \in NlpTasks : Asked(nlp[x])
    /\ \A d \in Compilers : Unmarked(digest[d])
    /\ \A e \in Events \ noisy : QuietFits(e)

LEMMA NlpEdit ==
    ASSUME NEW r \in NlpRow
    PROVE  /\ \A s \in {"idle", "queued", "asked", "done"} : [r EXCEPT !.stage = s] \in NlpRow
           /\ \A e \in Events : [r EXCEPT !.event = e] \in NlpRow
           /\ \A m \in Meta : [r EXCEPT !.copy = m] \in NlpRow
           /\ \A n \in Nat : [r EXCEPT !.tries = n] \in NlpRow
  BY DEF NlpRow

LEMMA NlpFields ==
    ASSUME NEW r \in NlpRow
    PROVE  /\ r.stage \in {"idle", "queued", "asked", "done"} /\ r.event \in Events
           /\ r.copy \in Meta /\ r.tries \in Nat
  BY DEF NlpRow

LEMMA DigestEdit ==
    ASSUME NEW q \in DigestRow
    PROVE  /\ \A s \in {"idle", "queued", "read", "stored", "done", "failed"} :
                 [q EXCEPT !.stage = s] \in DigestRow
           /\ \A h \in Windows : [q EXCEPT !.hours = h] \in DigestRow
           /\ \A b \in BOOLEAN : [q EXCEPT !.notify = b] \in DigestRow
           /\ \A c \in Copies : [q EXCEPT !.copy = c] \in DigestRow
           /\ \A n \in Nat : [q EXCEPT !.brief = n] \in DigestRow /\ [q EXCEPT !.tries = n] \in DigestRow
  <1> DEFINE Row(C) ==
                [stage: {"idle", "queued", "read", "stored", "done", "failed"}, hours: Windows,
                 notify: BOOLEAN, copy: C, brief: Nat, tries: Nat]
  <1>1. ASSUME NEW C, NEW p \in Row(C)
        PROVE  /\ \A s \in {"idle", "queued", "read", "stored", "done", "failed"} :
                     [p EXCEPT !.stage = s] \in Row(C)
               /\ \A h \in Windows : [p EXCEPT !.hours = h] \in Row(C)
               /\ \A b \in BOOLEAN : [p EXCEPT !.notify = b] \in Row(C)
               /\ \A c \in C : [p EXCEPT !.copy = c] \in Row(C)
               /\ \A n \in Nat : [p EXCEPT !.brief = n] \in Row(C) /\ [p EXCEPT !.tries = n] \in Row(C)
    BY <1>1
  <1>2. DigestRow = Row(Copies)
    BY DEF DigestRow, Copies
  <1> HIDE DEF Row
  <1> QED
    BY <1>1, <1>2

LEMMA DigestFields ==
    ASSUME NEW q \in DigestRow
    PROVE  /\ q.stage \in {"idle", "queued", "read", "stored", "done", "failed"}
           /\ q.hours \in Windows /\ q.notify \in BOOLEAN /\ q.brief \in Nat /\ q.tries \in Nat
           /\ q.copy \in Copies /\ DOMAIN q.copy \subseteq Events
           /\ \A e \in DOMAIN q.copy : q.copy[e] \in Meta
  <1>1. /\ q.stage \in {"idle", "queued", "read", "stored", "done", "failed"}
        /\ q.hours \in Windows /\ q.notify \in BOOLEAN /\ q.brief \in Nat /\ q.tries \in Nat
    BY DEF DigestRow
  <1>2. q.copy \in Copies
    BY DEF DigestRow, Copies
  <1>3. PICK E \in SUBSET Events : q.copy \in [E -> Meta]
    BY <1>2 DEF Copies
  <1> QED
    BY <1>1, <1>2, <1>3

LEMMA NoCopyIsACopy == NoCopy \in Copies /\ NoMeta \in Meta
  <1>1. NoCopy \in [{} -> Meta]
    BY DEF NoCopy
  <1> QED
    BY <1>1 DEF Copies, NoMeta, Meta

(* An enrichment moves on and writes nothing.                                 *)
LEMMA NlpMoves ==
    ASSUME DigestInv, NEW x \in NlpTasks, NEW r \in NlpRow, Asked(r),
           nlp' = [nlp EXCEPT ![x] = r],
           r.stage = "asked" => r.copy = events[r.event].meta,
           UNCHANGED <<clock, events, digest, briefs, noisy>>
    PROVE  DigestInv'
  <1>1. \A y \in NlpTasks : nlp'[y] = IF y = x THEN r ELSE nlp[y]
    BY DEF DigestInv, DigestTypeOK
  <1>2. DigestTypeOK'
    BY DEF DigestInv, DigestTypeOK
  <1>3. ASSUME NEW e \in Events \ noisy PROVE QuietFits(e)'
    <2>1. QuietFits(e)
      BY DEF DigestInv
    <2>2. ASSUME NEW y \in NlpTasks, nlp'[y].stage = "asked", nlp'[y].event = e
          PROVE  nlp'[y].copy = events[e].meta
      BY <1>1, <2>1, <2>2 DEF QuietFits, NlpHolders
    <2> QED
      BY <2>1, <2>2 DEF QuietFits, NlpHolders, DigestHolders, Digests
  <1> QED
    BY <1>1, <1>2, <1>3 DEF DigestInv, Asked, Unmarked

(* A digest moves on and writes nothing.                                      *)
LEMMA DigestMoves ==
    ASSUME DigestInv, NEW d \in Compilers, NEW q \in DigestRow, Unmarked(q),
           digest' = [digest EXCEPT ![d] = q],
           q.stage = "read" => \A e \in DOMAIN q.copy : q.copy[e] = events[e].meta,
           UNCHANGED <<clock, events, nlp, briefs, noisy>>
    PROVE  DigestInv'
  <1>1. \A c \in Compilers : digest'[c] = IF c = d THEN q ELSE digest[c]
    BY DEF DigestInv, DigestTypeOK
  <1>2. DigestTypeOK'
    BY DEF DigestInv, DigestTypeOK
  <1>3. ASSUME NEW e \in Events \ noisy PROVE QuietFits(e)'
    <2>1. QuietFits(e)
      BY DEF DigestInv
    <2>2. ASSUME NEW c \in Compilers, digest'[c].stage = "read", e \in DOMAIN digest'[c].copy
          PROVE  digest'[c].copy[e] = events[e].meta
      BY <1>1, <2>1, <2>2 DEF QuietFits, DigestHolders
    <2> QED
      BY <2>1, <2>2 DEF QuietFits, NlpHolders, DigestHolders, Digests
  <1> QED
    BY <1>1, <1>2, <1>3 DEF DigestInv, Asked, Unmarked

LEMMA NlpForgets ==
    ASSUME DigestInv, NEW x \in NlpTasks, NEW s \in {"queued", "done"}
    PROVE  \E r \in NlpRow : /\ r.stage = s /\ r.tries = nlp[x].tries
                             /\ NlpLeaves(x, s) = [nlp EXCEPT ![x] = r]
  <1> DEFINE r1 == [nlp[x] EXCEPT !.stage = s]
             r  == [r1 EXCEPT !.copy = NoMeta]
  <1>1. nlp[x] \in NlpRow /\ nlp \in [NlpTasks -> NlpRow]
    BY DEF DigestInv, DigestTypeOK
  <1>2. r \in NlpRow
    <2>1. r1 \in NlpRow
      BY <1>1, NlpEdit
    <2> HIDE DEF r1
    <2> QED
      BY <2>1, NlpEdit, NoCopyIsACopy
  <1>3. r.stage = s /\ r.tries = nlp[x].tries /\ NlpLeaves(x, s) = [nlp EXCEPT ![x] = r]
    BY <1>1 DEF NlpLeaves, NlpRow
  <1> HIDE DEF r
  <1> QED
    BY <1>2, <1>3

LEMMA NlpQuietStep ==
    ASSUME DigestInv, NEW x \in NlpTasks,
           \/ \E e \in Events : NlpQueued(x, e)
           \/ NlpRead(x) \/ NlpFallback(x) \/ NlpCrash(x) \/ NlpAgain(x)
    PROVE  DigestInv' /\ events' = events
  <1> DEFINE q == nlp[x]
  <1>1. /\ q \in NlpRow /\ nlp \in [NlpTasks -> NlpRow] /\ events \in [Events -> EventRow]
        /\ q.event \in Events /\ q.tries \in Nat
    BY NlpFields DEF DigestInv, DigestTypeOK
  <1>2. UNCHANGED <<clock, events, digest, briefs, noisy>>
    BY DEF NlpQueued, NlpRead, NlpFallback, NlpCrash, NlpAgain
  <1>3. ASSUME NEW s \in {"queued", "done"}, nlp' = NlpLeaves(x, s) PROVE DigestInv'
    <2>1. PICK r \in NlpRow : r.stage = s /\ NlpLeaves(x, s) = [nlp EXCEPT ![x] = r]
      BY NlpForgets
    <2> QED
      BY <1>2, <1>3, <2>1, NlpMoves DEF Asked
  <1>4. ASSUME NEW e \in Events, NlpQueued(x, e) PROVE DigestInv'
    <2> DEFINE r1 == [q EXCEPT !.stage = "queued"]
               r  == [r1 EXCEPT !.event = e]
    <2>1. r \in NlpRow
      <3>1. r1 \in NlpRow
        BY <1>1, NlpEdit
      <3> HIDE DEF r1
      <3> QED
        BY <3>1, NlpEdit
    <2>2. r.stage = "queued"
      BY <1>1 DEF NlpRow
    <2>3. nlp' = [nlp EXCEPT ![x] = r]
      BY <1>1, <1>4 DEF NlpQueued, NlpRow
    <2> HIDE DEF r
    <2> QED
      BY <1>2, <2>1, <2>2, <2>3, NlpMoves DEF Asked
  <1>5. CASE NlpRead(x)
    <2>1. CASE Enriched(q.event) \/ Flavour[q.event] = "off"
      BY <1>3, <1>5, <2>1 DEF NlpRead
    <2>2. CASE ~(Enriched(q.event) \/ Flavour[q.event] = "off")
      <3> DEFINE m  == events[q.event].meta
                 r1 == [q EXCEPT !.stage = "asked"]
                 r  == [r1 EXCEPT !.copy = m]
      <3>1. m \in Meta
        BY <1>1 DEF EventRow
      <3>2. r \in NlpRow
        <4>1. r1 \in NlpRow
          BY <1>1, NlpEdit
        <4> HIDE DEF r1, m
        <4> QED
          BY <3>1, <4>1, NlpEdit
      <3>3. r.stage = "asked" /\ r.event = q.event /\ r.copy = m
        BY <1>1 DEF NlpRow
      <3>4. nlp' = [nlp EXCEPT ![x] = r]
        BY <1>1, <1>5, <2>2 DEF NlpRead, NlpRow
      <3> HIDE DEF r
      <3> QED
        BY <1>2, <2>2, <3>2, <3>3, <3>4, NlpMoves DEF Asked
    <2> QED
      BY <2>1, <2>2
  <1>6. CASE NlpFallback(x) \/ NlpCrash(x)
    BY <1>3, <1>6 DEF NlpFallback, NlpCrash
  <1>7. CASE NlpAgain(x)
    <2>1. CASE q.tries < MaxNlpTries
      <3>1. PICK r1 \in NlpRow : /\ r1.stage = "queued" /\ r1.tries = q.tries
                                 /\ NlpLeaves(x, "queued") = [nlp EXCEPT ![x] = r1]
        BY NlpForgets
      <3> DEFINE r == [r1 EXCEPT !.tries = r1.tries + 1]
      <3>2. r1.tries + 1 \in Nat
        BY <1>1, <3>1
      <3>3. r \in NlpRow
        BY <3>2, NlpEdit
      <3>4. r.stage = "queued"
        BY <3>1 DEF NlpRow
      <3>5. nlp' = [nlp EXCEPT ![x] = r]
        BY <1>1, <1>7, <2>1, <3>1 DEF NlpAgain
      <3> HIDE DEF r
      <3> QED
        BY <1>2, <3>3, <3>4, <3>5, NlpMoves DEF Asked
    <2>2. CASE ~(q.tries < MaxNlpTries)
      BY <1>3, <1>7, <2>2 DEF NlpAgain
    <2> QED
      BY <2>1, <2>2
  <1> QED
    BY <1>2, <1>4, <1>5, <1>6, <1>7

LEMMA CompilerForgets ==
    ASSUME DigestInv, NEW d \in Compilers, NEW s \in {"queued", "done", "failed"}
    PROVE  \E q \in DigestRow : /\ q.stage = s /\ q.tries = digest[d].tries
                                /\ CompilerLeaves(d, s) = [digest EXCEPT ![d] = q]
  <1> DEFINE q1 == [digest[d] EXCEPT !.stage = s]
             q  == [q1 EXCEPT !.copy = NoCopy]
  <1>1. digest[d] \in DigestRow /\ digest \in [Compilers -> DigestRow]
    BY DEF DigestInv, DigestTypeOK
  <1>2. q \in DigestRow
    <2>1. q1 \in DigestRow
      BY <1>1, DigestEdit
    <2> HIDE DEF q1
    <2> QED
      BY <2>1, DigestEdit, NoCopyIsACopy
  <1>3. q.stage = s /\ q.tries = digest[d].tries /\ CompilerLeaves(d, s) = [digest EXCEPT ![d] = q]
    BY <1>1 DEF CompilerLeaves, DigestRow
  <1> HIDE DEF q
  <1> QED
    BY <1>2, <1>3

LEMMA CompilerQuietStep ==
    ASSUME DigestInv, NEW d \in Compilers,
           \/ \E h \in Windows, notify \in BOOLEAN : Compile(d, h, notify)
           \/ Select(d) \/ AnnounceDigest(d) \/ CompileCrash(d) \/ CompileAgain(d)
    PROVE  DigestInv' /\ events' = events
  <1> DEFINE q0 == digest[d]
  <1>1. /\ q0 \in DigestRow /\ digest \in [Compilers -> DigestRow] /\ events \in [Events -> EventRow]
        /\ q0.tries \in Nat
    BY DigestFields DEF DigestInv, DigestTypeOK
  <1>2. UNCHANGED <<clock, events, nlp, briefs, noisy>>
    BY DEF Compile, Select, AnnounceDigest, CompileCrash, CompileAgain
  <1>3. ASSUME NEW s \in {"queued", "done", "failed"}, digest' = CompilerLeaves(d, s) PROVE DigestInv'
    <2>1. PICK q \in DigestRow : q.stage = s /\ CompilerLeaves(d, s) = [digest EXCEPT ![d] = q]
      BY CompilerForgets
    <2> QED
      BY <1>2, <1>3, <2>1, DigestMoves DEF Unmarked
  <1>4. ASSUME NEW h \in Windows, NEW notify \in BOOLEAN, Compile(d, h, notify) PROVE DigestInv'
    <2> DEFINE q1 == [q0 EXCEPT !.stage = "queued"]
               q2 == [q1 EXCEPT !.hours = h]
               q  == [q2 EXCEPT !.notify = notify]
    <2>1. q \in DigestRow
      <3>1. q1 \in DigestRow
        BY <1>1, DigestEdit
      <3> HIDE DEF q1
      <3>2. q2 \in DigestRow
        BY <3>1, DigestEdit
      <3> HIDE DEF q2
      <3> QED
        BY <3>2, DigestEdit
    <2>2. q.stage = "queued"
      BY <1>1 DEF DigestRow
    <2>3. digest' = [digest EXCEPT ![d] = q]
      BY <1>1, <1>4 DEF Compile, DigestRow
    <2> HIDE DEF q
    <2> QED
      BY <1>2, <2>1, <2>2, <2>3, DigestMoves DEF Unmarked
  <1>5. CASE Select(d)
    <2> DEFINE chosen == Candidates(q0.hours)
    <2>1. CASE chosen = {}
      BY <1>3, <1>5, <2>1 DEF Select
    <2>2. CASE chosen # {}
      <3> DEFINE c  == [e \in chosen |-> events[e].meta]
                 q1 == [q0 EXCEPT !.stage = "read"]
                 q  == [q1 EXCEPT !.copy = c]
      <3>1. chosen \subseteq Events /\ \A e \in chosen : events[e].meta \in Meta /\ ~events[e].meta.digested
        BY <1>1 DEF Candidates, EventRow
      <3>2. c \in Copies /\ DOMAIN c = chosen /\ \A e \in chosen : c[e] = events[e].meta
        <4>1. c \in [chosen -> Meta]
          BY <3>1
        <4> QED
          BY <3>1, <4>1 DEF Copies
      <3>3. digest' = [digest EXCEPT ![d] = q]
        BY <1>1, <1>5, <2>2 DEF Select, DigestRow
      <3> HIDE DEF c
      <3>4. q \in DigestRow
        <4>1. q1 \in DigestRow
          BY <1>1, DigestEdit
        <4> HIDE DEF q1
        <4> QED
          BY <3>2, <4>1, DigestEdit
      <3>5. q.stage = "read" /\ q.copy = c
        BY <1>1 DEF DigestRow
      <3> HIDE DEF q
      <3> QED
        BY <1>2, <3>1, <3>2, <3>3, <3>4, <3>5, DigestMoves DEF Unmarked
    <2> QED
      BY <2>1, <2>2
  <1>6. CASE AnnounceDigest(d) \/ CompileCrash(d)
    BY <1>3, <1>6 DEF AnnounceDigest, CompileCrash
  <1>7. CASE CompileAgain(d)
    <2>1. CASE q0.tries < MaxDigestTries
      <3>1. PICK q1 \in DigestRow : /\ q1.stage = "queued" /\ q1.tries = q0.tries
                                    /\ CompilerLeaves(d, "queued") = [digest EXCEPT ![d] = q1]
        BY CompilerForgets
      <3> DEFINE q == [q1 EXCEPT !.tries = q1.tries + 1]
      <3>2. q1.tries + 1 \in Nat
        BY <1>1, <3>1
      <3>3. q \in DigestRow
        BY <3>2, DigestEdit
      <3>4. q.stage = "queued"
        BY <3>1 DEF DigestRow
      <3>5. digest' = [digest EXCEPT ![d] = q]
        BY <1>1, <1>7, <2>1, <3>1 DEF CompileAgain
      <3> HIDE DEF q
      <3> QED
        BY <1>2, <3>3, <3>4, <3>5, DigestMoves DEF Unmarked
    <2>2. CASE ~(q0.tries < MaxDigestTries)
      BY <1>3, <1>7, <2>2 DEF CompileAgain
    <2> QED
      BY <2>1, <2>2
  <1> QED
    BY <1>2, <1>4, <1>5, <1>6, <1>7

(* Time and arrivals leave the metadata alone.                                *)
LEMMA DigestTimeStep ==
    ASSUME DigestInv, Tick \/ \E e \in Events : Ingested(e)
    PROVE  DigestInv' /\ \A e \in Events : events'[e].meta = events[e].meta
  <1>1. /\ clock \in 1 .. MaxClock /\ MaxClock \in Nat /\ events \in [Events -> EventRow]
        /\ UNCHANGED <<nlp, digest, briefs, noisy>>
    BY DigestAssumption DEF DigestInv, DigestTypeOK, Tick, Ingested
  <1>2. clock' \in 1 .. MaxClock /\ events' \in [Events -> EventRow]
        /\ \A e \in Events : events'[e].meta = events[e].meta
    <2>1. CASE Tick
      BY <1>1, <2>1 DEF Tick
    <2>2. ASSUME NEW e \in Events, Ingested(e)
          PROVE  clock' = clock /\ events' \in [Events -> EventRow]
                 /\ \A f \in Events : events'[f].meta = events[f].meta
      <3>1. PICK t \in {clock - 1, clock} \ {0} : events' = [events EXCEPT ![e].at = t]
        BY <2>2 DEF Ingested
      <3>2. t \in 0 .. MaxClock
        BY <1>1, <3>1
      <3> QED
        BY <1>1, <2>2, <3>1, <3>2 DEF Ingested, EventRow
    <2> QED
      BY <1>1, <2>1, <2>2
  <1>3. DigestTypeOK'
    BY <1>1, <1>2 DEF DigestInv, DigestTypeOK
  <1>4. \A e \in Events \ noisy : QuietFits(e)'
    BY <1>1, <1>2 DEF DigestInv, QuietFits, NlpHolders, DigestHolders, Digests
  <1> QED
    BY <1>1, <1>2, <1>3, <1>4 DEF DigestInv, Asked, Unmarked

(* What QuietFactsStay says of a step.                                        *)
FactsStay ==
    \A e \in Events : e \notin noisy' =>
        /\ events[e].meta.digested => events'[e].meta.digested
        /\ events[e].meta.classes # "none" => events'[e].meta.classes # "none"

(* The answer is written with the copy that was read before the LLM was asked:*)
(* of a quiet event that copy is what the row still holds.                    *)
LEMMA NlpStoreStep ==
    ASSUME DigestInv, NEW x \in NlpTasks, NlpStore(x)
    PROVE  DigestInv' /\ FactsStay
  <1>0. nlp[x].event \in Events
    BY NlpFields DEF DigestInv, DigestTypeOK
  <1> SUFFICES ASSUME NEW e \in Events, e = nlp[x].event
               PROVE  DigestInv' /\ FactsStay
    BY <1>0
  <1> DEFINE q == nlp[x]
             m == [q.copy EXCEPT !.classes = Flavour[e]]
  <1>1. /\ q \in NlpRow /\ q.stage = "asked" /\ e \in Events /\ q.copy \in Meta
        /\ nlp \in [NlpTasks -> NlpRow] /\ events \in [Events -> EventRow]
        /\ noisy \subseteq Events /\ UNCHANGED <<clock, digest, briefs>>
    BY NlpFields DEF DigestInv, DigestTypeOK, NlpStore
  <1>2. Flavour[e] \in {"attack", "cal"}
    BY <1>1, DigestAssumption DEF DigestInv, Asked
  <1>3. m \in Meta /\ m.digested = q.copy.digested /\ m.classes = Flavour[e]
    BY <1>1, <1>2 DEF Meta
  <1>4. PICK full \in BOOLEAN, same \in BOOLEAN :
           /\ same => m = q.copy
           /\ events' = [events EXCEPT ![e].named = @ \/ full,
                                       ![e].meta = IF same THEN @ ELSE m]
    BY DEF NlpStore, Classified
  <1> HIDE DEF m
  <1>5. /\ events' \in [Events -> EventRow]
        /\ events'[e].meta \in {events[e].meta, m}
        /\ \A f \in Events \ {e} : events'[f] = events[f]
    <2> DEFINE r1 == [events[e] EXCEPT !.named = events[e].named \/ full]
               r  == [r1 EXCEPT !.meta = IF same THEN events[e].meta ELSE m]
    <2>1. events[e] \in EventRow /\ events[e].meta \in Meta
      BY <1>1 DEF EventRow
    <2>2. events' = [events EXCEPT ![e] = r]
      BY <1>1, <1>4, <2>1 DEF EventRow
    <2>3. r \in EventRow /\ r.meta \in {events[e].meta, m}
      <3>1. r1 \in EventRow /\ r1.meta = events[e].meta
        <4>1. (events[e].named \/ full) \in BOOLEAN
          OBVIOUS
        <4> QED
          BY <2>1, <4>1 DEF EventRow
      <3>2. (IF same THEN events[e].meta ELSE m) \in Meta \cap {events[e].meta, m}
        BY <1>3, <2>1
      <3> HIDE DEF r1
      <3> QED
        BY <3>1, <3>2 DEF EventRow
    <2> HIDE DEF r
    <2> QED
      BY <1>1, <2>2, <2>3
  <1>6. PICK r \in NlpRow : r.stage = "done" /\ nlp' = [nlp EXCEPT ![x] = r]
    <2>1. nlp' = NlpLeaves(x, "done")
      BY DEF NlpStore
    <2> QED
      BY <2>1, NlpForgets
  <1>7. \A y \in NlpTasks : nlp'[y] = IF y = x THEN r ELSE nlp[y]
    BY <1>1, <1>6
  <1>8. /\ noisy \subseteq noisy' /\ noisy' \subseteq Events
        /\ e \notin noisy' => DigestHolders(e) = {} /\ NlpHolders(e) = {x}
    BY <1>1 DEF NlpStore
  <1>9. DigestTypeOK'
    BY <1>1, <1>5, <1>6, <1>8 DEF DigestInv, DigestTypeOK
  <1>10. x \in NlpHolders(e)
    BY <1>1 DEF NlpHolders
  <1>11. ASSUME NEW f \in Events \ noisy'
         PROVE  /\ QuietFits(f)'
                /\ events[f].meta.digested => events'[f].meta.digested
                /\ events[f].meta.classes # "none" => events'[f].meta.classes # "none"
    <2>1. QuietFits(f)
      BY <1>8 DEF DigestInv
    <2>2. CASE f = e
      <3>1. q.copy = events[e].meta
        BY <1>10, <2>1, <2>2 DEF QuietFits
      <3>2. /\ events'[e].meta.digested = events[e].meta.digested
            /\ events'[e].meta.classes = events[e].meta.classes \/ events'[e].meta.classes # "none"
        BY <1>2, <1>3, <1>5, <3>1
      <3>3. NlpHolders(e)' = {} /\ DigestHolders(e)' = {} /\ Digests(e)' = Digests(e)
        <4>1. DigestHolders(e)' = DigestHolders(e) /\ Digests(e)' = Digests(e)
          BY <1>1, <1>7 DEF DigestHolders, Digests, NlpStore
        <4>2. \A y \in NlpTasks : ~(nlp'[y].stage = "asked" /\ nlp'[y].event = e)
          BY <1>6, <1>7, <1>8, <2>2 DEF NlpHolders
        <4> QED
          BY <1>8, <2>2, <4>1, <4>2 DEF NlpHolders
      <3> QED
        BY <2>1, <2>2, <3>2, <3>3 DEF QuietFits
    <2>3. CASE f # e
      <3>1. ASSUME NEW y \in NlpTasks, nlp'[y].stage = "asked", nlp'[y].event = f
            PROVE  y \in NlpHolders(f) /\ nlp'[y] = nlp[y]
        BY <1>6, <1>7, <3>1 DEF NlpHolders
      <3>2. \A y \in NlpHolders(f)' : nlp'[y].copy = events'[f].meta
        BY <1>5, <2>1, <2>3, <3>1 DEF QuietFits, NlpHolders
      <3>3. DigestHolders(f)' = DigestHolders(f) /\ Digests(f)' = Digests(f)
        BY <1>1 DEF DigestHolders, Digests
      <3> QED
        BY <1>1, <1>5, <2>1, <2>3, <3>2, <3>3 DEF QuietFits
    <2> QED
      BY <2>2, <2>3
  <1>12. \A y \in NlpTasks : Asked(nlp'[y])
    BY <1>6, <1>7 DEF DigestInv, Asked
  <1>13. \A d \in Compilers : Unmarked(digest'[d])
    BY <1>1 DEF DigestInv
  <1> QED
    BY <1>9, <1>11, <1>12, <1>13 DEF DigestInv, FactsStay, Asked, Unmarked

(* The brief and its marks: a quiet event was not in a digest before, because *)
(* the mark that this digest did not see would still be there.                *)
LEMMA StoreDigestStep ==
    ASSUME DigestInv, NEW d \in Compilers, StoreDigest(d)
    PROVE  DigestInv' /\ FactsStay
  <1> DEFINE q0 == digest[d]
             chosen == DOMAIN q0.copy
  <1>1. /\ q0 \in DigestRow /\ q0.stage = "read" /\ digest \in [Compilers -> DigestRow]
        /\ events \in [Events -> EventRow] /\ briefs \in Seq(SUBSET Events) /\ Len(briefs) \in Nat
        /\ DOMAIN briefs = 1 .. Len(briefs) /\ noisy \subseteq Events
        /\ UNCHANGED <<clock, nlp>>
    BY LenProperties DEF DigestInv, DigestTypeOK, StoreDigest
  <1>2. chosen \subseteq Events /\ \A e \in chosen : q0.copy[e] \in Meta /\ ~q0.copy[e].digested
    BY <1>1, DigestFields DEF DigestInv, Unmarked
  <1>3. /\ events' \in [Events -> EventRow]
        /\ \A e \in chosen : /\ events'[e].meta.digested
                             /\ events'[e].meta.classes = q0.copy[e].classes
        /\ \A e \in Events \ chosen : events'[e] = events[e]
    <2>1. events' = [e \in Events |->
              IF e \in chosen THEN [events[e] EXCEPT !.meta = [q0.copy[e] EXCEPT !.digested = TRUE]]
              ELSE events[e]]
      BY DEF StoreDigest
    <2>2. ASSUME NEW e \in chosen
          PROVE  /\ [events[e] EXCEPT !.meta = [q0.copy[e] EXCEPT !.digested = TRUE]] \in EventRow
                 /\ [events[e] EXCEPT !.meta = [q0.copy[e] EXCEPT !.digested = TRUE]].meta
                       = [q0.copy[e] EXCEPT !.digested = TRUE]
                 /\ [q0.copy[e] EXCEPT !.digested = TRUE].digested
                 /\ [q0.copy[e] EXCEPT !.digested = TRUE].classes = q0.copy[e].classes
      <3> DEFINE m == [q0.copy[e] EXCEPT !.digested = TRUE]
      <3>1. q0.copy[e] \in Meta
        BY <1>2
      <3>2. m \in Meta /\ m.digested /\ m.classes = q0.copy[e].classes
        BY <3>1 DEF Meta
      <3>3. events[e] \in EventRow
        BY <1>1, <1>2
      <3> HIDE DEF m
      <3>4. [events[e] EXCEPT !.meta = m] \in EventRow /\ [events[e] EXCEPT !.meta = m].meta = m
        BY <3>2, <3>3 DEF EventRow
      <3> QED
        BY <3>2, <3>4 DEF m
    <2>3. ASSUME NEW e \in Events PROVE events'[e] \in EventRow
      BY <1>1, <2>1, <2>2
    <2>4. DOMAIN events' = Events /\ events' = [e \in Events |-> events'[e]]
      BY <2>1
    <2> QED
      BY <1>2, <2>1, <2>2, <2>3, <2>4
  <1>4. /\ briefs' \in Seq(SUBSET Events) /\ DOMAIN briefs' = 1 .. Len(briefs) + 1
        /\ \A b \in 1 .. Len(briefs) : briefs'[b] = briefs[b]
        /\ briefs'[Len(briefs) + 1] = chosen
    <2>1. briefs' = Append(briefs, chosen) /\ chosen \in SUBSET Events
      BY <1>2 DEF StoreDigest
    <2>2. /\ briefs' \in Seq(SUBSET Events) /\ Len(briefs') = Len(briefs) + 1
          /\ \A b \in 1 .. Len(briefs) : briefs'[b] = briefs[b]
          /\ briefs'[Len(briefs) + 1] = chosen
      BY <1>1, <2>1, AppendProperties
    <2> QED
      BY <2>2, LenProperties
  <1>5. PICK q \in DigestRow : q.stage \in {"stored", "done"} /\ digest' = [digest EXCEPT ![d] = q]
    <2>1. Len(briefs) + 1 \in Nat
      BY <1>1
    <2>2. CASE q0.notify
      <3> DEFINE q1 == [q0 EXCEPT !.stage = "stored"]
                 q  == [q1 EXCEPT !.brief = Len(briefs) + 1]
      <3>1. q \in DigestRow
        <4>1. q1 \in DigestRow
          BY <1>1, DigestEdit
        <4> HIDE DEF q1
        <4> QED
          BY <2>1, <4>1, DigestEdit
      <3>2. q.stage = "stored"
        BY <1>1 DEF DigestRow
      <3>3. digest' = [digest EXCEPT ![d] = q]
        BY <1>1, <2>2 DEF StoreDigest, DigestRow
      <3> HIDE DEF q
      <3> QED
        BY <3>1, <3>2, <3>3
    <2>3. CASE ~q0.notify
      <3>1. PICK q1 \in DigestRow : q1.stage = "done" /\ CompilerLeaves(d, "done") = [digest EXCEPT ![d] = q1]
        BY CompilerForgets
      <3> DEFINE q == [q1 EXCEPT !.brief = Len(briefs) + 1]
      <3>2. q \in DigestRow
        BY <2>1, DigestEdit
      <3>3. q.stage = "done"
        BY <3>1 DEF DigestRow
      <3>4. digest' = [digest EXCEPT ![d] = q]
        BY <1>1, <2>3, <3>1 DEF StoreDigest
      <3> HIDE DEF q
      <3> QED
        BY <3>2, <3>3, <3>4
    <2> QED
      BY <2>2, <2>3
  <1>6. \A c \in Compilers : digest'[c] = IF c = d THEN q ELSE digest[c]
    BY <1>1, <1>5
  <1>7. /\ noisy \subseteq noisy' /\ noisy' \subseteq Events
        /\ \A e \in chosen : e \notin noisy' => NlpHolders(e) = {} /\ DigestHolders(e) = {d}
    BY <1>1, <1>2 DEF StoreDigest
  <1>8. DigestTypeOK'
    BY <1>1, <1>3, <1>4, <1>5, <1>7 DEF DigestInv, DigestTypeOK
  <1>9. \A f \in Events : NlpHolders(f)' = NlpHolders(f)
                          /\ DigestHolders(f)' \subseteq DigestHolders(f) \ {d}
    BY <1>1, <1>5, <1>6 DEF NlpHolders, DigestHolders
  <1>10. ASSUME NEW f \in Events \ noisy'
         PROVE  /\ QuietFits(f)'
                /\ events[f].meta.digested => events'[f].meta.digested
                /\ events[f].meta.classes # "none" => events'[f].meta.classes # "none"
    <2>1. QuietFits(f)
      BY <1>7 DEF DigestInv
    <2>2. CASE f \in chosen
      <3>1. NlpHolders(f)' = {} /\ DigestHolders(f)' = {}
        BY <1>7, <1>9, <2>2
      <3>2. q0.copy[f] = events[f].meta
        BY <1>1, <2>1, <2>2 DEF QuietFits, DigestHolders
      <3>3. Digests(f) = {}
        BY <1>2, <2>1, <2>2, <3>2 DEF QuietFits
      <3>4. Digests(f)' \subseteq {Len(briefs) + 1}
        BY <1>1, <1>4, <3>3 DEF Digests
      <3>5. \A b \in Digests(f)', c \in Digests(f)' : b = c
        BY <3>4
      <3> QED
        BY <1>3, <2>2, <3>1, <3>2, <3>5 DEF QuietFits
    <2>3. CASE f \notin chosen
      <3>1. events'[f] = events[f]
        BY <1>3, <2>3
      <3>2. Digests(f)' = Digests(f)
        BY <1>1, <1>4, <2>3 DEF Digests
      <3>3. \A c \in DigestHolders(f)' : c \in DigestHolders(f) /\ digest'[c] = digest[c]
        BY <1>6, <1>9 DEF DigestHolders
      <3> QED
        BY <1>1, <1>9, <2>1, <3>1, <3>2, <3>3 DEF QuietFits
    <2> QED
      BY <2>2, <2>3
  <1>11. \A y \in NlpTasks : Asked(nlp'[y])
    BY <1>1 DEF DigestInv
  <1>12. \A c \in Compilers : Unmarked(digest'[c])
    BY <1>5, <1>6 DEF DigestInv, Unmarked
  <1> QED
    BY <1>8, <1>10, <1>11, <1>12 DEF DigestInv, FactsStay, Asked, Unmarked

LEMMA DigestStep ==
    ASSUME DigestInv, [DigestNext \/ (NoticeNext /\ UNCHANGED digestVars)]_<<notices, digestVars>>
    PROVE  DigestInv' /\ FactsStay
  <1>1. ASSUME UNCHANGED digestVars PROVE DigestInv' /\ FactsStay
    <2>1. UNCHANGED <<clock, events, nlp, digest, briefs, noisy>>
      BY <1>1 DEF digestVars
    <2>2. DigestTypeOK'
      BY <2>1 DEF DigestInv, DigestTypeOK
    <2>3. \A e \in Events \ noisy : QuietFits(e)'
      BY <2>1 DEF DigestInv, QuietFits, NlpHolders, DigestHolders, Digests
    <2> QED
      BY <2>1, <2>2, <2>3 DEF DigestInv, Asked, Unmarked, FactsStay
  <1>2. ASSUME DigestInv', events' = events \/ \A e \in Events : events'[e].meta = events[e].meta
        PROVE  FactsStay
    BY <1>2 DEF FactsStay
  <1>3. CASE Tick \/ \E e \in Events : Ingested(e)
    BY <1>2, <1>3, DigestTimeStep
  <1>4. ASSUME NEW x \in NlpTasks,
               (\E e \in Events : NlpQueued(x, e)) \/ NlpRead(x) \/ NlpFallback(x) \/ NlpCrash(x) \/ NlpAgain(x)
        PROVE  DigestInv' /\ FactsStay
    BY <1>2, <1>4, NlpQuietStep
  <1>5. ASSUME NEW d \in Compilers,
               (\E h \in Windows, notify \in BOOLEAN : Compile(d, h, notify))
                  \/ Select(d) \/ AnnounceDigest(d) \/ CompileCrash(d) \/ CompileAgain(d)
        PROVE  DigestInv' /\ FactsStay
    BY <1>2, <1>5, CompilerQuietStep
  <1>6. CASE DigestNext
    BY <1>3, <1>4, <1>5, <1>6, NlpStoreStep, StoreDigestStep DEF DigestNext
  <1> QED
    BY <1>1, <1>6

LEMMA DigestInitInv == DigestInit => DigestInv
  <1> SUFFICES ASSUME DigestInit PROVE DigestInv
    OBVIOUS
  <1>1. NoMeta \in Meta /\ NoCopy \in Copies /\ 0 \in 0 .. MaxClock /\ 1 \in 1 .. MaxClock
    BY NoCopyIsACopy, DigestAssumption
  <1>2. events \in [Events -> EventRow]
    BY <1>1 DEF DigestInit, EventRow
  <1>3. nlp \in [NlpTasks -> NlpRow]
    <2>1. (CHOOSE e \in Events : TRUE) \in Events
      BY DigestAssumption
    <2> QED
      BY <1>1, <2>1 DEF DigestInit, NlpRow
  <1>4. digest \in [Compilers -> DigestRow]
    <2>1. (CHOOSE h \in Windows : TRUE) \in Windows
      BY DigestAssumption
    <2> QED
      BY <1>1, <2>1 DEF DigestInit, DigestRow, Copies
  <1>5. briefs \in Seq(SUBSET Events) /\ DOMAIN briefs = {} /\ noisy = {} /\ clock \in 1 .. MaxClock
    BY <1>1, EmptySeq DEF DigestInit
  <1>6. DigestTypeOK
    BY <1>2, <1>3, <1>4, <1>5 DEF DigestTypeOK
  <1>7. \A x \in NlpTasks : nlp[x].stage = "idle"
    BY DEF DigestInit
  <1>8. \A d \in Compilers : digest[d].stage = "idle"
    BY DEF DigestInit
  <1> QED
    BY <1>5, <1>6, <1>7, <1>8 DEF DigestInv, Asked, Unmarked, QuietFits, NlpHolders, DigestHolders, Digests

LEMMA DigestInvAlways == DigestSpec => []DigestInv
  BY DigestInitInv, DigestStep, PTL DEF DigestSpec

(* A set whose elements are all the same has at most one.                     *)
LEMMA AtMostOne ==
    ASSUME NEW S, \A a, b \in S : a = b
    PROVE  Cardinality(S) <= 1
  <1>1. CASE S = {}
    BY <1>1, FS_EmptySet
  <1>2. CASE S # {}
    <2>1. PICK a \in S : TRUE
      BY <1>2
    <2>2. S = {a}
      BY <2>1
    <2> QED
      BY <2>2, FS_Singleton
  <1> QED
    BY <1>1, <1>2

(* What the invariant says of digests.                                        *)
LEMMA DigestsPromise == DigestInv => QuietEventsDigestedOnce
  BY AtMostOne DEF DigestInv, QuietFits, QuietEventsDigestedOnce

(* An event that no two executions handled at the same time is in one digest  *)
(* at most, for every number of digests, retries and enrichments.             *)
THEOREM QuietEventsAreDigestedOnce == DigestSpec => []QuietEventsDigestedOnce
  BY DigestsPromise, DigestInvAlways, PTL

(* Neither the mark of a digest nor a classification is taken back from an    *)
(* event that no two executions handled at the same time.                     *)
THEOREM FactsOfQuietEventsStay == DigestSpec => QuietFactsStay
  <1> DEFINE A == [FactsStay]_digestVars
  <1>1. DigestInv /\ [DigestNext \/ (NoticeNext /\ UNCHANGED digestVars)]_<<notices, digestVars>> => A
    BY DigestStep
  <1> HIDE DEF A
  <1>2. DigestSpec => [][A]_digestVars
    BY <1>1, DigestInvAlways, PTL DEF DigestSpec
  <1> QED
    BY <1>2, PTL DEF QuietFactsStay, A, FactsStay

-----------------------------------------------------------------------------
(* Scores and promotions *)

(* A set of numbers that is not empty has a least one. *)
LEMMA LeastElement ==
    ASSUME NEW T, T \subseteq Nat, T # {}
    PROVE  \E x \in T : \A y \in T : x <= y
  <1> DEFINE R == OpToRel(<, Nat)
             W == IsWellFoundedOn(R, Nat)
  <1>1. R = {ss \in Nat \X Nat : ss[1] < ss[2]}
    BY Zenon DEF OpToRel
  <1>2. W
    BY NatLessThanWellFounded, Zenon
  <1>3. IsWellFoundedOn(R, Nat)
    BY <1>2
  <1> HIDE DEF R, W
  <1>4. PICK x \in T : \A y \in T : ~(<<y, x>> \in R)
    BY <1>3, WFMin
  <1>5. \A y \in T : x <= y
    <2> SUFFICES ASSUME NEW y \in T PROVE x <= y
      OBVIOUS
    <2>1. x \in Nat /\ y \in Nat /\ <<y, x>> \notin R
      BY <1>4
    <2>2. ~(y < x)
      BY <1>1, <2>1
    <2> QED
      BY <2>1, <2>2
  <1> QED
    BY <1>5

BaseOf(r) == SeverityOfScore(Score(r))

(* What the fold of Promoted does with promotion i, and the recursive         *)
(* function on the sets of the first k promotions that it stands for.         *)
Applied(r, i, best) ==
    IF BaseOf(r) \in r.promotions[i].when /\ AtLeast(r.promotions[i].to, best)
    THEN r.promotions[i].to ELSE best
Folded(r, k, g) ==
    [s \in SUBSET (1 .. k) |-> IF s = {} THEN BaseOf(r) ELSE Applied(r, Max(s), g[s \ {Max(s)}])]

(* The severities that the promotions of s may lead to, and the one that wins.*)
Reached(r, s) ==
    {BaseOf(r)} \cup {r.promotions[i].to : i \in {j \in s : BaseOf(r) \in r.promotions[j].when}}
Wins(r, s, v) ==
    /\ v \in Severities /\ v \in Reached(r, s)
    /\ \A w \in Reached(r, s) \cap Severities : w <= v

LEMMA LastPromotionOf ==
    ASSUME NEW k \in Nat, NEW s \in SUBSET (1 .. k + 1), k + 1 \in s
    PROVE  Max(s) = k + 1 /\ s \ {k + 1} \in SUBSET (1 .. k)
  <1>1. \A y \in s : y \in Nat /\ k + 1 >= y
    OBVIOUS
  <1>2. Max(s) \in s /\ \A y \in s : Max(s) >= y
    BY <1>1 DEF Max
  <1>3. Max(s) >= k + 1 /\ k + 1 >= Max(s) /\ Max(s) \in Nat
    BY <1>1, <1>2
  <1>4. Max(s) = k + 1
    BY <1>3
  <1> QED
    BY <1>4

LEMMA EarlierPromotions ==
    ASSUME NEW k \in Nat, NEW s \in SUBSET (1 .. k + 1), k + 1 \notin s
    PROVE  s \in SUBSET (1 .. k)
  OBVIOUS

(* The recursion is well-founded: the function exists.                        *)
LEMMA FoldedExists ==
    ASSUME NEW r, NEW n \in Nat
    PROVE  \E g : g = Folded(r, n, g)
  <1> DEFINE E(k) == \E g : g = Folded(r, k, g)
             T == {k \in Nat : ~E(k)}
  <1>1. E(0)
    <2> DEFINE g == [s \in SUBSET (1 .. 0) |-> BaseOf(r)]
    <2>1. \A s \in SUBSET (1 .. 0) : s = {}
      OBVIOUS
    <2>2. g = Folded(r, 0, g)
      BY <2>1 DEF Folded
    <2> QED
      BY <2>2
  <1>2. ASSUME NEW k \in Nat, E(k) PROVE E(k + 1)
    <2>1. PICK g : g = Folded(r, k, g)
      BY <1>2
    <2> DEFINE h == [s \in SUBSET (1 .. k + 1) |->
                        IF k + 1 \in s THEN Applied(r, k + 1, g[s \ {k + 1}]) ELSE g[s]]
    <2>2. ASSUME NEW s \in SUBSET (1 .. k + 1)
          PROVE  h[s] = IF s = {} THEN BaseOf(r) ELSE Applied(r, Max(s), h[s \ {Max(s)}])
      <3>1. CASE k + 1 \in s
        <4>1. Max(s) = k + 1 /\ s \ {k + 1} \in SUBSET (1 .. k)
          BY <3>1, LastPromotionOf
        <4>2. s \ {k + 1} \in SUBSET (1 .. k + 1) /\ k + 1 \notin s \ {k + 1}
          OBVIOUS
        <4>3. h[s \ {k + 1}] = g[s \ {k + 1}]
          BY <4>2
        <4> QED
          BY <3>1, <4>1, <4>3
      <3>2. CASE k + 1 \notin s
        <4>1. s \in SUBSET (1 .. k)
          BY <3>2, EarlierPromotions
        <4>2. g[s] = IF s = {} THEN BaseOf(r) ELSE Applied(r, Max(s), g[s \ {Max(s)}])
          BY <2>1, <4>1 DEF Folded
        <4>3. h[s \ {Max(s)}] = g[s \ {Max(s)}]
          BY <3>2
        <4> QED
          BY <3>2, <4>2, <4>3
      <3> QED
        BY <3>1, <3>2
    <2>3. h = [s \in SUBSET (1 .. k + 1) |-> h[s]]
      OBVIOUS
    <2> HIDE DEF h
    <2>4. h = Folded(r, k + 1, h)
      BY <2>2, <2>3 DEF Folded
    <2> QED
      BY <2>4
  <1> HIDE DEF E
  <1>3. T = {}
    <2> SUFFICES ASSUME T # {} PROVE FALSE
      OBVIOUS
    <2>1. PICK k \in T : \A m \in T : k <= m
      BY LeastElement
    <2>2. k \in Nat \ {0}
      BY <1>1
    <2>3. k - 1 \in Nat /\ (k - 1) + 1 = k /\ ~(k <= k - 1)
      BY <2>2
    <2>4. E(k - 1)
      BY <2>1, <2>3
    <2> QED
      BY <1>2, <2>3, <2>4
  <1> QED
    BY <1>3 DEF E

LEMMA BaseIsSeverity == \A r : BaseOf(r) \in Severities
  BY DEF BaseOf, SeverityOfScore, Severities

(* Whatever the order of the promotions, the highest severity wins.           *)
LEMMA FoldedWins ==
    ASSUME NEW r, r.promotions \in Seq([when : SUBSET Severities, to : Int]),
           NEW g, g = Folded(r, Len(r.promotions), g)
    PROVE  \A s \in SUBSET (1 .. Len(r.promotions)) : Wins(r, s, g[s])
  <1> DEFINE n == Len(r.promotions)
             B(k) == \E s \in SUBSET (1 .. k) : ~Wins(r, s, g[s])
             T == {k \in 0 .. n : B(k)}
  <1>1. n \in Nat /\ \A i \in 1 .. n : r.promotions[i] \in [when : SUBSET Severities, to : Int]
    BY LenProperties, ElementOfSeq
  <1>2. ~B(0)
    <2>1. \A s \in SUBSET (1 .. 0) : s = {}
      OBVIOUS
    <2>2. {} \in SUBSET (1 .. n) /\ g[{}] = BaseOf(r)
      BY DEF Folded
    <2>3. Reached(r, {}) = {BaseOf(r)}
      BY DEF Reached
    <2>4. Wins(r, {}, g[{}])
      BY <2>2, <2>3, BaseIsSeverity DEF Wins, Severities
    <2> QED
      BY <2>1, <2>4
  <1>3. ASSUME NEW k \in Nat, k + 1 <= n, ~B(k) PROVE ~B(k + 1)
    <2> SUFFICES ASSUME NEW s \in SUBSET (1 .. k + 1) PROVE Wins(r, s, g[s])
      OBVIOUS
    <2>1. CASE k + 1 \notin s
      BY <1>3, <2>1, EarlierPromotions
    <2>2. CASE k + 1 \in s
      <3> DEFINE p == r.promotions[k + 1]
                 s0 == s \ {k + 1}
                 v == g[s0]
      <3>1. Max(s) = k + 1 /\ s0 \in SUBSET (1 .. k)
        BY <2>2, LastPromotionOf
      <3>2. Wins(r, s0, v)
        BY <1>3, <3>1
      <3>3. k + 1 \in 1 .. n /\ s \in SUBSET (1 .. n)
        BY <1>1, <1>3
      <3>4. g[s] = Applied(r, k + 1, v)
        BY <2>2, <3>1, <3>3 DEF Folded
      <3>5. p.to \in Int
        BY <1>1, <3>3
      <3>6. s = s0 \cup {k + 1}
        BY <2>2
      <3>7. Reached(r, s) = Reached(r, s0) \cup (IF BaseOf(r) \in p.when THEN {p.to} ELSE {})
        BY <3>6 DEF Reached
      <3> HIDE DEF s0, v
      <3>8. CASE BaseOf(r) \in p.when /\ AtLeast(p.to, v)
        <4>1. g[s] = p.to /\ p.to \in Severities /\ p.to >= v
          BY <3>4, <3>8 DEF Applied, AtLeast
        <4> QED
          BY SMTT(30), <3>2, <3>7, <3>8, <4>1 DEF Wins, Severities
      <3>9. CASE BaseOf(r) \in p.when /\ ~AtLeast(p.to, v)
        <4>1. g[s] = v /\ (p.to \in Severities => p.to <= v) /\ v \in Severities
          BY SMTT(30), <3>2, <3>4, <3>9 DEF Applied, AtLeast, Wins, Severities
        <4> QED
          BY <3>2, <3>7, <3>9, <4>1 DEF Wins
      <3>10. CASE BaseOf(r) \notin p.when
        <4>1. g[s] = v
          BY <3>4, <3>10 DEF Applied
        <4> QED
          BY <3>2, <3>7, <3>10, <4>1 DEF Wins
      <3> QED
        BY <3>8, <3>9, <3>10
    <2> QED
      BY <2>1, <2>2
  <1> HIDE DEF B
  <1>4. T = {}
    <2> SUFFICES ASSUME T # {} PROVE FALSE
      OBVIOUS
    <2>1. T \subseteq Nat
      BY <1>1
    <2>2. PICK k \in T : \A m \in T : k <= m
      BY <2>1, LeastElement
    <2>3. k \in 0 .. n /\ k # 0
      BY <1>2
    <2>4. k - 1 \in Nat /\ (k - 1) + 1 = k /\ ~(k <= k - 1) /\ k - 1 \in 0 .. n /\ (k - 1) + 1 <= n
      BY <1>1, <2>3
    <2>5. ~B(k - 1)
      BY <2>2, <2>4
    <2> QED
      BY <1>3, <2>4, <2>5
  <1>5. n \in 0 .. n
    BY <1>1
  <1> QED
    BY <1>4, <1>5 DEF B

LEMMA HighestIsPromoted ==
    ASSUME NEW r, r.promotions \in Seq([when : SUBSET Severities, to : Int])
    PROVE  Wins(r, DOMAIN r.promotions, Promoted(r))
  <1>1. DOMAIN r.promotions = 1 .. Len(r.promotions) /\ Len(r.promotions) \in Nat
    BY LenProperties
  <1> DEFINE n == Len(r.promotions)
             g == CHOOSE f : f = Folded(r, n, f)
  <1>2. g = Folded(r, n, g)
    BY <1>1, FoldedExists
  <1>3. Promoted(r) = g[1 .. n]
    BY <1>1 DEF Promoted, FoldLeft, MapThenFoldSet, Folded, Applied, BaseOf
  <1> HIDE DEF g
  <1>4. 1 .. n \in SUBSET (1 .. n)
    OBVIOUS
  <1> QED
    BY <1>1, <1>2, <1>3, <1>4, FoldedWins

-----------------------------------------------------------------------------
(* Alerts *)

Opens(al, e, v) == {a \in DOMAIN al : al[a].event = e /\ al[a].severity = v /\ al[a].status = "open"}

(* A task acts on alerts of its own event and severity, and its severity is   *)
(* the one that its reading leads to.                                         *)
TaskFits(t, al, kn, no) ==
    /\ t.event \in kn /\ t.found \subseteq DOMAIN al
    /\ t.stage = "firing" =>
          \A a \in t.found : al[a].event = t.event /\ al[a].severity = t.severity
    /\ t.stage = "fired" \/ (t.stage = "done" /\ t.rule) =>
          /\ t.alert \in DOMAIN al
          /\ al[t.alert].event = t.event /\ al[t.alert].severity = t.severity
    /\ t.stage = "done" /\ t.rule => \E n \in DOMAIN no : no[n].about = t.alert
    /\ t.reading # 0 => t.severity = Promoted(Readings[t.reading])

(* A calm event has one open alert per severity and one task that acts on     *)
(* what it found, and none while that task is about to open it.               *)
CalmFits(e, ts, al) ==
    LET acting == {x \in DOMAIN ts : ts[x].event = e /\ ts[x].stage = "firing"} IN
    /\ \A v \in Severities, a \in DOMAIN al, b \in DOMAIN al :
          a \in Opens(al, e, v) /\ b \in Opens(al, e, v) => a = b
    /\ \A x \in acting, y \in acting : x = y
    /\ \A x \in acting : ts[x].found = {} => Opens(al, e, ts[x].severity) = {}

AlertInv ==
    /\ AlertTypeOK
    /\ IsFiniteSet(known)
    /\ \A x \in DOMAIN tasks : TaskFits(tasks[x], alerts, known, notices)
    /\ \A e \in calm : CalmFits(e, tasks, alerts)

LEMMA TaskEdit ==
    ASSUME NEW t \in ScoreTasks
    PROVE  /\ \A s \in {"queued", "matched", "firing", "fired", "done", "failed"} :
                 [t EXCEPT !.stage = s] \in ScoreTasks
           /\ \A v \in Severities : [t EXCEPT !.severity = v] \in ScoreTasks
           /\ \A b \in BOOLEAN : [t EXCEPT !.rule = b] \in ScoreTasks
           /\ \A f \in SUBSET Nat : [t EXCEPT !.found = f] \in ScoreTasks
           /\ \A n \in Nat : /\ [t EXCEPT !.count = n] \in ScoreTasks
                             /\ [t EXCEPT !.alert = n] \in ScoreTasks
                             /\ [t EXCEPT !.tries = n] \in ScoreTasks
           /\ \A i \in DOMAIN Readings : [t EXCEPT !.reading = i] \in ScoreTasks
  BY DEF ScoreTasks

LEMMA TaskFields ==
    ASSUME NEW t \in ScoreTasks
    PROVE  /\ t.event \in ScoredEvents /\ t.severity \in Severities /\ t.rule \in BOOLEAN
           /\ t.found \in SUBSET Nat /\ t.count \in Nat /\ t.alert \in Nat /\ t.tries \in Nat
           /\ t.reading \in DOMAIN Readings \cup {0}
           /\ t.stage \in {"queued", "matched", "firing", "fired", "done", "failed"}
  BY DEF ScoreTasks

LEMMA AlertFields ==
    ASSUME NEW a \in AlertRows
    PROVE  /\ a.event \in ScoredEvents /\ a.severity \in Severities /\ a.status \in Statuses
           /\ a.occurrences \in Nat
           /\ \A n \in Nat : [a EXCEPT !.occurrences = n] \in AlertRows
           /\ \A s \in Statuses : [a EXCEPT !.status = s] \in AlertRows
  BY DEF AlertRows

(* What every step of the scoring starts from.                                *)
LEMMA AlertFacts ==
    ASSUME AlertInv
    PROVE  /\ tasks \in Seq(ScoreTasks) /\ DOMAIN tasks = 1 .. Len(tasks) /\ Len(tasks) \in Nat
           /\ \A x \in DOMAIN tasks : tasks[x] \in ScoreTasks
           /\ alerts \in Seq(AlertRows) /\ DOMAIN alerts = 1 .. Len(alerts) /\ Len(alerts) \in Nat
           /\ \A a \in DOMAIN alerts : alerts[a] \in AlertRows
  <1>1. tasks \in Seq(ScoreTasks) /\ alerts \in Seq(AlertRows)
    BY DEF AlertInv, AlertTypeOK
  <1>2. DOMAIN tasks = 1 .. Len(tasks) /\ Len(tasks) \in Nat
        /\ DOMAIN alerts = 1 .. Len(alerts) /\ Len(alerts) \in Nat
    BY <1>1, LenProperties
  <1>3. (\A x \in DOMAIN tasks : tasks[x] \in ScoreTasks)
        /\ (\A a \in DOMAIN alerts : alerts[a] \in AlertRows)
    BY <1>1, <1>2, ElementOfSeq
  <1> QED
    BY <1>1, <1>2, <1>3

(* Notices and alerts that only become more, and alerts that keep what they   *)
(* are about.                                                                 *)
NoticesGrow ==
    /\ DOMAIN notices \subseteq DOMAIN notices'
    /\ \A n \in DOMAIN notices : notices'[n].about = notices[n].about
AlertsGrow ==
    /\ DOMAIN alerts \subseteq DOMAIN alerts'
    /\ \A a \in DOMAIN alerts : alerts'[a].event = alerts[a].event /\ alerts'[a].severity = alerts[a].severity

LEMMA TaskStillFits ==
    ASSUME NEW t, TaskFits(t, alerts, known, notices), t.found \subseteq DOMAIN alerts,
           NoticesGrow, AlertsGrow, known \subseteq known'
    PROVE  TaskFits(t, alerts', known', notices')
  BY DEF TaskFits, NoticesGrow, AlertsGrow

(* A task moves on and writes no alert. When it begins to act on what it      *)
(* finds, its event stays calm only if no other task of it does.              *)
LEMMA TaskMoves ==
    ASSUME AlertInv, NoticesGrow, NEW x \in DOMAIN tasks, NEW t \in ScoreTasks,
           TaskFits(t, alerts, known, notices'), t.event = tasks[x].event,
           tasks' = [tasks EXCEPT ![x] = t],
           t.stage = "firing" => /\ t.found = Opens(alerts, t.event, t.severity)
                                 /\ t.event \in calm' => Firing(t.event) = {},
           calm' \subseteq calm, UNCHANGED <<known, alerts, rescore, triage>>,
           severityOf' \in [ScoredEvents -> Severities \cup {Unscored}],
           budget' \in [crashes : Nat, triages : Nat, rescores : Nat]
    PROVE  AlertInv'
  <1>1. /\ tasks' \in Seq(ScoreTasks) /\ DOMAIN tasks' = DOMAIN tasks
        /\ \A y \in DOMAIN tasks : tasks'[y] = IF y = x THEN t ELSE tasks[y]
    BY AlertFacts, ExceptSeq, LenProperties
  <1>2. AlertsGrow
    BY DEF AlertsGrow
  <1>3. \A y \in DOMAIN tasks' : TaskFits(tasks'[y], alerts', known', notices')
    <2>1. \A y \in DOMAIN tasks : TaskFits(tasks[y], alerts', known', notices')
      BY <1>2, TaskStillFits DEF AlertInv, AlertTypeOK
    <2> QED
      BY <1>1, <2>1
  <1>4. AlertTypeOK'
    BY <1>1, <1>3 DEF AlertInv, AlertTypeOK, TaskFits
  <1>5. ASSUME NEW e \in calm' PROVE CalmFits(e, tasks', alerts')
    <2>1. CalmFits(e, tasks, alerts)
      BY DEF AlertInv
    <2>2. CASE t.stage = "firing" /\ t.event = e
      <3>1. \A y \in DOMAIN tasks : ~(tasks[y].event = e /\ tasks[y].stage = "firing")
        BY <2>2 DEF Firing
      <3>2. \A y \in DOMAIN tasks' : tasks'[y].event = e /\ tasks'[y].stage = "firing" => y = x
        BY <1>1, <3>1
      <3> QED
        BY <1>1, <2>1, <2>2, <3>2 DEF CalmFits
    <2>3. CASE ~(t.stage = "firing" /\ t.event = e)
      <3>1. \A y \in DOMAIN tasks' : tasks'[y].event = e /\ tasks'[y].stage = "firing" =>
               y \in DOMAIN tasks /\ tasks'[y] = tasks[y]
        BY <1>1, <2>3
      <3> QED
        BY <2>1, <3>1 DEF CalmFits
    <2> QED
      BY <2>2, <2>3
  <1> QED
    BY <1>3, <1>4, <1>5 DEF AlertInv, TaskFits, CalmFits, Opens

(* A step that touches no alert and no task.                                  *)
LEMMA AlertsRest ==
    ASSUME AlertInv, NoticesGrow, UNCHANGED <<known, tasks, alerts, calm>>,
           severityOf' \in [ScoredEvents -> Severities \cup {Unscored}],
           rescore' \in [running : BOOLEAN, last : Nat],
           triage' \in [Operators -> [ids : SUBSET DOMAIN alerts, to : Statuses]],
           budget' \in [crashes : Nat, triages : Nat, rescores : Nat]
    PROVE  AlertInv'
  <1>1. AlertsGrow
    BY DEF AlertsGrow
  <1>2. \A x \in DOMAIN tasks' : TaskFits(tasks'[x], alerts', known', notices')
    BY <1>1, TaskStillFits DEF AlertInv, AlertTypeOK
  <1>3. AlertTypeOK'
    BY DEF AlertInv, AlertTypeOK
  <1>4. \A e \in calm' : CalmFits(e, tasks', alerts')
    BY DEF AlertInv
  <1> QED
    BY <1>2, <1>3, <1>4 DEF AlertInv, TaskFits, CalmFits, Opens

LEMMA NoticesRest ==
    ASSUME UNCHANGED notices
    PROVE  NoticesGrow
  BY DEF NoticesGrow

(* Messages for events that are known join the queue.                         *)
LEMMA PublishStep ==
    ASSUME AlertInv, NEW K, NEW es \in Seq(K), K \subseteq ScoredEvents, IsFiniteSet(K),
           known \subseteq K, known' = K, Publish(es),
           UNCHANGED <<severityOf, alerts, triage, calm, budget, notices>>,
           rescore' \in [running : BOOLEAN, last : Nat]
    PROVE  AlertInv'
  <1> DEFINE q == [i \in DOMAIN es |-> Task(es[i])]
  <1>1. DOMAIN es = 1 .. Len(es) /\ Len(es) \in Nat /\ \A i \in 1 .. Len(es) : es[i] \in K
    BY LenProperties, ElementOfSeq
  <1>2. ASSUME NEW e \in K PROVE Task(e) \in ScoreTasks /\ TaskFits(Task(e), alerts, K, notices)
    <2>1. e \in ScoredEvents /\ 0 \in Severities /\ {} \in SUBSET Nat
      BY DEF Severities
    <2> QED
      BY <2>1 DEF Task, ScoreTasks, TaskFits
  <1>3. q \in Seq(ScoreTasks) /\ Len(q) = Len(es) /\ \A i \in 1 .. Len(es) : q[i] = Task(es[i])
    BY <1>1, <1>2
  <1>4. tasks' = tasks \o q
    BY DEF Publish
  <1> HIDE DEF q
  <1>5. /\ tasks' \in Seq(ScoreTasks) /\ Len(tasks') = Len(tasks) + Len(es)
        /\ \A y \in 1 .. Len(tasks) + Len(es) :
              tasks'[y] = IF y <= Len(tasks) THEN tasks[y] ELSE q[y - Len(tasks)]
    BY <1>3, <1>4, AlertFacts, ConcatProperties
  <1>6. DOMAIN tasks' = 1 .. Len(tasks) + Len(es)
    BY <1>5, LenProperties
  <1>7. ASSUME NEW y \in DOMAIN tasks'
        PROVE  \/ y \in DOMAIN tasks /\ tasks'[y] = tasks[y]
               \/ \E e \in K : tasks'[y] = Task(e)
    <2>1. y \in Nat /\ y >= 1 /\ y <= Len(tasks) + Len(es) /\ Len(tasks) \in Nat
          /\ DOMAIN tasks = 1 .. Len(tasks)
      BY <1>1, <1>6, AlertFacts
    <2>2. CASE y <= Len(tasks)
      BY <1>5, <1>6, <2>1, <2>2
    <2>3. CASE ~(y <= Len(tasks))
      <3>1. y - Len(tasks) \in 1 .. Len(es)
        BY <1>1, <2>1, <2>3
      <3>2. tasks'[y] = q[y - Len(tasks)]
        BY <1>5, <1>6, <2>3
      <3>3. q[y - Len(tasks)] = Task(es[y - Len(tasks)]) /\ es[y - Len(tasks)] \in K
        BY <1>1, <1>3, <3>1
      <3> QED
        BY <3>2, <3>3
    <2> QED
      BY <2>2, <2>3
  <1>8. AlertsGrow /\ NoticesGrow
    BY DEF AlertsGrow, NoticesGrow
  <1>9. \A y \in DOMAIN tasks' : TaskFits(tasks'[y], alerts', known', notices')
    <2>1. \A y \in DOMAIN tasks : TaskFits(tasks[y], alerts', known', notices')
      BY <1>8, TaskStillFits DEF AlertInv, AlertTypeOK
    <2>2. \A e \in K : TaskFits(Task(e), alerts', known', notices')
      BY <1>2
    <2> QED
      BY <1>7, <2>1, <2>2
  <1>10. AlertTypeOK'
    BY <1>5, <1>9 DEF AlertInv, AlertTypeOK, TaskFits
  <1>11. ASSUME NEW e \in calm' PROVE CalmFits(e, tasks', alerts')
    <2>1. CalmFits(e, tasks, alerts)
      BY DEF AlertInv
    <2>2. \A y \in DOMAIN tasks' : tasks'[y].stage = "firing" =>
             y \in DOMAIN tasks /\ tasks'[y] = tasks[y]
      BY <1>7 DEF Task
    <2> QED
      BY <2>1, <2>2 DEF CalmFits
  <1> QED
    BY <1>9, <1>10, <1>11 DEF AlertInv, TaskFits, CalmFits, Opens

LEMMA EventStoredStep ==
    ASSUME AlertInv, NEW e \in ScoredEvents, EventStored(e)
    PROVE  AlertInv' /\ notices' = notices
  <1> DEFINE K == known \cup {e}
  <1>1. K \subseteq ScoredEvents /\ known \subseteq K /\ known' = K
    BY DEF AlertInv, AlertTypeOK, EventStored
  <1>2. IsFiniteSet(K)
    BY FS_AddElement DEF AlertInv
  <1>3. <<e>> \in Seq(K)
    OBVIOUS
  <1>4. rescore' \in [running : BOOLEAN, last : Nat]
    BY DEF AlertInv, AlertTypeOK, EventStored
  <1>5. Publish(<<e>>) /\ UNCHANGED <<severityOf, alerts, triage, calm, budget, notices>>
    BY DEF EventStored
  <1> HIDE DEF K
  <1> QED
    BY <1>1, <1>2, <1>3, <1>4, <1>5, PublishStep

LEMMA RescoreBatchStep ==
    ASSUME AlertInv, RescoreBatch
    PROVE  AlertInv' /\ notices' = notices
  <1>1. PICK page \in Pages(rescore.last) :
           /\ Publish(page)
           /\ rescore' = IF Len(page) < BatchSize THEN [rescore EXCEPT !.running = FALSE]
                         ELSE [rescore EXCEPT !.last = page[Len(page)]]
    BY DEF RescoreBatch
  <1>2. /\ known \subseteq ScoredEvents /\ IsFiniteSet(known)
        /\ rescore \in [running : BOOLEAN, last : Nat]
    BY DEF AlertInv, AlertTypeOK
  <1> DEFINE after == {e \in known : e > rescore.last}
             size  == LeastOf(BatchSize, Cardinality(after))
  <1>3. size \in Nat
    <2>1. IsFiniteSet(after)
      BY <1>2, FS_Subset
    <2>2. Cardinality(after) \in Nat
      BY <2>1, FS_CardinalityType
    <2> HIDE DEF after
    <2> QED
      BY <2>2, AlertAssumption DEF LeastOf
  <1>4. page \in [1 .. size -> after]
    BY <1>1 DEF Pages
  <1>5. after \subseteq known
    OBVIOUS
  <1> HIDE DEF size, after
  <1>6. page \in Seq(known) /\ Len(page) = size /\ \A i \in 1 .. size : page[i] \in known
    BY <1>3, <1>4, <1>5
  <1>7. rescore' \in [running : BOOLEAN, last : Nat]
    <2>1. CASE Len(page) < BatchSize
      BY <1>1, <1>2, <2>1
    <2>2. CASE ~(Len(page) < BatchSize)
      <3>1. Len(page) \in 1 .. size
        BY <1>3, <1>6, <2>2, AlertAssumption
      <3>2. page[Len(page)] \in Nat
        BY <1>2, <1>6, <3>1, AlertAssumption
      <3> QED
        BY <1>1, <1>2, <2>2, <3>2
    <2> QED
      BY <2>1, <2>2
  <1>8. UNCHANGED <<known, severityOf, alerts, triage, calm, budget, notices>>
    BY DEF RescoreBatch
  <1> QED
    BY <1>1, <1>2, <1>6, <1>7, <1>8, PublishStep

LEMMA RescoreStartsStep ==
    ASSUME AlertInv, RescoreStarts
    PROVE  AlertInv' /\ notices' = notices
  <1>1. budget \in [crashes : Nat, triages : Nat, rescores : Nat]
    BY DEF AlertInv, AlertTypeOK
  <1>2. budget.rescores - 1 \in Nat
    BY <1>1 DEF RescoreStarts
  <1>3. budget' \in [crashes : Nat, triages : Nat, rescores : Nat]
    BY <1>1, <1>2 DEF RescoreStarts
  <1>4. rescore' \in [running : BOOLEAN, last : Nat]
    BY DEF RescoreStarts
  <1>5. /\ severityOf' \in [ScoredEvents -> Severities \cup {Unscored}]
        /\ triage' \in [Operators -> [ids : SUBSET DOMAIN alerts, to : Statuses]]
        /\ UNCHANGED <<known, tasks, alerts, calm, notices>>
    BY DEF AlertInv, AlertTypeOK, RescoreStarts
  <1> QED
    BY <1>3, <1>4, <1>5, NoticesRest, AlertsRest

LEMMA TriageReadStep ==
    ASSUME AlertInv, NEW o \in Operators, NEW ids \in SUBSET DOMAIN alerts, NEW to \in Statuses,
           NEW dry \in BOOLEAN, TriageRead(o, ids, to, dry)
    PROVE  AlertInv' /\ notices' = notices
  <1>1. budget \in [crashes : Nat, triages : Nat, rescores : Nat]
    BY DEF AlertInv, AlertTypeOK
  <1>2. budget.triages - 1 \in Nat
    BY <1>1 DEF TriageRead
  <1>3. budget' \in [crashes : Nat, triages : Nat, rescores : Nat]
    BY <1>1, <1>2 DEF TriageRead
  <1>4. triage' \in [Operators -> [ids : SUBSET DOMAIN alerts, to : Statuses]]
    BY DEF AlertInv, AlertTypeOK, TriageRead
  <1>5. /\ severityOf' \in [ScoredEvents -> Severities \cup {Unscored}]
        /\ rescore' \in [running : BOOLEAN, last : Nat]
        /\ UNCHANGED <<known, tasks, alerts, calm, notices>>
    BY DEF AlertInv, AlertTypeOK, TriageRead
  <1> QED
    BY <1>3, <1>4, <1>5, NoticesRest, AlertsRest

(* An operator's write opens no alert of an event that stays calm.            *)
LEMMA TriageWriteStep ==
    ASSUME AlertInv, NEW o \in Operators, TriageWrite(o)
    PROVE  AlertInv' /\ notices' = notices
  <1> DEFINE w == triage[o]
  <1>1. w \in [ids : SUBSET DOMAIN alerts, to : Statuses]
    BY DEF AlertInv, AlertTypeOK
  <1>2. PICK t : t = triage[o]
    OBVIOUS
  <1>3. /\ alerts' = [a \in DOMAIN alerts |->
              IF a \in t.ids THEN [alerts[a] EXCEPT !.status = t.to] ELSE alerts[a]]
        /\ triage' = [triage EXCEPT ![o].ids = {}]
        /\ calm' = IF t.to = "open" THEN calm \ {alerts[a].event : a \in t.ids} ELSE calm
        /\ UNCHANGED <<known, tasks, severityOf, rescore, budget, notices>>
    BY <1>2 DEF TriageWrite
  <1>4. t.ids \subseteq DOMAIN alerts /\ t.to \in Statuses
    BY <1>1, <1>2
  <1>5. ASSUME NEW a \in DOMAIN alerts
        PROVE  /\ alerts'[a] \in AlertRows
               /\ alerts'[a].event = alerts[a].event /\ alerts'[a].severity = alerts[a].severity
               /\ a \in t.ids => alerts'[a].status = t.to
               /\ a \notin t.ids => alerts'[a].status = alerts[a].status
    <2>1. alerts[a] \in AlertRows
      BY AlertFacts
    <2>2. CASE a \in t.ids
      <3>1. alerts'[a] = [alerts[a] EXCEPT !.status = t.to]
        BY <1>3, <2>2
      <3> QED
        BY <1>4, <2>1, <2>2, <3>1 DEF AlertRows
    <2>3. CASE a \notin t.ids
      BY <1>3, <2>1, <2>3
    <2> QED
      BY <2>2, <2>3
  <1>6. DOMAIN alerts' = DOMAIN alerts
    BY <1>3
  <1>7. alerts' \in Seq(AlertRows)
    <2>1. DOMAIN alerts' = 1 .. Len(alerts) /\ Len(alerts) \in Nat
      BY <1>6, AlertFacts
    <2>2. alerts' = [a \in 1 .. Len(alerts) |-> alerts'[a]]
      BY <1>3, <2>1
    <2>3. \A a \in 1 .. Len(alerts) : alerts'[a] \in AlertRows
      BY <1>5, <1>6, <2>1
    <2>4. alerts' \in [1 .. Len(alerts) -> AlertRows]
      BY <2>2, <2>3
    <2> QED
      BY <2>1, <2>4
  <1>8. AlertsGrow /\ NoticesGrow
    BY <1>3, <1>5, <1>6 DEF AlertsGrow, NoticesGrow
  <1>9. \A x \in DOMAIN tasks' : TaskFits(tasks'[x], alerts', known', notices')
    <2>1. \A x \in DOMAIN tasks : TaskFits(tasks[x], alerts', known', notices')
      BY <1>3, <1>8, TaskStillFits DEF AlertInv, AlertTypeOK
    <2> QED
      BY <1>3, <2>1
  <1>10. triage' \in [Operators -> [ids : SUBSET DOMAIN alerts, to : Statuses]]
    BY <1>3 DEF AlertInv, AlertTypeOK
  <1>11. calm' \subseteq calm
    BY <1>3
  <1>12. AlertTypeOK'
    BY <1>3, <1>5, <1>6, <1>7, <1>9, <1>10, <1>11 DEF AlertInv, AlertTypeOK, TaskFits
  <1>13. ASSUME NEW e \in calm' PROVE CalmFits(e, tasks', alerts')
    <2>1. CalmFits(e, tasks, alerts)
      BY <1>11 DEF AlertInv
    <2>2. ASSUME NEW v, NEW a \in Opens(alerts', e, v) PROVE a \in Opens(alerts, e, v)
      <3>1. /\ a \in DOMAIN alerts /\ alerts'[a].event = e /\ alerts'[a].severity = v
            /\ alerts'[a].status = "open"
        BY <1>6 DEF Opens
      <3>2. a \notin t.ids
        BY <1>3, <1>5, <3>1
      <3> QED
        BY <1>5, <3>1, <3>2 DEF Opens
    <2> QED
      BY <1>3, <1>6, <2>1, <2>2 DEF CalmFits
  <1> QED
    BY <1>3, <1>9, <1>12, <1>13 DEF AlertInv, TaskFits, CalmFits, Opens

(* The severity that an execution stores is the one that its reading leads to.*)
LEMMA ScoreEventStep ==
    ASSUME AlertInv, NEW x \in DOMAIN tasks, ScoreEvent(x)
    PROVE  AlertInv' /\ notices' = notices
  <1>1. PICK i \in DOMAIN Readings :
          LET s == Promoted(Readings[i]) IN
          /\ severityOf' = [severityOf EXCEPT ![tasks[x].event] = s]
          /\ tasks' = [tasks EXCEPT ![x].severity = s, ![x].reading = i,
                        ![x].stage = IF Matches(Readings[i], s) THEN "matched" ELSE "done",
                        ![x].rule = Matches(Readings[i], s)]
    BY DEF ScoreEvent
  <1>2. PICK s : s = Promoted(Readings[i])
    OBVIOUS
  <1>3. s \in Severities
    BY <1>2, HighestIsPromoted, AlertAssumption DEF Wins
  <1> DEFINE g  == IF Matches(Readings[i], s) THEN "matched" ELSE "done"
             q  == tasks[x]
             r1 == [q EXCEPT !.severity = s]
             r2 == [r1 EXCEPT !.reading = i]
             r3 == [r2 EXCEPT !.stage = g]
             t  == [r3 EXCEPT !.rule = Matches(Readings[i], s)]
  <1>4. q \in ScoreTasks
    BY AlertFacts
  <1>5. Matches(Readings[i], s) \in BOOLEAN
    BY DEF Matches
  <1>6. t \in ScoreTasks
    <2>1. r1 \in ScoreTasks
      BY <1>3, <1>4, TaskEdit
    <2> HIDE DEF r1
    <2>2. r2 \in ScoreTasks
      BY <2>1, TaskEdit
    <2> HIDE DEF r2
    <2>3. r3 \in ScoreTasks
      BY <2>2, TaskEdit
    <2> HIDE DEF r3
    <2> QED
      BY <1>5, <2>3, TaskEdit
  <1>7. /\ t.event = q.event /\ t.found = q.found /\ t.severity = s /\ t.reading = i
        /\ t.stage = g /\ t.rule = Matches(Readings[i], s)
    BY <1>4 DEF ScoreTasks
  <1>8. tasks' = [tasks EXCEPT ![x] = t]
    BY <1>1, <1>2, <1>4 DEF ScoreTasks
  <1> HIDE DEF t
  <1>9. UNCHANGED <<known, alerts, rescore, triage, calm, budget, notices>>
    BY DEF ScoreEvent
  <1>10. TaskFits(t, alerts, known, notices')
    <2>1. TaskFits(q, alerts, known, notices)
      BY DEF AlertInv
    <2>2. t.stage \in {"matched", "done"} /\ (t.stage = "done" => ~t.rule)
      BY <1>7
    <2> QED
      BY <1>2, <1>7, <2>1, <2>2 DEF TaskFits
  <1>11. severityOf' \in [ScoredEvents -> Severities \cup {Unscored}]
    BY <1>1, <1>2, <1>3 DEF AlertInv, AlertTypeOK
  <1>12. budget' \in [crashes : Nat, triages : Nat, rescores : Nat]
    BY <1>9 DEF AlertInv, AlertTypeOK
  <1>13. t.stage # "firing"
    BY <1>7
  <1> QED
    BY <1>6, <1>7, <1>8, <1>9, <1>10, <1>11, <1>12, <1>13, NoticesRest, TaskMoves

(* What is found is what is open for the event at the severity of the task.   *)
LEMMA LookUpStep ==
    ASSUME AlertInv, NEW x \in DOMAIN tasks, LookUp(x)
    PROVE  AlertInv' /\ notices' = notices
  <1>1. PICK f : f = Found(x)
    OBVIOUS
  <1>2. PICK c : c = IF f = {} THEN 0 ELSE alerts[CHOOSE a \in f : TRUE].occurrences
    OBVIOUS
  <1>3. PICK q : q = tasks[x]
    OBVIOUS
  <1>4. q \in ScoreTasks
    BY <1>3, AlertFacts
  <1>5. f = Opens(alerts, q.event, q.severity) /\ f \subseteq DOMAIN alerts
    BY <1>1, <1>3 DEF Found, OpenAlerts, Opens
  <1>6. c \in Nat
    <2>1. CASE f = {}
      BY <1>2, <2>1
    <2>2. CASE f # {}
      <3>1. (CHOOSE a \in f : TRUE) \in DOMAIN alerts
        BY <1>5, <2>2
      <3>2. alerts[CHOOSE a \in f : TRUE] \in AlertRows
        BY <3>1, AlertFacts
      <3> QED
        BY <1>2, <2>2, <3>2, AlertFields
    <2> QED
      BY <2>1, <2>2
  <1>7. f \in SUBSET Nat
    BY <1>5, AlertFacts
  <1> DEFINE r1 == [q EXCEPT !.stage = "firing"]
             r2 == [r1 EXCEPT !.found = f]
             t  == [r2 EXCEPT !.count = c]
  <1>8. t \in ScoreTasks
    <2>1. r1 \in ScoreTasks
      BY <1>4, TaskEdit
    <2> HIDE DEF r1
    <2>2. r2 \in ScoreTasks
      BY <1>7, <2>1, TaskEdit
    <2> HIDE DEF r2
    <2> QED
      BY <1>6, <2>2, TaskEdit
  <1>9. /\ t.event = q.event /\ t.found = f /\ t.severity = q.severity /\ t.reading = q.reading
        /\ t.stage = "firing"
    BY <1>4 DEF ScoreTasks
  <1>10. /\ tasks' = [tasks EXCEPT ![x].stage = "firing", ![x].found = f, ![x].count = c]
         /\ calm' = IF Firing(q.event) # {} THEN calm \ {q.event} ELSE calm
         /\ UNCHANGED <<known, severityOf, alerts, rescore, triage, budget, notices>>
    BY <1>1, <1>2, <1>3 DEF LookUp
  <1>11. tasks' = [tasks EXCEPT ![x] = t]
    BY <1>3, <1>4, <1>10 DEF ScoreTasks
  <1> HIDE DEF t
  <1>12. TaskFits(t, alerts, known, notices')
    <2>1. TaskFits(q, alerts, known, notices)
      BY <1>3 DEF AlertInv
    <2>2. \A a \in t.found : alerts[a].event = t.event /\ alerts[a].severity = t.severity
      BY <1>5, <1>9 DEF Opens
    <2> QED
      BY <1>5, <1>9, <2>1, <2>2 DEF TaskFits
  <1>13. /\ severityOf' \in [ScoredEvents -> Severities \cup {Unscored}]
         /\ budget' \in [crashes : Nat, triages : Nat, rescores : Nat]
    BY <1>10 DEF AlertInv, AlertTypeOK
  <1>14. calm' \subseteq calm /\ (t.event \in calm' => Firing(t.event) = {})
    BY <1>9, <1>10
  <1>15. t.found = Opens(alerts, t.event, t.severity)
    BY <1>5, <1>9
  <1> QED
    BY <1>3, <1>8, <1>9, <1>10, <1>11, <1>12, <1>13, <1>14, <1>15, NoticesRest, TaskMoves

(* The task that forgets its row and goes back to a stage, with its count of  *)
(* retries.                                                                   *)
LEMMA TaskForgets ==
    ASSUME AlertInv, NEW x \in DOMAIN tasks, NEW g \in {"queued", "failed"},
           NEW n \in {tasks[x].tries, tasks[x].tries + 1},
           tasks' = [Forget(x) EXCEPT ![x].tries = n, ![x].stage = g],
           UNCHANGED <<known, severityOf, alerts, rescore, triage, calm, notices>>,
           budget' \in [crashes : Nat, triages : Nat, rescores : Nat]
    PROVE  AlertInv'
  <1>1. PICK q : q = tasks[x]
    OBVIOUS
  <1>2. q \in ScoreTasks /\ n \in Nat
    BY <1>1, AlertFacts, TaskFields
  <1> DEFINE r1 == [q EXCEPT !.found = {}]
             r2 == [r1 EXCEPT !.count = 0]
             r3 == [r2 EXCEPT !.tries = n]
             t  == [r3 EXCEPT !.stage = g]
  <1>3. t \in ScoreTasks
    <2>1. r1 \in ScoreTasks
      BY <1>2, TaskEdit
    <2> HIDE DEF r1
    <2>2. r2 \in ScoreTasks
      BY <2>1, TaskEdit
    <2> HIDE DEF r2
    <2>3. r3 \in ScoreTasks
      BY <1>2, <2>2, TaskEdit
    <2> HIDE DEF r3
    <2> QED
      BY <2>3, TaskEdit
  <1>4. /\ t.event = q.event /\ t.found = {} /\ t.severity = q.severity /\ t.reading = q.reading
        /\ t.stage = g
    BY <1>2 DEF ScoreTasks
  <1>5. tasks' = [tasks EXCEPT ![x] = t]
    BY <1>1, <1>2 DEF ScoreTasks, Forget
  <1> HIDE DEF t
  <1>6. TaskFits(t, alerts, known, notices')
    <2>1. TaskFits(q, alerts, known, notices)
      BY <1>1 DEF AlertInv
    <2> QED
      BY <1>4, <2>1 DEF TaskFits
  <1>7. severityOf' \in [ScoredEvents -> Severities \cup {Unscored}]
    BY DEF AlertInv, AlertTypeOK
  <1> QED
    BY <1>1, <1>3, <1>4, <1>5, <1>6, <1>7, NoticesRest, TaskMoves

LEMMA ScoreFailsStep ==
    ASSUME AlertInv, NEW x \in DOMAIN tasks, ScoreFails(x)
    PROVE  AlertInv' /\ notices' = notices
  <1>1. UNCHANGED <<known, severityOf, alerts, rescore, triage, calm, budget, notices>>
    BY DEF ScoreFails
  <1>2. budget' \in [crashes : Nat, triages : Nat, rescores : Nat]
    BY <1>1 DEF AlertInv, AlertTypeOK
  <1>3. tasks[x] \in ScoreTasks
    BY AlertFacts
  <1>4. CASE tasks[x].tries < MaxScoreTries
    <2>1. tasks' = [Forget(x) EXCEPT ![x].tries = tasks[x].tries + 1, ![x].stage = "queued"]
      BY <1>3, <1>4 DEF ScoreFails, Forget, ScoreTasks
    <2> QED
      BY <1>1, <1>2, <2>1, TaskForgets
  <1>5. CASE ~(tasks[x].tries < MaxScoreTries)
    <2>1. tasks' = [Forget(x) EXCEPT ![x].tries = tasks[x].tries, ![x].stage = "failed"]
      BY ZenonT(30), <1>3, <1>5 DEF ScoreFails, Forget, ScoreTasks
    <2> QED
      BY <1>1, <1>2, <2>1, TaskForgets
  <1> QED
    BY <1>1, <1>4, <1>5

LEMMA ScoreCrashStep ==
    ASSUME AlertInv, NEW x \in DOMAIN tasks, ScoreCrash(x)
    PROVE  AlertInv' /\ notices' = notices
  <1>1. UNCHANGED <<known, severityOf, alerts, rescore, triage, calm, notices>>
    BY DEF ScoreCrash
  <1>2. budget \in [crashes : Nat, triages : Nat, rescores : Nat]
    BY DEF AlertInv, AlertTypeOK
  <1>3. budget.crashes - 1 \in Nat
    BY <1>2 DEF ScoreCrash
  <1>4. budget' \in [crashes : Nat, triages : Nat, rescores : Nat]
    BY <1>2, <1>3 DEF ScoreCrash
  <1>5. tasks[x] \in ScoreTasks
    BY AlertFacts
  <1>6. tasks' = [Forget(x) EXCEPT ![x].tries = tasks[x].tries, ![x].stage = "queued"]
    BY <1>5 DEF ScoreCrash, Forget, ScoreTasks
  <1> QED
    BY <1>1, <1>4, <1>6, TaskForgets

LEMMA NotifyAlertStep ==
    ASSUME NoticeInv, AlertInv, NEW x \in DOMAIN tasks, NotifyAlert(x)
    PROVE  NoticeInv' /\ AlertInv'
  <1>1. PICK q : q = tasks[x]
    OBVIOUS
  <1>2. q \in ScoreTasks /\ q.alert \in Nat
    BY <1>1, AlertFacts, TaskFields
  <1>3. /\ q.stage = "fired" /\ Announce(q.alert, "rules", TRUE, EnvChannels)
        /\ tasks' = [tasks EXCEPT ![x].stage = "done"]
        /\ UNCHANGED <<known, severityOf, alerts, rescore, triage, calm, budget>>
    BY <1>1 DEF NotifyAlert
  <1>4. "rules" \in Payloads /\ TRUE \in BOOLEAN /\ EnvChannels \in Seq(Channels)
    BY NoticeAssumption DEF Payloads
  <1>5. /\ NoticeInv'
        /\ Len(notices) \in Nat /\ DOMAIN notices = 1 .. Len(notices)
        /\ DOMAIN notices' = 1 .. Len(notices) + 1
        /\ \A m \in DOMAIN notices : notices'[m] = notices[m]
        /\ notices'[Len(notices) + 1].about = q.alert
    BY <1>2, <1>3, <1>4, AnnounceStep
  <1>6. NoticesGrow /\ \E n \in DOMAIN notices' : notices'[n].about = q.alert
    BY <1>5 DEF NoticesGrow
  <1> DEFINE t == [q EXCEPT !.stage = "done"]
  <1>7. t \in ScoreTasks
    BY <1>2, TaskEdit
  <1>8. /\ t.event = q.event /\ t.found = q.found /\ t.severity = q.severity /\ t.reading = q.reading
        /\ t.alert = q.alert /\ t.stage = "done"
    BY <1>2 DEF ScoreTasks
  <1>9. tasks' = [tasks EXCEPT ![x] = t]
    BY <1>1, <1>2, <1>3 DEF ScoreTasks
  <1> HIDE DEF t
  <1>10. TaskFits(t, alerts, known, notices')
    <2>1. TaskFits(q, alerts, known, notices)
      BY <1>1 DEF AlertInv
    <2> QED
      BY <1>3, <1>6, <1>8, <2>1 DEF TaskFits
  <1>11. /\ severityOf' \in [ScoredEvents -> Severities \cup {Unscored}]
         /\ budget' \in [crashes : Nat, triages : Nat, rescores : Nat]
    BY <1>3 DEF AlertInv, AlertTypeOK
  <1> QED
    BY <1>1, <1>3, <1>5, <1>6, <1>7, <1>8, <1>9, <1>10, <1>11, TaskMoves

(* No alert becomes open but the n-th, when the look-up found none.           *)
OpensOnlyIfNoneFound(q, n) ==
    \A a \in DOMAIN alerts' :
       \/ a \in DOMAIN alerts /\ alerts'[a].status = alerts[a].status
       \/ a = n /\ q.found = {}

(* A task ends its look-up with an alert that is its own: one that was there  *)
(* and keeps its status, or a new one because it found none. A calm event has *)
(* no other task acting, so what was found is still what is there.            *)
LEMMA FiredStep ==
    ASSUME AlertInv, NEW x \in DOMAIN tasks, NEW q, q = tasks[x], q.stage = "firing",
           NEW t \in ScoreTasks, tasks' = [tasks EXCEPT ![x] = t],
           t.stage = "fired", t.event = q.event, t.severity = q.severity, t.found = {},
           t.reading = q.reading, t.alert \in DOMAIN alerts',
           alerts' \in Seq(AlertRows), AlertsGrow,
           alerts'[t.alert].event = q.event, alerts'[t.alert].severity = q.severity,
           OpensOnlyIfNoneFound(q, t.alert),
           UNCHANGED <<known, severityOf, rescore, triage, calm, budget, notices>>
    PROVE  AlertInv'
  <1>1. /\ tasks' \in Seq(ScoreTasks) /\ DOMAIN tasks' = DOMAIN tasks
        /\ \A y \in DOMAIN tasks : tasks'[y] = IF y = x THEN t ELSE tasks[y]
    BY AlertFacts, ExceptSeq, LenProperties
  <1>2. NoticesGrow
    BY NoticesRest
  <1>3. TaskFits(q, alerts, known, notices)
    BY DEF AlertInv
  <1>4. TaskFits(t, alerts', known', notices')
    BY <1>3 DEF TaskFits
  <1>5. \A y \in DOMAIN tasks' : TaskFits(tasks'[y], alerts', known', notices')
    <2>1. \A y \in DOMAIN tasks : TaskFits(tasks[y], alerts', known', notices')
      BY <1>2, TaskStillFits DEF AlertInv, AlertTypeOK
    <2> QED
      BY <1>1, <1>4, <2>1
  <1>6. \A a \in DOMAIN alerts' : alerts'[a].event \in known
    <2> SUFFICES ASSUME NEW a \in DOMAIN alerts' PROVE alerts'[a].event \in known
      OBVIOUS
    <2>1. CASE a \in DOMAIN alerts
      BY <2>1 DEF AlertInv, AlertTypeOK, AlertsGrow
    <2>2. CASE a = t.alert
      BY <1>3, <2>2 DEF TaskFits
    <2> QED
      BY <2>1, <2>2 DEF OpensOnlyIfNoneFound
  <1>7. triage' \in [Operators -> [ids : SUBSET DOMAIN alerts', to : Statuses]]
    <2>1. triage \in [Operators -> [ids : SUBSET DOMAIN alerts, to : Statuses]]
      BY DEF AlertInv, AlertTypeOK
    <2>2. DOMAIN alerts \subseteq DOMAIN alerts'
      BY DEF AlertsGrow
    <2>3. [ids : SUBSET DOMAIN alerts, to : Statuses] \subseteq [ids : SUBSET DOMAIN alerts', to : Statuses]
      BY <2>2
    <2> QED
      BY <2>1, <2>3
  <1>8. AlertTypeOK'
    BY <1>1, <1>5, <1>6, <1>7 DEF AlertInv, AlertTypeOK, TaskFits
  <1>9. ASSUME NEW e \in calm' PROVE CalmFits(e, tasks', alerts')
    <2>1. CalmFits(e, tasks, alerts)
      BY DEF AlertInv
    <2>2. ASSUME NEW v \in Severities, NEW a \in Opens(alerts', e, v)
          PROVE  \/ a \in Opens(alerts, e, v)
                 \/ /\ a = t.alert /\ q.event = e /\ q.severity = v
                    /\ Opens(alerts, e, v) = {}
      <3>1. /\ a \in DOMAIN alerts' /\ alerts'[a].event = e /\ alerts'[a].severity = v
            /\ alerts'[a].status = "open"
        BY DEF Opens
      <3>2. CASE a \in DOMAIN alerts /\ alerts'[a].status = alerts[a].status
        BY <3>1, <3>2 DEF Opens, AlertsGrow
      <3>3. CASE a = t.alert /\ q.found = {}
        BY <2>1, <3>1, <3>3 DEF CalmFits
      <3> QED
        BY <3>1, <3>2, <3>3 DEF OpensOnlyIfNoneFound
    <2>3. \A v \in Severities, a \in DOMAIN alerts', b \in DOMAIN alerts' :
             a \in Opens(alerts', e, v) /\ b \in Opens(alerts', e, v) => a = b
      <3> SUFFICES ASSUME NEW v \in Severities, NEW a \in Opens(alerts', e, v),
                          NEW b \in Opens(alerts', e, v)
                   PROVE  a = b
        OBVIOUS
      <3>1. CASE a \in Opens(alerts, e, v) /\ b \in Opens(alerts, e, v)
        BY <2>1, <3>1 DEF CalmFits, Opens
      <3>2. CASE ~(a \in Opens(alerts, e, v) /\ b \in Opens(alerts, e, v))
        <4>1. Opens(alerts, e, v) = {}
          BY <2>2, <3>2
        <4> QED
          BY <2>2, <4>1
      <3> QED
        BY <3>1, <3>2
    <2>4. ASSUME NEW y \in DOMAIN tasks', tasks'[y].event = e, tasks'[y].stage = "firing"
          PROVE  y \in DOMAIN tasks /\ tasks'[y] = tasks[y] /\ q.event # e
      <3>1. y # x /\ y \in DOMAIN tasks /\ tasks'[y] = tasks[y]
        BY <1>1, <2>4
      <3>2. q.event # e
        BY <2>1, <2>4, <3>1 DEF CalmFits
      <3> QED
        BY <3>1, <3>2
    <2>5. ASSUME NEW y \in DOMAIN tasks', tasks'[y].event = e, tasks'[y].stage = "firing",
                 tasks'[y].found = {}
          PROVE  Opens(alerts', e, tasks'[y].severity) = {}
      <3>1. y \in DOMAIN tasks /\ tasks'[y] = tasks[y] /\ q.event # e
        BY <2>4, <2>5
      <3>2. Opens(alerts, e, tasks'[y].severity) = {}
        BY <2>1, <2>5, <3>1 DEF CalmFits
      <3>3. tasks[y].severity \in Severities
        BY <3>1, AlertFacts, TaskFields
      <3> QED
        BY <2>2, <3>1, <3>2, <3>3
    <2>6. ASSUME NEW y \in DOMAIN tasks', tasks'[y].event = e, tasks'[y].stage = "firing",
                 NEW z \in DOMAIN tasks', tasks'[z].event = e, tasks'[z].stage = "firing"
          PROVE  y = z
      <3>1. /\ y \in DOMAIN tasks /\ tasks'[y] = tasks[y]
            /\ z \in DOMAIN tasks /\ tasks'[z] = tasks[z]
        BY <2>4, <2>6
      <3> QED
        BY <2>1, <2>6, <3>1 DEF CalmFits
    <2>7. \A y \in DOMAIN tasks', z \in DOMAIN tasks' :
             tasks'[y].event = e /\ tasks'[y].stage = "firing"
             /\ tasks'[z].event = e /\ tasks'[z].stage = "firing" => y = z
      BY <2>6
    <2>8. \A y \in DOMAIN tasks' :
             tasks'[y].event = e /\ tasks'[y].stage = "firing" /\ tasks'[y].found = {}
             => Opens(alerts', e, tasks'[y].severity) = {}
      BY <2>5
    <2> QED
      BY <2>3, <2>7, <2>8 DEF CalmFits
  <1>10. IsFiniteSet(known)'
    BY DEF AlertInv
  <1> QED
    BY <1>5, <1>8, <1>9, <1>10 DEF AlertInv, TaskFits, CalmFits, Opens

(* The record of a task that has fired.                                       *)
LEMMA FiredTask ==
    ASSUME AlertInv, NEW x \in DOMAIN tasks, NEW n \in Nat,
           tasks' = [Forget(x) EXCEPT ![x].stage = "fired", ![x].alert = n]
    PROVE  \E t \in ScoreTasks :
              /\ tasks' = [tasks EXCEPT ![x] = t] /\ t.stage = "fired" /\ t.found = {}
              /\ t.event = tasks[x].event /\ t.severity = tasks[x].severity
              /\ t.reading = tasks[x].reading /\ t.alert = n
  <1>1. PICK q : q = tasks[x]
    OBVIOUS
  <1>2. q \in ScoreTasks
    BY <1>1, AlertFacts
  <1> DEFINE r1 == [q EXCEPT !.found = {}]
             r2 == [r1 EXCEPT !.count = 0]
             r3 == [r2 EXCEPT !.stage = "fired"]
             t  == [r3 EXCEPT !.alert = n]
  <1>3. t \in ScoreTasks
    <2>1. r1 \in ScoreTasks
      BY <1>2, TaskEdit
    <2> HIDE DEF r1
    <2>2. r2 \in ScoreTasks
      BY <2>1, TaskEdit
    <2> HIDE DEF r2
    <2>3. r3 \in ScoreTasks
      BY <2>2, TaskEdit
    <2> HIDE DEF r3
    <2> QED
      BY <2>3, TaskEdit
  <1>4. /\ t.event = q.event /\ t.found = {} /\ t.severity = q.severity /\ t.reading = q.reading
        /\ t.stage = "fired" /\ t.alert = n
    BY <1>2 DEF ScoreTasks
  <1>5. tasks' = [tasks EXCEPT ![x] = t]
    BY <1>1, <1>2 DEF ScoreTasks, Forget
  <1> QED
    BY <1>1, <1>3, <1>4, <1>5

LEMMA RepeatStep ==
    ASSUME AlertInv, NEW x \in DOMAIN tasks, Repeat(x)
    PROVE  AlertInv' /\ notices' = notices
  <1>1. PICK q : q = tasks[x]
    OBVIOUS
  <1>2. PICK a : a = CHOOSE b \in tasks[x].found : TRUE
    OBVIOUS
  <1>3. /\ q.stage = "firing" /\ q.found # {}
        /\ alerts' = [alerts EXCEPT ![a].occurrences = q.count + 1]
        /\ tasks' = [Forget(x) EXCEPT ![x].stage = "fired", ![x].alert = a]
        /\ UNCHANGED <<known, severityOf, rescore, triage, calm, budget, notices>>
    BY <1>1, <1>2 DEF Repeat
  <1>4. TaskFits(q, alerts, known, notices) /\ q \in ScoreTasks
    BY <1>1, AlertFacts DEF AlertInv
  <1>5. a \in q.found
    BY <1>1, <1>2, <1>3
  <1>6. /\ a \in DOMAIN alerts /\ alerts[a].event = q.event /\ alerts[a].severity = q.severity
    BY <1>3, <1>4, <1>5 DEF TaskFits
  <1>7. alerts[a] \in AlertRows /\ q.count + 1 \in Nat /\ a \in Nat
    BY <1>4, <1>6, AlertFacts, TaskFields
  <1> DEFINE r == [alerts[a] EXCEPT !.occurrences = q.count + 1]
  <1>8. r \in AlertRows
    BY <1>7, AlertFields
  <1>9. r.event = alerts[a].event /\ r.severity = alerts[a].severity /\ r.status = alerts[a].status
    BY <1>7 DEF AlertRows
  <1>10. alerts' = [alerts EXCEPT ![a] = r]
    BY <1>3
  <1> HIDE DEF r
  <1>11. /\ alerts' \in Seq(AlertRows) /\ DOMAIN alerts' = DOMAIN alerts
         /\ \A b \in DOMAIN alerts : alerts'[b] = IF b = a THEN r ELSE alerts[b]
    BY <1>6, <1>8, <1>10, AlertFacts, ExceptSeq, LenProperties
  <1>12. AlertsGrow
    BY <1>9, <1>11 DEF AlertsGrow
  <1>13. \A b \in DOMAIN alerts' : b \in DOMAIN alerts /\ alerts'[b].status = alerts[b].status
    BY <1>9, <1>11
  <1>14. PICK t \in ScoreTasks :
              /\ tasks' = [tasks EXCEPT ![x] = t] /\ t.stage = "fired" /\ t.found = {}
              /\ t.event = tasks[x].event /\ t.severity = tasks[x].severity
              /\ t.reading = tasks[x].reading /\ t.alert = a
    <2>1. a \in Nat /\ tasks' = [Forget(x) EXCEPT ![x].stage = "fired", ![x].alert = a]
      BY <1>3, <1>7
    <2> QED
      BY <2>1, FiredTask
  <1>15. t.alert \in DOMAIN alerts' /\ alerts'[t.alert].event = q.event
         /\ alerts'[t.alert].severity = q.severity
    BY <1>6, <1>9, <1>11, <1>14
  <1>16. t.event = q.event /\ t.severity = q.severity /\ t.reading = q.reading
    BY <1>1, <1>14
  <1>17. OpensOnlyIfNoneFound(q, t.alert) /\ alerts' \in Seq(AlertRows)
    BY <1>11, <1>13 DEF OpensOnlyIfNoneFound
  <1>18. /\ UNCHANGED <<known, severityOf, rescore, triage, calm, budget, notices>>
         /\ q.stage = "firing"
    BY <1>3
  <1>19. /\ tasks' = [tasks EXCEPT ![x] = t] /\ t.stage = "fired" /\ t.found = {}
    BY <1>14
  <1> QED
    BY <1>1, <1>12, <1>15, <1>16, <1>17, <1>18, <1>19, FiredStep

LEMMA OpenStep ==
    ASSUME AlertInv, NEW x \in DOMAIN tasks, Open(x)
    PROVE  AlertInv' /\ notices' = notices
  <1>1. PICK q : q = tasks[x]
    OBVIOUS
  <1>2. PICK n : n = Len(alerts) + 1
    OBVIOUS
  <1> DEFINE r == [event |-> q.event, severity |-> q.severity, status |-> "open", occurrences |-> 1]
  <1>3. /\ q.stage = "firing" /\ q.found = {}
        /\ alerts' = Append(alerts, r)
        /\ tasks' = [Forget(x) EXCEPT ![x].stage = "fired", ![x].alert = n]
        /\ UNCHANGED <<known, severityOf, rescore, triage, calm, budget, notices>>
    BY <1>1, <1>2 DEF Open
  <1>4. q \in ScoreTasks /\ n \in Nat
    BY <1>1, <1>2, AlertFacts
  <1>5. r \in AlertRows /\ r.event = q.event /\ r.severity = q.severity
    BY <1>4, TaskFields DEF AlertRows, Statuses
  <1> HIDE DEF r
  <1>6. /\ alerts' \in Seq(AlertRows) /\ Len(alerts') = n
        /\ \A b \in DOMAIN alerts : alerts'[b] = alerts[b]
        /\ alerts'[n] = r
    BY <1>2, <1>3, <1>5, AlertFacts, AppendProperties
  <1>7. DOMAIN alerts' = 1 .. n
    BY <1>6, LenProperties
  <1>8. n \in DOMAIN alerts' /\ \A b \in DOMAIN alerts' : b \in DOMAIN alerts \/ b = n
    BY <1>2, <1>7, AlertFacts
  <1>9. DOMAIN alerts \subseteq DOMAIN alerts'
    BY <1>2, <1>7, AlertFacts
  <1>10. AlertsGrow
    BY <1>6, <1>9 DEF AlertsGrow
  <1>11. PICK t \in ScoreTasks :
              /\ tasks' = [tasks EXCEPT ![x] = t] /\ t.stage = "fired" /\ t.found = {}
              /\ t.event = tasks[x].event /\ t.severity = tasks[x].severity
              /\ t.reading = tasks[x].reading /\ t.alert = n
    BY <1>3, <1>4, FiredTask
  <1>12. t.alert \in DOMAIN alerts' /\ alerts'[t.alert].event = q.event
         /\ alerts'[t.alert].severity = q.severity
    BY <1>5, <1>6, <1>8, <1>11
  <1>13. t.event = q.event /\ t.severity = q.severity /\ t.reading = q.reading
    BY <1>1, <1>11
  <1>14. OpensOnlyIfNoneFound(q, t.alert) /\ alerts' \in Seq(AlertRows)
    BY <1>3, <1>6, <1>8, <1>11 DEF OpensOnlyIfNoneFound
  <1>15. /\ UNCHANGED <<known, severityOf, rescore, triage, calm, budget, notices>>
         /\ q.stage = "firing"
    BY <1>3
  <1>16. /\ tasks' = [tasks EXCEPT ![x] = t] /\ t.stage = "fired" /\ t.found = {}
    BY <1>11
  <1> QED
    BY <1>1, <1>10, <1>12, <1>13, <1>14, <1>15, <1>16, FiredStep

LEMMA AlertStep ==
    ASSUME NoticeInv, AlertInv, AlertNext
    PROVE  NoticeInv' /\ AlertInv'
  <1>1. ASSUME notices' = notices PROVE NoticeInv'
    BY <1>1 DEF NoticeInv, NoticeTypeOK, NoticeFits
  <1>2. CASE \E e \in ScoredEvents : EventStored(e)
    BY <1>1, <1>2, EventStoredStep
  <1>3. CASE RescoreStarts \/ RescoreBatch
    BY <1>1, <1>3, RescoreStartsStep, RescoreBatchStep
  <1>4. ASSUME NEW x \in DOMAIN tasks,
               \/ ScoreEvent(x) \/ LookUp(x) \/ Repeat(x) \/ Open(x) \/ NotifyAlert(x)
               \/ ScoreFails(x) \/ ScoreCrash(x)
        PROVE  NoticeInv' /\ AlertInv'
    BY <1>1, <1>4, ScoreEventStep, LookUpStep, RepeatStep, OpenStep, NotifyAlertStep,
       ScoreFailsStep, ScoreCrashStep
  <1>5. ASSUME NEW o \in Operators, NEW ids \in SUBSET DOMAIN alerts, NEW to \in Statuses,
               NEW dry \in BOOLEAN, TriageRead(o, ids, to, dry)
        PROVE  NoticeInv' /\ AlertInv'
    BY <1>1, <1>5, TriageReadStep
  <1>6. ASSUME NEW o \in Operators, TriageWrite(o)
        PROVE  NoticeInv' /\ AlertInv'
    BY <1>1, <1>6, TriageWriteStep
  <1> QED
    BY <1>2, <1>3, <1>4, <1>5, <1>6 DEF AlertNext

LEMMA AlertInitInv == AlertInit => AlertInv
  <1> SUFFICES ASSUME AlertInit PROVE AlertInv
    OBVIOUS
  <1>1. tasks \in Seq(ScoreTasks) /\ DOMAIN tasks = {}
    BY EmptySeq DEF AlertInit
  <1>2. alerts \in Seq(AlertRows) /\ DOMAIN alerts = {}
    BY EmptySeq DEF AlertInit
  <1>3. known = {} /\ IsFiniteSet(known)
    BY FS_EmptySet DEF AlertInit
  <1>4. "open" \in Statuses
    BY DEF Statuses
  <1>5. triage \in [Operators -> [ids : SUBSET DOMAIN alerts, to : Statuses]]
    BY <1>4 DEF AlertInit
  <1>6. budget \in [crashes : Nat, triages : Nat, rescores : Nat]
    BY AlertAssumption DEF AlertInit
  <1>7. severityOf \in [ScoredEvents -> Severities \cup {Unscored}]
        /\ rescore \in [running : BOOLEAN, last : Nat] /\ calm \subseteq ScoredEvents
    BY DEF AlertInit
  <1>8. AlertTypeOK
    BY <1>1, <1>2, <1>3, <1>5, <1>6, <1>7 DEF AlertTypeOK
  <1>9. \A e \in calm : CalmFits(e, tasks, alerts)
    BY <1>1, <1>2 DEF CalmFits
  <1> QED
    BY <1>1, <1>3, <1>8, <1>9 DEF AlertInv

LEMMA AlertInvAlways == AlertSpec => [](NoticeInv /\ AlertInv)
  <1>1. NoticeInit /\ AlertInit => NoticeInv /\ AlertInv
    <2>1. <<>> \in Seq(Notice) /\ DOMAIN <<>> = {}
      BY EmptySeq
    <2> QED
      BY <2>1, AlertInitInv DEF NoticeInit, NoticeInv, NoticeTypeOK
  <1>2. ASSUME NoticeInv, AlertInv,
               [AlertNext \/ (NoticeNext /\ UNCHANGED alertVars)]_<<notices, alertVars>>
        PROVE  NoticeInv' /\ AlertInv'
    <2>1. CASE AlertNext
      BY <1>2, <2>1, AlertStep
    <2>2. ASSUME NoticeInv', NoticesGrow, UNCHANGED alertVars PROVE AlertInv'
      BY <1>2, <2>2, AlertsRest DEF alertVars, AlertInv, AlertTypeOK
    <2>3. CASE NoticeNext /\ UNCHANGED alertVars
      <3>1. NoticeInv' /\ NoticesGrow
        BY <1>2, <2>3, NoticesMoveOn DEF NoticesGrow
      <3> QED
        BY <2>2, <2>3, <3>1
    <2>4. CASE UNCHANGED <<notices, alertVars>>
      <3>1. NoticeInv' /\ NoticesGrow
        BY <1>2, <2>4, NoticesRest DEF NoticeInv, NoticeTypeOK, NoticeFits
      <3> QED
        BY <2>2, <2>4, <3>1
    <2> QED
      BY <1>2, <2>1, <2>3, <2>4
  <1> QED
    BY <1>1, <1>2, PTL DEF AlertSpec

(* The state of scoring and alerting keeps its types, the sequences of        *)
(* messages and alerts only name events that are stored.                      *)
THEOREM AlertsKeepTheirTypes == AlertSpec => []AlertTypeOK
  <1>1. NoticeInv /\ AlertInv => AlertTypeOK
    BY DEF AlertInv
  <1> QED
    BY <1>1, AlertInvAlways, PTL

(* What the invariant says of calm events, of matches and of promotions.     *)
LEMMA CalmPromise ==
    ASSUME AlertInv
    PROVE  CalmEventsHaveOneAlert
  <1> SUFFICES ASSUME NEW e \in calm, NEW s \in Severities
               PROVE  Cardinality(OpenAlerts(e, s)) <= 1
    BY DEF CalmEventsHaveOneAlert
  <1>1. CalmFits(e, tasks, alerts)
    BY DEF AlertInv
  <1>2. \A a, b \in OpenAlerts(e, s) : a = b
    BY <1>1 DEF CalmFits, Opens, OpenAlerts
  <1> QED
    BY <1>2, AtMostOne

(* Without overlapping tasks of an event and without an operator reopening an *)
(* alert of it, no retry, crash or rescore opens a second alert for the same  *)
(* fingerprint: each look-up still holds when its task writes.                *)
THEOREM CalmEventsKeepOneAlert == AlertSpec => []CalmEventsHaveOneAlert
  BY CalmPromise, AlertInvAlways, PTL

LEMMA MatchedPromise ==
    ASSUME AlertInv
    PROVE  MatchedMeansAlerted
  BY DEF AlertInv, TaskFits, MatchedMeansAlerted

(* A task that is done and matched a rule leaves an alert of its event at its *)
(* severity, and a notice about that alert was published.                     *)
THEOREM MatchesAreAlerted == AlertSpec => []MatchedMeansAlerted
  BY MatchedPromise, AlertInvAlways, PTL

LEMMA PromotedPromise ==
    ASSUME AlertInv
    PROVE  HighestPromotionWins
  <1> SUFFICES ASSUME NEW x \in DOMAIN tasks, tasks[x].reading # 0
               PROVE  LET r    == Readings[tasks[x].reading]
                          base == SeverityOfScore(Score(r))
                          all  == {base} \cup {r.promotions[i].to : i \in
                                     {j \in DOMAIN r.promotions : base \in r.promotions[j].when}}
                      IN  tasks[x].severity \in all /\ \A s \in all \cap Severities : s <= tasks[x].severity
    BY DEF HighestPromotionWins
  <1>1. TaskFits(tasks[x], alerts, known, notices) /\ tasks[x] \in ScoreTasks
    BY AlertFacts DEF AlertInv
  <1>2. tasks[x].reading \in DOMAIN Readings
    BY <1>1, TaskFields
  <1>3. PICK r : r = Readings[tasks[x].reading]
    OBVIOUS
  <1>4. r.promotions \in Seq([when : SUBSET Severities, to : Int])
    BY <1>2, <1>3, AlertAssumption
  <1>5. Wins(r, DOMAIN r.promotions, tasks[x].severity)
    BY <1>1, <1>3, <1>4, HighestIsPromoted DEF TaskFits
  <1> QED
    BY <1>3, <1>5 DEF Wins, Reached, BaseOf

(* The severity that a task stores is the highest one that its promotions     *)
(* allow and never below the score's, for plans with any number of promotions.*)
THEOREM StoredSeverityIsHighest == AlertSpec => []HighestPromotionWins
  BY PromotedPromise, AlertInvAlways, PTL

-----------------------------------------------------------------------------
(* The e-mail channels of a route *)

(* What the fold of EmailChannels does with a channel, and the recursive      *)
(* function on sets of positions that it stands for.                          *)
KeepsMail(kept, c) == IF IsEmail(c) THEN Append(kept, c) ELSE kept
MailFold(route, k, g) ==
    [s \in SUBSET (1 .. k) |-> IF s = {} THEN <<>> ELSE KeepsMail(g[s \ {Max(s)}], route[Max(s)])]

LEMMA MailFoldExists ==
    ASSUME NEW route, NEW n \in Nat
    PROVE  \E g : g = MailFold(route, n, g)
  <1> DEFINE E(k) == \E g : g = MailFold(route, k, g)
             T == {k \in Nat : ~E(k)}
  <1>1. E(0)
    <2> DEFINE g == [s \in SUBSET (1 .. 0) |-> <<>>]
    <2>1. \A s \in SUBSET (1 .. 0) : s = {}
      OBVIOUS
    <2>2. g = MailFold(route, 0, g)
      BY <2>1 DEF MailFold
    <2> QED
      BY <2>2
  <1>2. ASSUME NEW k \in Nat, E(k) PROVE E(k + 1)
    <2>1. PICK g : g = MailFold(route, k, g)
      BY <1>2
    <2> DEFINE h == [s \in SUBSET (1 .. k + 1) |->
                        IF k + 1 \in s THEN KeepsMail(g[s \ {k + 1}], route[k + 1]) ELSE g[s]]
    <2>2. ASSUME NEW s \in SUBSET (1 .. k + 1)
          PROVE  h[s] = IF s = {} THEN <<>> ELSE KeepsMail(h[s \ {Max(s)}], route[Max(s)])
      <3>1. CASE k + 1 \in s
        <4>1. Max(s) = k + 1 /\ s \ {k + 1} \in SUBSET (1 .. k)
          BY <3>1, LastPromotionOf
        <4>2. s \ {k + 1} \in SUBSET (1 .. k + 1) /\ k + 1 \notin s \ {k + 1}
          OBVIOUS
        <4>3. h[s \ {k + 1}] = g[s \ {k + 1}]
          BY <4>2
        <4> QED
          BY <3>1, <4>1, <4>3
      <3>2. CASE k + 1 \notin s
        <4>1. s \in SUBSET (1 .. k)
          BY <3>2, EarlierPromotions
        <4>2. g[s] = IF s = {} THEN <<>> ELSE KeepsMail(g[s \ {Max(s)}], route[Max(s)])
          BY <2>1, <4>1 DEF MailFold
        <4>3. h[s \ {Max(s)}] = g[s \ {Max(s)}]
          BY <3>2
        <4> QED
          BY <3>2, <4>2, <4>3
      <3> QED
        BY <3>1, <3>2
    <2>3. h = [s \in SUBSET (1 .. k + 1) |-> h[s]]
      OBVIOUS
    <2> HIDE DEF h
    <2>4. h = MailFold(route, k + 1, h)
      BY <2>2, <2>3 DEF MailFold
    <2> QED
      BY <2>4
  <1> HIDE DEF E
  <1>3. T = {}
    <2> SUFFICES ASSUME T # {} PROVE FALSE
      OBVIOUS
    <2>1. PICK k \in T : \A m \in T : k <= m
      BY LeastElement
    <2>2. k \in Nat \ {0}
      BY <1>1
    <2>3. k - 1 \in Nat /\ (k - 1) + 1 = k /\ ~(k <= k - 1)
      BY <2>2
    <2>4. E(k - 1)
      BY <2>1, <2>3
    <2> QED
      BY <1>2, <2>3, <2>4
  <1> QED
    BY <1>3 DEF E

(* A digest's notice goes to channels that the plan or the deployment names.  *)
LEMMA EmailChannelsTyped ==
    ASSUME NEW route \in Seq(Channels)
    PROVE  EmailChannels(route) \in Seq(Channels)
  <1> DEFINE n == Len(route)
             g == CHOOSE f : f = MailFold(route, n, f)
             mails == g[1 .. n]
  <1>1. n \in Nat /\ DOMAIN route = 1 .. n /\ \A i \in 1 .. n : route[i] \in Channels
    BY LenProperties, ElementOfSeq
  <1>2. g = MailFold(route, n, g)
    BY <1>1, MailFoldExists
  <1>3. EmailChannels(route) = IF mails = <<>> THEN <<BareEmail>> ELSE mails
    BY <1>1 DEF EmailChannels, FoldLeft, MapThenFoldSet, MailFold, KeepsMail
  <1> HIDE DEF g, n
  <1> DEFINE B(k) == \A s \in SUBSET (1 .. k) : g[s] \in Seq(Channels)
             T == {k \in Nat : k <= n /\ ~B(k)}
  <1>4. B(0)
    <2>1. \A s \in SUBSET (1 .. 0) : s = {}
      OBVIOUS
    <2>2. {} \in SUBSET (1 .. n) /\ g[{}] = <<>>
      BY <1>2 DEF MailFold
    <2>3. <<>> \in Seq(Channels)
      BY EmptySeq
    <2> QED
      BY <2>1, <2>2, <2>3
  <1>5. ASSUME NEW k \in Nat, k + 1 <= n, B(k) PROVE B(k + 1)
    <2> SUFFICES ASSUME NEW s \in SUBSET (1 .. k + 1) PROVE g[s] \in Seq(Channels)
      OBVIOUS
    <2>1. CASE k + 1 \notin s
      BY <1>5, <2>1, EarlierPromotions
    <2>2. CASE k + 1 \in s
      <3>1. Max(s) = k + 1 /\ s \ {k + 1} \in SUBSET (1 .. k)
        BY <2>2, LastPromotionOf
      <3>2. k + 1 \in 1 .. n /\ s \in SUBSET (1 .. n) /\ route[k + 1] \in Channels
        BY <1>1, <1>5
      <3>3. g[s \ {k + 1}] \in Seq(Channels)
        BY <1>5, <3>1
      <3>4. g[s] = KeepsMail(g[s \ {k + 1}], route[k + 1])
        BY <1>2, <2>2, <3>1, <3>2 DEF MailFold
      <3>5. Append(g[s \ {k + 1}], route[k + 1]) \in Seq(Channels)
        BY <3>2, <3>3, AppendProperties
      <3>6. g[s] \in {g[s \ {k + 1}], Append(g[s \ {k + 1}], route[k + 1])}
        BY <3>4 DEF KeepsMail
      <3> QED
        BY <3>3, <3>5, <3>6
    <2> QED
      BY <2>1, <2>2
  <1> HIDE DEF B
  <1>6. T = {}
    <2> SUFFICES ASSUME T # {} PROVE FALSE
      OBVIOUS
    <2>1. PICK k \in T : \A m \in T : k <= m
      BY LeastElement
    <2>2. k \in Nat \ {0} /\ k <= n /\ ~B(k)
      BY <1>4
    <2>3. k - 1 \in Nat /\ (k - 1) + 1 = k /\ ~(k <= k - 1) /\ k - 1 <= n
      BY <1>1, <2>2
    <2>4. B(k - 1)
      BY <2>1, <2>3
    <2> QED
      BY <1>5, <2>2, <2>3, <2>4
  <1>7. B(n)
    BY <1>1, <1>6
  <1>8. mails \in Seq(Channels)
    BY <1>7 DEF B
  <1>9. BareEmail \in Channels
    BY DigestAssumption
  <1>10. <<BareEmail>> \in Seq(Channels)
    BY <1>9
  <1> QED
    BY <1>3, <1>8, <1>10

-----------------------------------------------------------------------------
(* All services at once *)

(* A notice published by anyone leaves the earlier ones as they are.          *)
LEMMA AnnouncementStep ==
    ASSUME NoticeInv, NEW about \in Nat, NEW payload \in Payloads, NEW severe \in BOOLEAN,
           NEW channels \in Seq(Channels), Announce(about, payload, severe, channels)
    PROVE  NoticeInv' /\ NoticesGrow
  <1>1. /\ NoticeInv'
        /\ Len(notices) \in Nat /\ DOMAIN notices = 1 .. Len(notices)
        /\ DOMAIN notices' = 1 .. Len(notices) + 1
        /\ \A m \in DOMAIN notices : notices'[m] = notices[m]
    BY AnnounceStep
  <1> QED
    BY <1>1 DEF NoticesGrow

(* Of the steps of digests and enrichment only the announcement of a digest   *)
(* touches the notices.                                                       *)
LEMMA DigestNoticeStep ==
    ASSUME NoticeInv, DigestInv, DigestNext
    PROVE  NoticeInv' /\ NoticesGrow
  <1>1. CASE UNCHANGED notices
    BY <1>1, NoticesRest DEF NoticeInv, NoticeTypeOK, NoticeFits
  <1>2. ASSUME NEW d \in Compilers, AnnounceDigest(d) PROVE NoticeInv' /\ NoticesGrow
    <2>1. PICK route \in Routes :
             Announce(digest[d].brief, "full", DOMAIN digest[d].copy \cap SevereEvents # {},
                      EmailChannels(route))
      BY <1>2 DEF AnnounceDigest
    <2>2. digest[d].brief \in Nat
      BY DigestFields DEF DigestInv, DigestTypeOK
    <2>3. route \in Seq(Channels)
      BY DigestAssumption
    <2>4. PICK severe \in BOOLEAN : severe = (DOMAIN digest[d].copy \cap SevereEvents # {})
      OBVIOUS
    <2>5. PICK channels \in Seq(Channels) : channels = EmailChannels(route)
      BY <2>3, EmailChannelsTyped
    <2>6. Announce(digest[d].brief, "full", severe, channels)
      BY <2>1, <2>4, <2>5
    <2> QED
      BY <2>2, <2>6, AnnouncementStep DEF Payloads
  <1>3. ASSUME NEW x \in NlpTasks,
               (\E e \in Events : NlpQueued(x, e)) \/ NlpRead(x) \/ NlpFallback(x) \/ NlpStore(x)
                  \/ NlpCrash(x) \/ NlpAgain(x)
        PROVE  UNCHANGED notices
    BY <1>3 DEF NlpQueued, NlpRead, NlpFallback, NlpStore, NlpCrash, NlpAgain
  <1>4. ASSUME NEW d \in Compilers,
               (\E h \in Windows, notify \in BOOLEAN : Compile(d, h, notify)) \/ Select(d)
                  \/ StoreDigest(d) \/ CompileCrash(d) \/ CompileAgain(d)
        PROVE  UNCHANGED notices
    <2>1. CASE \E h \in Windows, notify \in BOOLEAN : Compile(d, h, notify)
      BY <2>1 DEF Compile
    <2>2. CASE Select(d) \/ CompileCrash(d) \/ CompileAgain(d)
      BY <2>2 DEF Select, CompileCrash, CompileAgain
    <2>3. CASE StoreDigest(d)
      BY <2>3 DEF StoreDigest
    <2> QED
      BY <1>4, <2>1, <2>2, <2>3
  <1>5. ASSUME Tick \/ \E e \in Events : Ingested(e) PROVE UNCHANGED notices
    BY <1>5 DEF Tick, Ingested
  <1> QED
    BY <1>1, <1>2, <1>3, <1>4, <1>5 DEF DigestNext

(* The services keep their invariants side by side, and what is known of quiet*)
(* events: those that publish only add to the notices, and nobody else reads  *)
(* what a service writes.                                                     *)
ServicesInv == NoticeInv /\ DigestInv /\ AlertInv /\ StoreInv

LEMMA AlertsKeepInv ==
    ASSUME AlertInv, NoticesGrow, UNCHANGED alertVars
    PROVE  AlertInv'
  BY AlertsRest DEF alertVars, AlertInv, AlertTypeOK

LEMMA DigestsKeepInv ==
    ASSUME DigestInv, UNCHANGED digestVars
    PROVE  DigestInv' /\ FactsStay
  <1>1. UNCHANGED <<clock, events, nlp, digest, briefs, noisy>>
    BY DEF digestVars
  <1>2. DigestTypeOK'
    BY <1>1 DEF DigestInv, DigestTypeOK
  <1>3. \A e \in Events \ noisy : QuietFits(e)'
    BY <1>1 DEF DigestInv, QuietFits, NlpHolders, DigestHolders, Digests
  <1> QED
    BY <1>1, <1>2, <1>3 DEF DigestInv, Asked, Unmarked, FactsStay

LEMMA NoticesKeepInv ==
    ASSUME NoticeInv, UNCHANGED notices
    PROVE  NoticeInv' /\ NoticesGrow
  BY NoticesRest DEF NoticeInv, NoticeTypeOK, NoticeFits

LEMMA ServicesStep ==
    ASSUME ServicesInv, [EventServicesNext]_eventServicesVars
    PROVE  ServicesInv' /\ FactsStay
  <1>1. NoticeInv /\ DigestInv /\ AlertInv /\ StoreInv
    BY DEF ServicesInv
  <1>2. CASE NoticesMove
    <2>1. UNCHANGED digestVars /\ UNCHANGED alertVars /\ UNCHANGED storeVars
      BY <1>2 DEF NoticesMove
    <2>2. CASE AnyCall
      <3>1. PICK payload \in Payloads, severe \in BOOLEAN, channels \in Seq(Channels) :
               Announce(0, payload, severe, channels)
        BY <2>2 DEF AnyCall, Call
      <3>2. NoticeInv' /\ NoticesGrow
        BY <1>1, <3>1, AnnouncementStep
      <3> QED
        BY <1>1, <2>1, <3>2, AlertsKeepInv, DigestsKeepInv, NextInv DEF ServicesInv
    <2>3. CASE NoticeNext
      <3>1. NoticeInv' /\ NoticesGrow
        BY <1>1, <2>3, NoticesMoveOn DEF NoticesGrow
      <3> QED
        BY <1>1, <2>1, <3>1, AlertsKeepInv, DigestsKeepInv, NextInv DEF ServicesInv
    <2> QED
      BY <1>2, <2>2, <2>3 DEF NoticesMove
  <1>3. CASE DigestsMove
    <2>1. DigestNext /\ UNCHANGED alertVars /\ UNCHANGED storeVars
      BY <1>3 DEF DigestsMove
    <2>2. NoticeInv' /\ NoticesGrow
      BY <1>1, <2>1, DigestNoticeStep
    <2>3. DigestInv' /\ FactsStay
      BY <1>1, <2>1, DigestStep
    <2> QED
      BY <1>1, <2>1, <2>2, <2>3, AlertsKeepInv, NextInv DEF ServicesInv
  <1>4. CASE AlertsMove
    <2>1. AlertNext /\ UNCHANGED digestVars /\ UNCHANGED storeVars
      BY <1>4 DEF AlertsMove
    <2> QED
      BY <1>1, <2>1, AlertStep, DigestsKeepInv, NextInv DEF ServicesInv
  <1>5. CASE StoresMove \/ UNCHANGED eventServicesVars
    <2>1. [StoreNext]_storeVars /\ UNCHANGED notices /\ UNCHANGED digestVars /\ UNCHANGED alertVars
      BY <1>5 DEF StoresMove, eventServicesVars
    <2>2. NoticeInv' /\ NoticesGrow
      BY <1>1, <2>1, NoticesKeepInv
    <2> QED
      BY <1>1, <2>1, <2>2, AlertsKeepInv, DigestsKeepInv, NextInv DEF ServicesInv
  <1> QED
    BY <1>2, <1>3, <1>4, <1>5 DEF EventServicesNext

LEMMA ServicesInitInv == EventServicesInit => ServicesInv
  <1>1. NoticeInit => NoticeInv
    <2>1. <<>> \in Seq(Notice) /\ DOMAIN <<>> = {}
      BY EmptySeq
    <2> QED
      BY <2>1 DEF NoticeInit, NoticeInv, NoticeTypeOK
  <1> QED
    BY <1>1, DigestInitInv, AlertInitInv, InitInv DEF EventServicesInit, ServicesInv

LEMMA ServicesInvAlways == EventServicesSpec => []ServicesInv
  BY ServicesInitInv, ServicesStep, PTL DEF EventServicesSpec

(* The types of notices, digests, alerts and stores, when the tasks of all of *)
(* them run at once and in any order.                                         *)
THEOREM ServicesKeepTheirTypes == EventServicesSpec => []EventServicesTypeOK
  <1>1. ServicesInv => EventServicesTypeOK
    BY DEF ServicesInv, NoticeInv, DigestInv, AlertInv, StoreInv, EventServicesTypeOK
  <1> QED
    BY <1>1, ServicesInvAlways, PTL

(* What each service keeps when it runs alone.                                *)
ServicesPromises ==
    /\ RepeatsAreOwn /\ QuietEventsDigestedOnce
    /\ CalmEventsHaveOneAlert /\ MatchedMeansAlerted /\ HighestPromotionWins
    /\ PurgeEndsClean /\ OrphansAreExplained /\ UncrowdedUpsertsAreExact


(* What each service keeps when it runs alone it keeps in company: channels   *)
(* hear a notice once, quiet events are digested once, calm events have one   *)
(* alert, matches are alerted, promotions win, purges are complete, orphans   *)
(* are explained and lone upserts exact, however the tasks interleave.        *)
THEOREM ServicesKeepTheirPromises == EventServicesSpec => []ServicesPromises
  <1>1. StoreInv => PurgeEndsClean /\ OrphansAreExplained /\ UncrowdedUpsertsAreExact
    BY PurgesPromise, OrphansPromise, UpsertsPromise
  <1>2. ServicesInv => ServicesPromises
    BY <1>1, NoticesPromise, DigestsPromise, CalmPromise, MatchedPromise, PromotedPromise
       DEF ServicesInv, ServicesPromises
  <1> QED
    BY <1>2, ServicesInvAlways, PTL

(* Neither the mark nor the classification of a quiet event is taken back,    *)
(* whatever the other services do between the read and the write of a task.   *)
THEOREM FactsStayInCompany == EventServicesSpec => QuietFactsStay
  <1> DEFINE A == [FactsStay]_digestVars
  <1>1. ServicesInv /\ [EventServicesNext]_eventServicesVars => A
    BY ServicesStep
  <1> HIDE DEF A
  <1>2. EventServicesSpec => [][A]_digestVars
    BY <1>1, ServicesInvAlways, PTL DEF EventServicesSpec
  <1> QED
    BY <1>2, PTL DEF QuietFactsStay, A, FactsStay
=============================================================================
