------------------------------- MODULE SourceFetch -------------------------------
(* A source and the connector that the ingest task fetches it with (connectors/): the     *)
(* requests with their retries and redirects, the hash store of the policy portals, and   *)
(* what of the source reaches the events. The rest of the ingest task is IngestPipeline.  *)
EXTENDS Integers, FiniteSets, Sequences, SequencesExt

CONSTANTS
    Kinds,           \* the connectors of this instance
    MaxAttempts,     \* requests for one answer: _MAX_RETRIES, range(3)
    MaxRedirects,    \* _MAX_REDIRECTS
    PageSize,        \* items of one answer: limit, maxrecords, 100 updates
    MaxPages,        \* max_pages of nvd
    MaxItems,        \* max_items
    Lookback,        \* lookback_hours, in units of time
    MaxIngestTries,  \* max_retries of the ingest task
    MaxPosts, Changing, MaxVersion,    \* bounds: posts, those that change, their versions
    MaxTime, MaxRuns, MaxFetchCrashes  \* bounds

(* Connectors that ask again, and those that take the first answer or raise.              *)
Retrying == {"rss", "reddit", "xai", "gdelt", "acled"}
Plain == {"telegram", "pastebin", "nvd", "kev", "urlhaus", "threatfox", "shodan", "otx", "osv",
          "nws", "reliefweb", "bazaar", "feodo"}

ASSUME FetchAssumption ==
    /\ Kinds \subseteq {"policy", "walled"} \cup Retrying \cup Plain
    /\ {MaxAttempts, MaxRedirects, PageSize, MaxPages, MaxItems} \subseteq Nat \ {0}
    /\ Changing \subseteq 1 .. MaxPosts
    /\ {MaxVersion, MaxTime} \subseteq Nat \ {0}
    /\ {Lookback, MaxIngestTries, MaxPosts, MaxRuns, MaxFetchCrashes} \subseteq Nat

VARIABLES
    kind,       \* the connector
    time,
    feed,       \* what the source publishes, oldest first: version and time of each post
    hashes,     \* policy_hashes in Redis: hashes[i] is the version last seen of a link, 0 for none
    fetch,      \* the execution of the ingest task
    caught,     \* items that became events
    dropped     \* history: versions that an execution lost, and that no event has

fetchVars == <<kind, time, feed, hashes, fetch, caught, dropped>>

Posts == 1 .. MaxPosts
Windowed == {"xai", "gdelt", "telegram", "pastebin", "nvd", "threatfox"}   \* ask for a window of time
Item(i, version) == [key |-> i, version |-> version]
Fresh(run, crashes, tries, stage) ==   \* nothing of an execution but its counts
    [run |-> run, crashes |-> crashes, tries |-> tries, stage |-> stage, target |-> 0, attempt |-> 0,
     hops |-> 0, todo |-> <<>>, items |-> <<>>, redis |-> TRUE]

FetchInit ==
    /\ kind \in Kinds
    /\ time = 1 /\ feed = <<>>
    /\ hashes = [i \in Posts |-> 0]
    /\ fetch = Fresh(0, 0, 0, "idle")
    /\ caught = {} /\ dropped = {}

(* ------------------------------------------------------------------------------------- *)
(* The source                                                                            *)

PostAppears ==
    /\ Len(feed) < MaxPosts
    /\ feed' = Append(feed, [version |-> 1, at |-> time])
    /\ UNCHANGED <<kind, time, hashes, fetch, caught, dropped>>

(* A post is edited, a policy changes or returns to an earlier text, a CVE is modified,   *)
(* the model words a tweet differently: what the item is made of, under the same key.     *)
(* Updates of a channel are never edited.                                                 *)
PostChanges ==
    /\ kind # "telegram"
    /\ \E i \in Changing \cap 1 .. Len(feed), version \in 1 .. MaxVersion :
          /\ version # feed[i].version
          /\ feed' = [feed EXCEPT ![i].version = version]
    /\ UNCHANGED <<kind, time, hashes, fetch, caught, dropped>>

TimePasses ==
    /\ time < MaxTime /\ kind \in Windowed
    /\ time' = time + 1
    /\ UNCHANGED <<kind, feed, hashes, fetch, caught, dropped>>

(* ------------------------------------------------------------------------------------- *)
(* Answers to a request: "limited" is 429, "busy" 503, "down" another 5xx, "unreached" a  *)
(* transport error, "blocked" the page of a bot check, "garbled" a body that cannot be     *)
(* decoded or an address that is none. The reaction is to ask "again", to "follow", to    *)
(* give up with "none", to "raise" or to "take" the items.                                *)

Answers == {"ok", "redirect", "blocked", "limited", "busy", "down", "unreached", "refused", "garbled"}

(* Only transport errors are caught.                                                      *)
PolicyReaction(answer) ==
    CASE answer \in {"limited", "busy", "down", "unreached"} -> "again"
      [] answer = "redirect" -> "follow"
      [] answer = "garbled" -> "raise"
      [] OTHER -> "none"

(* A portal behind a bot check, fetched with the TLS fingerprint of a browser: every      *)
(* exception is caught.                                                                   *)
WalledReaction(answer) == IF answer = "redirect" THEN "follow" ELSE "none"

RssReaction(answer) == PolicyReaction(answer)

XaiReaction(answer) == IF answer \in {"limited", "busy", "down"} THEN "again" ELSE "raise"
JsonReaction(answer) == IF answer = "blocked" THEN "none" ELSE "raise"   \* what is not JSON has no items
RedditReaction(answer) == IF answer = "limited" THEN "again" ELSE JsonReaction(answer)
GdeltReaction(answer) == IF answer \in {"limited", "busy"} THEN "again" ELSE JsonReaction(answer)
AcledReaction(answer) == IF answer \in {"limited", "busy"} THEN "again" ELSE JsonReaction(answer)

IsPortal == kind \in {"policy", "walled"}

Reaction(answer) ==
    CASE answer = "ok" -> "take"
      [] answer # "ok" /\ kind = "policy" -> PolicyReaction(answer)
      [] answer # "ok" /\ kind = "walled" -> WalledReaction(answer)
      [] answer # "ok" /\ kind = "rss" -> RssReaction(answer)
      [] answer # "ok" /\ kind = "xai" -> XaiReaction(answer)
      [] answer # "ok" /\ kind = "reddit" -> RedditReaction(answer)
      [] answer # "ok" /\ kind = "gdelt" -> GdeltReaction(answer)
      [] answer # "ok" /\ kind = "acled" -> AcledReaction(answer)
      [] OTHER -> "raise"

Reactions == {Reaction(answer) : answer \in Answers}

(* ------------------------------------------------------------------------------------- *)
(* What an answer to the first request holds, by connector                               *)

Capped(positions, n) == SubSeq(positions, 1, IF Len(positions) < n THEN Len(positions) ELSE n)
Items(positions) == [j \in 1 .. Len(positions) |-> Item(positions[j], feed[positions[j]].version)]

OldestFirst == [i \in 1 .. Len(feed) |-> i]
Recent(i) == feed[i].at + Lookback >= time
RecentPosts == FoldLeft(LAMBDA kept, i : IF Recent(i) THEN Append(kept, i) ELSE kept, <<>>, OldestFirst)

(* getUpdates returns the oldest updates that no offset has confirmed, of one day. The    *)
(* offset is kept in the params of a connector that every task builds anew, so no update  *)
(* is ever confirmed.                                                                     *)
TelegramItems == Items(Capped(RecentPosts, PageSize))

RedditItems == Items(Capped(Reverse(OldestFirst), PageSize))
RssItems == Items(Reverse(OldestFirst))
XaiItems == Items(Capped(Reverse(RecentPosts), MaxItems))
GdeltItems == Items(Capped(Capped(Reverse(RecentPosts), PageSize), MaxItems))
AcledItems == Items(Capped(Reverse(OldestFirst), MaxItems))
PastebinItems == Items(Capped(RecentPosts, MaxItems))
NvdItems == Items(Capped(RecentPosts, MaxPages * PageSize))

KevItems == Items(OldestFirst)   \* the whole catalog
UrlhausItems == Items(Capped(Reverse(OldestFirst), PageSize))
ThreatFoxItems == Items(RecentPosts)
ShodanItems == Items(Capped(Reverse(OldestFirst), PageSize))
OtxItems == Items(Capped(Reverse(OldestFirst), MaxItems))
OsvItems == Items(Capped(OldestFirst, PageSize))
NwsItems == Items(Capped(Reverse(OldestFirst), MaxItems))
ReliefWebItems == Items(Capped(Reverse(OldestFirst), PageSize))
BazaarItems == Items(Capped(Reverse(OldestFirst), MaxItems))
FeodoItems == Items(Capped(OldestFirst, MaxItems))

ItemsOf ==
    CASE kind = "telegram" -> TelegramItems
      [] kind = "reddit" -> RedditItems
      [] kind = "rss" -> RssItems
      [] kind = "xai" -> XaiItems
      [] kind = "gdelt" -> GdeltItems
      [] kind = "acled" -> AcledItems
      [] kind = "pastebin" -> PastebinItems
      [] kind = "nvd" -> NvdItems
      [] kind = "kev" -> KevItems
      [] kind = "urlhaus" -> UrlhausItems
      [] kind = "threatfox" -> ThreatFoxItems
      [] kind = "shodan" -> ShodanItems
      [] kind = "otx" -> OtxItems
      [] kind = "osv" -> OsvItems
      [] kind = "nws" -> NwsItems
      [] kind = "reliefweb" -> ReliefWebItems
      [] kind = "bazaar" -> BazaarItems
      [] kind = "feodo" -> FeodoItems

(* ------------------------------------------------------------------------------------- *)
(* The execution                                                                         *)

(* Beat, the API or a retry starts the task. The connector is new: no hash is remembered  *)
(* from an execution that had to do without Redis.                                        *)
FetchStarts ==
    /\ \/ fetch.stage = "queued" /\ fetch' = [fetch EXCEPT !.stage = "asking"]
       \/ /\ fetch.stage = "idle" /\ fetch.run < MaxRuns
          /\ fetch' = [fetch EXCEPT !.stage = "asking", !.run = @ + 1]
    /\ UNCHANGED <<kind, time, feed, hashes, caught, dropped>>

NextTarget(f) ==
    IF f.todo = <<>> THEN [f EXCEPT !.stage = "storing", !.attempt = 0, !.hops = 0]
    ELSE [f EXCEPT !.target = Head(f.todo), !.todo = Tail(@), !.attempt = 0, !.hops = 0]

(* The index page is given up with the institution, a policy is skipped.                  *)
GivenUp(f) == NextTarget(f)

AskAgain ==
    /\ fetch.stage = "asking"
    /\ "again" \in Reactions
    /\ fetch' = IF fetch.attempt + 1 < MaxAttempts
                THEN [fetch EXCEPT !.attempt = @ + 1] ELSE GivenUp(fetch)
    /\ UNCHANGED <<kind, time, feed, hashes, caught, dropped>>

(* A redirect to an allowed target is requested with attempts of its own.                 *)
SameHops(hops) == hops   \* a mutant of NextHops
NextHops(hops) == hops + 1

Follow ==
    /\ fetch.stage = "asking"
    /\ Reaction("redirect") = "follow"
    /\ fetch' = IF NextHops(fetch.hops) < MaxRedirects
                THEN [fetch EXCEPT !.hops = NextHops(@), !.attempt = 0] ELSE GivenUp(fetch)
    /\ UNCHANGED <<kind, time, feed, hashes, caught, dropped>>

GiveUp ==
    /\ fetch.stage = "asking"
    /\ "none" \in Reactions
    /\ fetch' = GivenUp(fetch)
    /\ UNCHANGED <<kind, time, feed, hashes, caught, dropped>>

TakeItems ==
    /\ fetch.stage = "asking" /\ ~IsPortal
    /\ fetch' = [fetch EXCEPT !.stage = "storing", !.items = ItemsOf]
    /\ UNCHANGED <<kind, time, feed, hashes, caught, dropped>>

(* The links of the index page, each URL once.                                            *)
TakeIndex ==
    /\ fetch.stage = "asking" /\ IsPortal /\ fetch.target = 0
    /\ fetch' = NextTarget([fetch EXCEPT !.todo = [i \in 1 .. Len(feed) |-> i]])
    /\ UNCHANGED <<kind, time, feed, hashes, caught, dropped>>

EmittedIfArchived(items, item, archived) == IF archived THEN Append(items, item) ELSE items   \* a mutant
Emitted(items, item, archived) == Append(items, item)

(* A hash of a policy in Redis, or in the memory of this connector, which is empty.       *)
Known(i, reads) == IF fetch.redis /\ reads THEN hashes[i] ELSE 0
Remembered(i, reads, lands) ==
    IF fetch.redis /\ reads /\ lands THEN [hashes EXCEPT ![i] = feed[i].version] ELSE hashes

(* One policy: its hash is compared and stored, the document is archived and the item     *)
(* emitted whether or not MinIO took it. An error of Redis, or a write that lands without *)
(* its reply, turns the rest of the run to hashes in memory.                              *)
TakePolicy ==
    /\ fetch.stage = "asking" /\ IsPortal /\ fetch.target # 0
    /\ \E reads, writes, lands, archived \in BOOLEAN :
          LET i == fetch.target
          IN  /\ writes => lands
              /\ IF Known(i, reads) = feed[i].version
                 THEN fetch' = NextTarget(fetch) /\ UNCHANGED hashes
                 ELSE /\ hashes' = Remembered(i, reads, lands)
                      /\ fetch' = NextTarget([fetch EXCEPT !.redis = @ /\ reads /\ writes,
                                       !.items = Emitted(@, Item(i, feed[i].version), archived)])
    /\ UNCHANGED <<kind, time, feed, caught, dropped>>

Kept(items) == Capped(items, MaxItems)
Versions(items) == {<<items[j].key, items[j].version>> : j \in 1 .. Len(items)}
Recorded == {<<item.key, item.version>> : item \in caught}
Lost(versions) == dropped' = (dropped \cup versions) \ Recorded'

(* ValueError and KeyError end the task, any other exception retries it while tries are   *)
(* left. Nothing of an execution but the hashes stays.                                    *)
AfterError(f) ==
    {Fresh(f.run, f.crashes, 0, "idle")}
    \cup (IF f.tries < MaxIngestTries THEN {Fresh(f.run, f.crashes, f.tries + 1, "queued")} ELSE {})

(* The document cannot be parsed, after its hash was stored.                              *)
PolicyBreaks ==
    /\ fetch.stage = "asking" /\ IsPortal /\ fetch.target # 0
    /\ \E reads, lands \in BOOLEAN :
          /\ Known(fetch.target, reads) # feed[fetch.target].version
          /\ hashes' = Remembered(fetch.target, reads, lands)
    /\ fetch' \in AfterError(fetch)
    /\ UNCHANGED <<kind, time, feed, caught>>
    /\ Lost(Versions(Append(fetch.items, Item(fetch.target, feed[fetch.target].version))))

(* The cap, the filter of items without a text (a policy has a title), a savepoint for    *)
(* each item and the commit. Items that fail are counted, up to half of them. A failure   *)
(* outside a savepoint aborts the transaction, and its COMMIT rolls everything back.      *)
StoreItems ==
    /\ fetch.stage = "storing"
    /\ \E blank, failed \in SUBSET DOMAIN Kept(fetch.items) :
          LET tried == DOMAIN Kept(fetch.items) \ blank
          IN  /\ IsPortal => blank = {}
              /\ failed \subseteq tried /\ 2 * Cardinality(failed) <= Cardinality(tried)
              /\ \E stored \in {tried \ failed} \cup (IF failed = {} THEN {} ELSE {{}}) :
                    caught' = caught \cup {Kept(fetch.items)[j] : j \in stored}
    /\ Lost(Versions(fetch.items))
    /\ fetch' = Fresh(fetch.run, fetch.crashes, fetch.tries, "stored")
    /\ UNCHANGED <<kind, time, feed, hashes>>

(* The chains and the job row of IngestPipeline, and the message is acknowledged.         *)
FetchReturns ==
    /\ fetch.stage = "stored"
    /\ fetch' = [fetch EXCEPT !.stage = "idle", !.tries = 0]
    /\ UNCHANGED <<kind, time, feed, hashes, caught, dropped>>

(* The plan cannot be read, the connector raises, or too many items fail.                 *)
FetchFails ==
    /\ \/ fetch.stage = "storing"
       \/ fetch.stage = "asking" /\ (fetch.target = 0 \/ "raise" \in Reactions)
    /\ fetch' \in AfterError(fetch)
    /\ UNCHANGED <<kind, time, feed, hashes, caught>>
    /\ Lost(Versions(fetch.items))

(* The worker dies, before the commit or after it, and the message is delivered again.    *)
FetchCrash ==
    /\ fetch.stage \in {"asking", "storing", "stored"} /\ fetch.crashes < MaxFetchCrashes
    /\ fetch' = Fresh(fetch.run, fetch.crashes + 1, fetch.tries, "queued")
    /\ UNCHANGED <<kind, time, feed, hashes, caught>>
    /\ Lost(Versions(fetch.items))

Working ==
    \/ AskAgain \/ Follow \/ GiveUp \/ TakeItems \/ TakeIndex \/ TakePolicy \/ PolicyBreaks
    \/ StoreItems \/ FetchReturns \/ FetchFails

FetchNext == PostAppears \/ PostChanges \/ TimePasses \/ FetchStarts \/ Working \/ FetchCrash

FetchSpec == FetchInit /\ [][FetchNext]_fetchVars

FetchTypeOK ==
    /\ kind \in Kinds /\ time \in 1 .. MaxTime
    /\ feed \in Seq([version : 1 .. MaxVersion, at : 1 .. MaxTime])
    /\ hashes \in [Posts -> 0 .. MaxVersion]
    /\ fetch.stage \in {"idle", "queued", "asking", "storing", "stored"}
    /\ fetch.target \in 0 .. MaxPosts /\ fetch.attempt < MaxAttempts /\ fetch.hops < MaxRedirects
    /\ fetch.todo \in Seq(Posts) /\ fetch.tries \in 0 .. MaxIngestTries /\ fetch.redis \in BOOLEAN
    /\ \A item \in caught : item.key \in Posts /\ item.version \in 1 .. MaxVersion
    /\ dropped \subseteq Posts \X (1 .. MaxVersion)

(* A policy version whose hash is stored is never announced again. So it has become an    *)
(* event, is among the items of the running execution, or was lost by an execution: one   *)
(* that raised (for this document or a later one, in the database, or with half of its    *)
(* items), crashed, emitted more than the cap, or failed to store this item. No answer,   *)
(* redirect, error of Redis or MinIO and no retry silences a change by itself.            *)
SilenceIsExplained ==
    \A i \in Posts : hashes[i] # 0 =>
        <<i, hashes[i]>> \in Versions(fetch.items) \cup dropped \cup Recorded

(* However the source answers, redirects and breaks connections, an execution that starts *)
(* ends: the attempts, the redirects and the retries of the task are all bounded.         *)
FetchEnds == (fetch.stage # "idle") ~> (fetch.stage = "idle")

(* Refuted, docs/connectors.md:471-476: a stored hash stands for an ingested version.     *)
ChangesReachIngest == fetch.stage = "idle" =>
    \A i \in Posts : hashes[i] # 0 => <<i, hashes[i]>> \in Recorded

(* Refuted, docs/connectors.md:28: items with one dedupe_key become one event. Ingest     *)
(* never calls dedupe_key, it fingerprints raw_data.                                      *)
OneEventPerKey == ~IsPortal => \A a, b \in caught : a.key = b.key => a = b

(* Refuted, docs/connectors.md:435: processed updates are not fetched again. With a page  *)
(* of them still recent, newer ones are not fetched at all.                               *)
ProcessedUpdatesAreGone == kind = "telegram" /\ fetch.stage = "storing" =>
    Versions(fetch.items) \cap Recorded = {}
==================================================================================
