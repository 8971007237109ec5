----------------------------- MODULE Notifications -----------------------------
(* The notification task (workers/notify.py). A notice is one send_notification message  *)
(* from its publication to its end. The task resolves the event data, drops what is      *)
(* below the threshold, and tries the channels one after the other. It retries only when *)
(* a channel could not be reached and no channel was. Late acknowledgement delivers the  *)
(* message of a worker that dies again, with the retry count it had.                     *)
EXTENDS Integers, Sequences, FiniteSets

CONSTANTS
    Channels,        \* channel entries of plans and callers
    KindOf,          \* KindOf[c]: the entry's type: gotify, slack, webhook, email or any other
    EnvChannels,     \* the channels of the environment, for callers that pass none
    MaxTries,        \* max_retries of the task
    MaxDeliveries,   \* bound: how often a message is delivered again after a crash
    MaxNotices       \* bound: messages published

ASSUME NoticeAssumption ==
    /\ KindOf \in [Channels -> STRING]
    /\ EnvChannels \in Seq(Channels)
    /\ MaxTries \in Nat
    /\ MaxDeliveries \in Nat

VARIABLE notices     \* published messages in the order of their publication

(* What a caller passes as event_data: a full dict, nothing, or the list of rules that   *)
(* the scoring task passes.                                                               *)
Payloads == {"full", "none", "rules"}

NoticeStages == {"queued", "sending", "sent", "unsent", "failed"}

Notice ==
    [about: Nat, payload: Payloads, severe: BOOLEAN, channels: Seq(Channels),
     stage: NoticeStages, next: Nat, dispatched: BOOLEAN, unreached: BOOLEAN,
     tries: Nat, deliveries: Nat,
     heard: Seq(Nat),   \* history: how often each channel took the message,
     lost: Seq(Nat)]    \* and how often of those the task took it for a failure

NoticeInit == notices = <<>>

(* send_notification.delay(about, event_data, channels): the message enters the queue.    *)
Announce(about, payload, severe, channels) ==
    /\ Len(notices) < MaxNotices
    /\ notices' = Append(notices,
          [about |-> about, payload |-> payload, severe |-> severe, channels |-> channels,
           stage |-> "queued", next |-> 1, dispatched |-> FALSE, unreached |-> FALSE,
           tries |-> 0, deliveries |-> 0, heard |-> [i \in DOMAIN channels |-> 0],
           lost |-> [i \in DOMAIN channels |-> 0]])

(* Any caller of the task, with the payloads and channels that callers pass.              *)
Call(payload, severe, channels) == Announce(0, payload, severe, channels)

Update(n, r) == notices' = [notices EXCEPT ![n] = r]

(* dict(event_data) of a list of rule dicts raises ValueError outside the try, before     *)
(* anything is sent. The task fails and is not retried.                                   *)
RejectPayload(n) ==
    LET r == notices[n] IN
    /\ r.stage = "queued" /\ r.payload = "rules"
    /\ Update(n, [r EXCEPT !.stage = "failed"])

(* Data that is absent is fetched from the events table. The severity is what the fetch   *)
(* finds, and info when it finds nothing or fails. Below the threshold the task returns.  *)
BelowThreshold(n) ==
    LET r == notices[n] IN
    /\ r.stage = "queued" /\ r.payload # "rules"
    /\ r.payload = "full" => ~r.severe
    /\ Update(n, [r EXCEPT !.stage = "unsent"])

StartSending(n) ==
    LET r == notices[n] IN
    /\ r.stage = "queued" /\ r.payload # "rules" /\ r.severe
    /\ Update(n, [r EXCEPT !.stage = "sending", !.next = 1,
                           !.dispatched = FALSE, !.unreached = FALSE])

(* What a channel of each kind can answer. The answer of one that took the message may be *)
(* lost: a time-out after the POST, or an error of SMTP after DATA. E-mail never raises. A *)
(* bad URL or a webhook's template may raise something that the loop does not catch.      *)
Outcomes(kind) ==
    CASE kind \in {"gotify", "slack", "webhook"} -> {"ok", "skipped", "unreachable", "lost", "broken"}
      [] kind = "email"                          -> {"ok", "skipped", "lost"}
      [] OTHER                                   -> {"unknown"}

Sending(n) == notices[n].stage = "sending" /\ notices[n].next <= Len(notices[n].channels)
Answers(n, outcome) == Sending(n) /\ outcome \in Outcomes(KindOf[notices[n].channels[notices[n].next]])

(* The channel accepted the message: dispatched_any is set.                               *)
Dispatched(n) ==
    LET r == notices[n] IN
    /\ Answers(n, "ok")
    /\ Update(n, [r EXCEPT !.next = @ + 1, !.dispatched = TRUE, !.heard[r.next] = @ + 1])

(* The channel is not configured, or its error is one that no retry can mend.             *)
Skipped(n) ==
    /\ Answers(n, "skipped") \/ Answers(n, "unknown")
    /\ Update(n, [notices[n] EXCEPT !.next = @ + 1])

(* An HTTP error is kept in retryable_errors.                                             *)
Unreachable(n) ==
    /\ Answers(n, "unreachable")
    /\ Update(n, [notices[n] EXCEPT !.next = @ + 1, !.unreached = TRUE])

(* The channel took the message and its answer is lost: an HTTP error like any other, and *)
(* for e-mail a message that was not sent.                                                *)
AnswerLost(n) ==
    LET r == notices[n] IN
    /\ Answers(n, "lost")
    /\ Update(n, [r EXCEPT !.next = @ + 1, !.unreached = @ \/ KindOf[r.channels[r.next]] # "email",
                           !.heard[r.next] = @ + 1, !.lost[r.next] = @ + 1])

(* An exception of another kind ends the task at once. Channels after it hear nothing.    *)
TemplateBreaks(n) ==
    /\ Answers(n, "broken")
    /\ Update(n, [notices[n] EXCEPT !.stage = "failed"])

(* Only a task that reached nobody may be retried: partial success is success.            *)
RetryOnAnyError(r) == r.unreached   \* a mutant of MayRetry
MayRetry(r) == r.unreached /\ ~r.dispatched

EndSending(n) ==
    LET r == notices[n] IN
    /\ r.stage = "sending" /\ r.next > Len(r.channels)
    /\ IF MayRetry(r)
       THEN Update(n, IF r.tries < MaxTries
                      THEN [r EXCEPT !.stage = "queued", !.tries = @ + 1]
                      ELSE [r EXCEPT !.stage = "failed"])
       ELSE Update(n, [r EXCEPT !.stage = IF r.dispatched THEN "sent" ELSE "unsent"])

(* A worker dies between two channels. The broker delivers the same message again.        *)
SenderCrash(n) ==
    LET r == notices[n] IN
    /\ r.stage = "sending" /\ r.deliveries < MaxDeliveries
    /\ Update(n, [r EXCEPT !.stage = "queued", !.deliveries = @ + 1])

NoticeStep(n) ==
    \/ RejectPayload(n) \/ BelowThreshold(n) \/ StartSending(n)
    \/ Dispatched(n) \/ Skipped(n) \/ Unreachable(n) \/ AnswerLost(n)
    \/ TemplateBreaks(n) \/ EndSending(n)

NoticeNext == \E n \in DOMAIN notices : NoticeStep(n) \/ SenderCrash(n)

(* Whatever a caller passes. *)
AnyCall ==
    \E payload \in Payloads, severe \in BOOLEAN, channels \in Seq(Channels) :
        Call(payload, severe, channels)

NoticeSpec == NoticeInit /\ [][AnyCall \/ NoticeNext]_notices

NoticeTypeOK == notices \in Seq(Notice)

(* A channel that has a notice gets it again only when an answer of its own was lost or   *)
(* the sender died: what another channel answers, or fails to, never repeats a notice to  *)
(* one whose answer the task has (notify.py:660, partial success is still success).       *)
RepeatsAreOwn ==
    \A n \in DOMAIN notices : \A i \in DOMAIN notices[n].heard :
        notices[n].heard[i] <= 1 + notices[n].lost[i] + notices[n].deliveries

(* Refuted: that no channel hears a notice twice without a crash. After a lost answer the *)
(* retry repeats the notice to every channel of its list.                                 *)
ChannelsHearOnce ==
    \A n \in DOMAIN notices : \A i \in DOMAIN notices[n].heard :
        notices[n].heard[i] <= 1 + notices[n].deliveries

(* NOT checked by a passing run (see README): what an alert's notice says reaches a       *)
(* channel or is dropped below the threshold. It fails because of RejectPayload.          *)
AlertNoticesAreAccepted ==
    \A n \in DOMAIN notices : notices[n].payload = "rules" => notices[n].stage # "failed"
================================================================================
