------------------------------ MODULE EventServices ------------------------------
(* The services around an event as they run: notifications, digests, alerts, retention    *)
(* and stores at once, in any order of their steps. Celery executes the tasks of all of    *)
(* them in one deployment. Their only shared state is the queue of notices: digests and     *)
(* alerts put notices into it, as any other caller does, and the sender takes them.         *)
EXTENDS EventDigests, EventAlerts, EventStores

eventServicesVars == <<notices, digestVars, alertVars, storeVars>>

EventServicesInit == NoticeInit /\ DigestInit /\ AlertInit /\ StoreInit

(* Other callers publish notices, and the sender works on those that wait.                 *)
NoticesMove == (AnyCall \/ NoticeNext) /\ UNCHANGED <<digestVars, alertVars, storeVars>>
DigestsMove == DigestNext /\ UNCHANGED <<alertVars, storeVars>>
AlertsMove == AlertNext /\ UNCHANGED <<digestVars, storeVars>>
StoresMove == StoreNext /\ UNCHANGED <<notices, digestVars, alertVars>>

EventServicesNext == NoticesMove \/ DigestsMove \/ AlertsMove \/ StoresMove

EventServicesSpec == EventServicesInit /\ [][EventServicesNext]_eventServicesVars

(* The types of all variables of the services around an event: what celery_app.py:21-27     *)
(* runs side by side keeps every service's state in order.                                  *)
EventServicesTypeOK == NoticeTypeOK /\ DigestTypeOK /\ AlertTypeOK /\ StoreTypeOK
==================================================================================
