-------------------------- MODULE MCIngestPipeline --------------------------
(* Small instances of the ingest task. *)
EXTENDS IngestPipeline

CONSTANTS t1, w1, w2, a, b

MCOneTask == {t1}
MCWorkers == {w1, w2}
MCItems == {a, b}

(* Two answers of the source in opposite order, one of them cut by max_items. *)
MCFeeds == {<<a, b>>, <<b, a, a>>}
=============================================================================
