------------------------------- MODULE EdgeServices -------------------------------
(* The services at the edges as they run: the realtime stream of the API processes, the    *)
(* fetch of a source and the deep analysis of leads at once, in any order of their steps.  *)
(* They share no state.                                                                    *)
EXTENDS RealtimeStream, SourceFetch, DeepAnalysis

edgeServicesVars == <<streamVars, fetchVars, analysisVars>>

EdgeServicesInit == RealtimeInit /\ FetchInit /\ AnalysisInit

StreamMoves == StreamNext /\ UNCHANGED <<fetchVars, analysisVars>>
FetchMove == FetchNext /\ UNCHANGED <<streamVars, analysisVars>>
AnalysisMoves == AnalysisNext /\ UNCHANGED <<streamVars, fetchVars>>

EdgeServicesNext == StreamMoves \/ FetchMove \/ AnalysisMoves

EdgeServicesSpec == EdgeServicesInit /\ [][EdgeServicesNext]_edgeServicesVars

(* The types of all variables at the edges: queues of the stream (realtime.py:51-85), the   *)
(* counts of a fetch and the rows of an analysis keep their bounds.                         *)
ServicesTypeOK == StreamTypeOK /\ FetchTypeOK /\ AnalysisTypeOK
====================================================================================
