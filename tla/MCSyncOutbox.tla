---------------------------- MODULE MCSyncOutbox ----------------------------
(***************************************************************************)
(* A till with one or two shifts, the last sale in the last shift and the  *)
(* others in the first, and room for one or two sales in a batch.  By its  *)
(* id the second shift comes first.                                        *)
(***************************************************************************)
EXTENDS SyncOutbox, FiniteSetsExt

MCShiftOf == [s \in Sales |-> IF s = Max(Sales) THEN Max(Shifts) ELSE Min(Shifts)]
MCIdRank  == [h \in Shifts |-> Max(Shifts) - h]

\* A constraint for the runs without liveness: what can happen after the last outage can
\* happen during one too.
DuringOutages == outage
=============================================================================
