--------------------------- MODULE ExportSnapshot ----------------------------
(* What the export would be if all it reads were read at one moment. *)
EXTENDS MCChatExport

VARIABLE views  \* history variable: what there was to export at each moment of the export

View == [roster |-> accounts, sessions |-> SessionsNow, rows |-> messages]

SnapshotInit == WritersInit /\ views = {}
SnapshotNext ==
    /\ ExportNext
    /\ views' = IF export'.stage \in ExportInFlight THEN views \cup {View'} ELSE views
SnapshotSpec == SnapshotInit /\ [][SnapshotNext]_<<exportVars, views>>

\* ExportService: "a complete, self-describing snapshot", one that "reflects the whole
\* account roster": what comes out was there to export at some one moment (export_all).
IsSnapshot ==
    export.stage = "done" =>
        [roster |-> export.roster, sessions |-> Dumped, rows |-> DumpedRows] \in views
==============================================================================
