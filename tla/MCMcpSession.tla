---------------------------- MODULE MCMcpSession ----------------------------
(* Tool calls for TLC.  run_sql creates tables under the numbers that      *)
(* materialize is about to use.                                            *)
EXTENDS McpSession, TLC

SessionCalls == {"region", "zonal", "script"}
SessionTool == ("region" :> ReadRegion) @@ ("zonal" :> ZonalStats)
               @@ ("script" :> RunSqlDirect)

(* A lookup of two statements, and a read.                                 *)
LookupCalls == {"lookup", "region"}
LookupTool == ("lookup" :> DescribeTable) @@ ("region" :> ReadRegion)

=============================================================================
