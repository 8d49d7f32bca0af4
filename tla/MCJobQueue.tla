----------------------------- MODULE MCJobQueue -----------------------------
EXTENDS JobQueue

MCPriority == [j \in Jobs |-> IF j = NJobs THEN 1 ELSE 0]
=============================================================================
