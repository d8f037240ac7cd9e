--------------------------- MODULE MCGpuPipeline ---------------------------
\* Instances of GpuPipeline for TLC: jobs a and b with different targets, and
\* the pre-V2 job old, which has the targets of a.
EXTENDS GpuPipeline

MCKey == [j \in Jobs \cup {NoJob} |-> j]
MCTarget == [j \in Jobs |-> IF j = "b" THEN "t2" ELSE "t1"]
=============================================================================
