------------------------------ MODULE MCPipeline ------------------------------
EXTENDS Pipeline, TLC

\* Clients are interchangeable, and so are routing keys and upstream
\* connections.
PipelineSymmetry == Permutations(Conn) \cup Permutations(Dest) \cup Permutations(Key)

\* The flow with keep-alive and the pool.
PooledFlows == {ConductorTcp}
===============================================================================
