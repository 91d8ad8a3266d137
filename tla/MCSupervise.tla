----------------------------- MODULE MCSupervise -----------------------------
EXTENDS Supervise

\* Delivery i is the event i on queue i for department i, unless a run says
\* otherwise.
MCIdentity == [i \in Deliveries |-> i]
MCOneSource == [c \in Contents |-> 1]
MCNone == [i \in Deliveries |-> NoEvent]

\* Pipeline: a run of delivery 1 raises event 2.
MCRaises == [i \in Deliveries |-> IF i = 1 THEN 2 ELSE NoEvent]
MCPipeline == {{<<1, 1>>, <<2, 2>>}}

\* Lineage: the one department raises onto its own queue, under one source.
MCOneQueue == [i \in Deliveries |-> 1]
MCLoop == {{<<1, 1>>}}

\* Backlog: one department consumes every queue.
MCOneDept == [i \in Deliveries |-> 1]
MCBacklog == {{1} \X Queues}

\* Reports: department 2 consumes the dead letters of delivery 1 and its
\* failure facts.
MCReportDept == [i \in Deliveries |-> IF i = 1 THEN 1 ELSE 2]
MCDeadLetterOf == [i \in Deliveries |-> IF i = 1 THEN 2 ELSE NoEvent]
MCFailureFactOf == [i \in Deliveries |-> IF i = 1 THEN 3 ELSE NoEvent]
MCReportGraphs == {{<<1, 1>>, <<2, 2>>, <<2, 3>>}}

\* Graphs: queue 1 changes its subscriber or loses it between starts.
MCMovingGraphs == {{<<1, 1>>}, {<<2, 1>>}, {<<1, 2>>}}

\* Orphan: the first of three subscribers of queue 1 goes away.
MCShrinkingGraphs == {{<<1, 1>>, <<2, 1>>, <<3, 1>>}, {<<2, 1>>, <<3, 1>>}}
=============================================================================
