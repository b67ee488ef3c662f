----------------------- MODULE MCMemoryQueueRoundRobin -----------------------
\* MemoryQueueRoundRobin on the instance of MCQueueInstance.
EXTENDS MemoryQueueRoundRobin, MCQueueInstance
=============================================================================
