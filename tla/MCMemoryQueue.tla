---------------------------- MODULE MCMemoryQueue ----------------------------
\* MemoryQueue on the instance of MCQueueInstance.
EXTENDS MemoryQueue, MCQueueInstance
=============================================================================
