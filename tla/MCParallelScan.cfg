SPECIFICATION Spec
CONSTANTS
    TaskLists <- MCTaskLists
    PathOf <- MCPathOf
    PartitionOf <- MCPartitionOf
    BatchesOf <- MCBatchesOf
    Broken = Broken
    Target = 2
    Pool = 2
    Limits = {0, 2, 9}
    MaxJobs = 4
INVARIANTS ChunksCoverTasks AnswerComplete CancelledPromptly
PROPERTIES QueryEnds ImplementsStream
