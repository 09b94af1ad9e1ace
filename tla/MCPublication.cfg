\* Four source rows of which the second is denied, at most two to a shard, three
\* bytes to a shard, two generations at a time, up to three rows submitted and not
\* committed, three jobs; a checkpoint that two ranks write three times; two hosts with a
\* rank each, three rows of which one may be a bad case, so that a rank has one row less or
\* none, two limits, three launches, a host being launched anew only when the workers of its
\* last launch are gone.  The new bundle has its constants in the module.
CONSTANTS
    Length = 4
    ShardRows = 2
    ShardBytes = 3
    Bytes <- MCBytes
    MaxJob = 3
    Denied <- MCDenied
    Width = 2
    ReorderLimit = 3
    Peers = {1}
    Modes <- MCModes
    MaxAttempts = 3
    World = 2
    Hosts = {"a", "b"}
    HostOf <- MCHostOf
    Merger = "a"
    SelectedRows = 3
    Limits = {2, 3}
    MaxLaunch = 3
    Overlap = FALSE
SPECIFICATION MCSpec
CHECK_DEADLOCK FALSE
INVARIANTS
    PublishedIsWhole
    StagingResumable
    PipelineKeepsRows
    VouchedIsOneAttempt
    ReportedUsableWithoutLeftover
    MergedIsWhole
    BundleWhole
PROPERTIES
    CommittedShardsKept
    ImplementsArtifact
    ImplementsSlot
    PipelineJobEnds
