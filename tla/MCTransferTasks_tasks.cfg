SPECIFICATION Spec
CONSTANTS
    Runners = {r1, r2}
    Droppable = {r1, r2}
    Kinds = {"UploadFile", "UploadDirectory", "DownloadFile"}
    Sources = {"s"}
    Destinations = {"d"}
    Capacities = {1, 2}
    LastId = 3
    ProgressQueue = 2
    Chunks = 1
    None = None
SYMMETRY Symmetry
INVARIANTS TypeOK ExclusiveWriter OwnsItsTask RetentionExact
PROPERTIES Lifecycle 
