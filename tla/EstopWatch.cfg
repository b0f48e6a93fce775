SPECIFICATION FairSpec
CONSTANTS
    inference = inference
    recording = recording
    plugin = plugin
    loop = loop
    watch = watch
    Loop = loop
    Order <- InferenceAndPlugin
    Units <- OnlyPlugin
    Plugins <- OnlyPlugin
    Threads <- OneThread
    Hangs = TRUE
    Restarts = TRUE
    Headless = FALSE
    Prompt = TRUE
    MaxPids = 3
INVARIANT TypeOK
INVARIANT WatchFollows
PROPERTY SilenceStops
CHECK_DEADLOCK FALSE
