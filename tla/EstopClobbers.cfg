SPECIFICATION FairSpec
CONSTANTS
    inference = inference
    recording = recording
    plugin = plugin
    loop = loop
    watch = watch
    Loop = loop
    Order <- InferenceAndPlugin
    Units <- OnlyPlugin
    Plugins <- OnlyPlugin
    Threads <- OneThread
    Hangs = TRUE
    Restarts = FALSE
    Headless = FALSE
    Prompt = FALSE
    MaxPids = 2
PROPERTY SilenceStops
CHECK_DEADLOCK FALSE
