SPECIFICATION Spec
CONSTANTS
    inference = inference
    recording = recording
    plugin = plugin
    loop = loop
    watch = watch
    Loop = loop
    Order <- InferenceAndPlugin
    Units <- OnlyPlugin
    Plugins <- OnlyPlugin
    Threads <- TwoThreads
    Hangs = FALSE
    Restarts = FALSE
    Headless = FALSE
    Prompt = TRUE
    MaxPids = 2
INVARIANT Watched
CHECK_DEADLOCK FALSE
