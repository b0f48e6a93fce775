SPECIFICATION Spec
CONSTANTS
    inference = inference
    recording = recording
    plugin = plugin
    loop = loop
    watch = watch
    Loop = loop
    Order <- InferenceAndPlugin
    Units <- OnlyPlugin
    Plugins <- OnlyPlugin
    Threads <- OneThread
    Hangs = FALSE
    Restarts = TRUE
    Headless = FALSE
    Prompt = TRUE
    MaxPids = 1
INVARIANT NoStalePid
CHECK_DEADLOCK FALSE
