SPECIFICATION Spec
CONSTANTS
    inference = inference
    recording = recording
    plugin = plugin
    loop = loop
    watch = watch
    Loop = loop
    Order <- InferenceAndRecording
    Units <- OnlyRecording
    Plugins <- Nothing
    Threads <- OneThread
    Hangs = FALSE
    Restarts = TRUE
    Headless = FALSE
    Prompt = TRUE
    MaxPids = 1
INVARIANT Watched
CHECK_DEADLOCK FALSE
