SPECIFICATION Spec
CONSTANTS
    inference = inference
    recording = recording
    plugin = plugin
    loop = loop
    watch = watch
    Loop = loop
    Order <- InferenceAndPlugin
    Units <- OnlyPlugin
    Plugins <- OnlyPlugin
    Threads <- OneThread
    Hangs = FALSE
    Restarts = FALSE
    Headless = TRUE
    Prompt = TRUE
    MaxPids = 2
PROPERTY ArmingIsNoTimeout
CHECK_DEADLOCK FALSE
