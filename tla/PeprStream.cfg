SPECIFICATION StreamSpec
CONSTANTS
    p1 = p1
    p2 = p2
    flusher = flusher
    Pods <- MC_Pods
    Flusher = flusher
    Settings <- MC_Settings
INVARIANT CountsAreReal
INVARIANT StoryKept
PROPERTY FlushedEventually
