SPECIFICATION PathSpec
CONSTANTS
    TooLong = {"long"}
    Uids = {"u1", "u2"}
    Values <- MCValues
    Elements <- MCElements
    IdTags = {"", "tag"}
    Numbers = {0, 1}
INVARIANTS QueuedIsUnderstood AnswerIsSpecExact AnswerFollowsCall LibraryCallIsAnswered
