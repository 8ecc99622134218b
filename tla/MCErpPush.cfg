SPECIFICATION FairSpec
CONSTANTS
    task = task
    request = request
    Jobs = {task, request}
    Tasks = {task}
    MaySimulate = {request}
    MaxRetries = 2
    MaxPosts = 2
    MaxCrashes = 1
INVARIANTS CopiesAreAnnounced PushedRunsAreInErp
PROPERTIES SettledIsFinal PushesEnd
