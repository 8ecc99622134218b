SPECIFICATION Spec
CONSTANTS
    task = task
    request = request
    Jobs = {task}
    Tasks = {task}
    MaySimulate = {}
    MaxRetries = 1
    MaxPosts = 1
    MaxCrashes = 1
INVARIANT PushedAtMostOnce
