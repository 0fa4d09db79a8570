SPECIFICATION MCSpec
CONSTANTS
    Saver = {1}
    MaxConnectors = 2
    b1 = b1  b2 = b2
    Pusher = {1}
    MaxActs = 3
    Books = {1, 2, 3}
    Batch = 2
    MaxTagged = 2
INVARIANT GenresKept
PROPERTIES SaveEnds PushesArrive RunEnds
