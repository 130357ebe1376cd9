SPECIFICATION Spec
CONSTANTS
    u1 = u1
    u2 = u2
    u3 = u3
    p1 = p1
    p2 = p2
    p3 = p3
    Users = {u1, u2, u3}
    Requests = {p1, p2, p3}
    UserOf <- OwnUser
    MaxComments = 3
    MaxFaults = 1
    None = None
INVARIANTS TypeOK LikeCountMatches CommentCountMatches
CHECK_DEADLOCK FALSE
