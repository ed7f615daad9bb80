\* One request thread, as in a uWSGI worker with processes = 1.
SPECIFICATION FairSpec
CONSTANTS
    Threads = {t1}
    Sessions = {s1, s2}
    Procs = {p1, p2, p3}
    Masks = {"default", "noint", "noterm"}
    SessionExpiry = TRUE
    NoProc = NoProc
    NoSession = NoSession
    Nobody = Nobody
    Idle = Idle
INVARIANTS TypeOK OwnReply OneCell  NoOrphan
PROPERTIES Answered
