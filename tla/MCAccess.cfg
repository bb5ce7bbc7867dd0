SPECIFICATION MCSpec
CONSTANTS
    w1 = w1
    w2 = w2
    e1 = e1
    p1 = p1
    me = me
    q = q
    f1 = f1
    f2 = f2
    NoOne = NoOne
    Emails = {e1, p1}
    Wallets = {w1, w2}
    Placeholder <- MCPlaceholder
    AdminWallet = w1
    Calls = {me, q, f1, f2}
    Requests = {me, q}
    Me = me
    Forms = {f1, f2}
    Typed = {e1}
    MaxBusy = 2
    Faults = {"crash", "net"}
    MaxSessions = 2
    MaxNonces = 2
INVARIANTS RefusedRefreshIsDead OneLiveSessionPerLogin OneAccountPerWallet
CHECK_DEADLOCK FALSE
