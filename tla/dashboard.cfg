SPECIFICATION DashboardFairSpec
CONSTANTS
    Room = {r1}
    Unread = Unread
    Notice = Notice
    Body = {m1, m2}
    MaxMessages = 1
    MaxFetches = 2
    MaxInbox = 2
    MaxFaults = 1
INVARIANTS ConnectionSound ShowsWhatArrived
PROPERTIES Converges
