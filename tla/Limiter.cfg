\* One address more than the limiter tracks; the limit is below the ban
\* threshold, as in both limiters of the web server.
SPECIFICATION Spec
CONSTANTS
    IPs = {ip1, ip2}
    Limit = 2
    Period = 1
    BanThreshold = 4
    BanTTL = 3
    MaxTracked = 1
    CleanEvery = 2
    MaxTime = 2
    MaxRequests = 6
INVARIANTS AbuseIsBanned
CHECK_DEADLOCK FALSE
