\* Two devices and two queues are the least that make both loops of the worker
\* (over devices, over bits) take a step while a bit behind it is set again.
CONSTANTS
    NumDevices = 2
    MaxQueue = 2
    MaxPosts = 2
    MaxStops = 2
SPECIFICATION FairSpec
INVARIANTS
    NotifyTypeOK
    NoLostNotify
    NoSleepOnWork
PROPERTIES
    StopHonoured
    ImplementsDoorbell
