SPECIFICATION FairSpec
CONSTANTS
    Students = {1}
    Vcs = {v1}
    Dids = {v1}
    DidOf <- OwnDid
    Tabs = {t1, t2}
    Slots = {f1}
    Polling = {t1}
    Clerking = {"detach", "delete"}
    Retries = 0
    MaxFaults = 2
    MaxEvents = 2
    None = None
PROPERTIES
    Settles
    EndedElsewhere
CHECK_DEADLOCK FALSE
