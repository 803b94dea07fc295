\* Three processes of one host; one exits after it has unlocked.
SPECIFICATION Spec
CONSTANTS
    p1 = p1
    p2 = p2
    p3 = p3
    Nobody = Nobody
    Procs = {p1, p2, p3}
    Host <- OneHost
    MaxCrashes = 0
    MaxLosses = 0
    MaxExits = 1
    Brief = TRUE
    Prompt = FALSE
PROPERTIES
    BreaksOnlyStale
