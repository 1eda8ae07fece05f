\* One declaration without an answer, one name that a broker forgets, and every
\* subset of the wrong settings that differ in where the start stumbles.
CONSTANTS
    Settings = {"environment", "telemetry", "rabbit", "failChance", "server", "guest", "queue", "platform", "port"}
    Durable = {"payment", "queue"}
    NoWait = {"guest"}
    MaxFaults = 3
    MaxRestarts = 1
SPECIFICATION FairSpec
INVARIANTS
    ServesOnlySetUp
    WrongSettingsNeverListen
PROPERTIES
    OnlyServerFailsLate
    StartEnds
\* The last process may have ended.
CHECK_DEADLOCK FALSE
