\* One incident, one fault; one replica and a shift that comes and goes, or two replicas.
SPECIFICATION MCSpec
CONSTANTS
    Incident = {i1}
    Severity = {critical}
    SeverityOf <- MCSeverityOf
    Default <- MCDefault
    Custom <- MCCustom
    Monitor = {m1, m2}
    Channel = {slack}
    Schedule = {c1}
    Shift = {s1}
    ScheduleOf <- MCScheduleOf
    UserOf <- MCUserOf
    Renotify = 2
    MaxFaults = 1
    None = None
PROPERTIES QuietWindow PageJustified NamesOnCall BreachHeard
