SPECIFICATION Spec
CONSTANTS
    Tasks = {t1}
    NoTask = NoTask
    Absent = Absent
    LockedSavers = {s1}
    UnlockedSavers = {s2, s3}
    UsesTtl = TRUE
    TableOnly = FALSE
    Deletable = {t1}
INVARIANTS ListingComplete OutcomesExpire
PROPERTY NeverNewAgain
