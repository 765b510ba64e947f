CONSTANTS
    r1 = r1
    r2 = r2
    t1 = t1
    t2 = t2
    t3 = t3
    b1 = b1
    b2 = b2
    Requests <- Two
    Tasks <- TwoTasks
    Bodies <- OneBody
    Endings <- NoEndings
    Reentry = "none"
SPECIFICATION FairSpec
PROPERTIES
    EverySubmissionIsHandled
    DestructorReturns
