SPECIFICATION Spec
CONSTANTS
    Topics = {t1, t2}
    Texts = {x1, x2}
    Ids = {1, 2}
    MaxTouches = 1
    SearchLimit = 2
    Sessions = {s1, s2}
INVARIANTS TypeOK OneActivePerKey 
PROPERTIES ForgottenStaysForgotten InaccurateOnlyByOverlap AtomicUnlessOvertaken
SYMMETRY Symmetry
CHECK_DEADLOCK FALSE
