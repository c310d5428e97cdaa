SPECIFICATION Spec
CONSTANTS
    a = a  b = b  c = c  u = u  v = v
    None = None
    Events <- MCEvents
INVARIANTS UrlIndexExact TagsExact ReverseExact LiveIsFound
PROPERTIES SaveIsVisible
CHECK_DEADLOCK FALSE
