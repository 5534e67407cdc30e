SPECIFICATION Spec
CONSTANTS
    Threads = {t1, t2}
    Urls = {u1}
    Quotes = {q1}
    MaxFacts = 2
    MaxQuestions = 3
    MaxRequests = 2
    MaxRestarts = 1
INVARIANTS
    LinkIsOfSource
    

    
CHECK_DEADLOCK FALSE
