SPECIFICATION StoriesSpec
CONSTANTS
    Threads = {"t1", "t2"}
    Subjects = {1, 2}
    IdeaFields = {"question"}
    BriefFields = {"tone"}
    StoryFields = {"answer", "arc"}
    Arc = "arc"
    Facts = {"F01"}
    Wordings = {"fit", "unfit"}
    Unfit = "unfit"
    NoInput = NoInput
    MaxWritings = 3
    MaxChanges = 2
    Urls = {"u1"}
    Quotes = {"q1"}
    MaxFacts = 1
    MaxQuestions = 1
    MaxRequests = 0
    MaxRestarts = 0
INVARIANTS
    FreshIsOfInput
    ApprovedWasApproved
    FreshStoryCitesKept
CHECK_DEADLOCK FALSE
