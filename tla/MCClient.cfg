SPECIFICATION Spec
CONSTANTS
    None = None
    Parts = {"preferences", "drag", "notes", "lines", "editors", "rows", "panel",
        "quickadd", "habits", "home", "projects", "palette", "window",
        "import"}
    Stores = {"holiday", "tab"}
    Values = {1, 2, 3}
    Fold <- MCFold
    Mine = {2}
    Theirs = {3}
    Feeds <- MCFeeds
    MaxRow = 3
    MaxWrites = 2
    MaxOthers = 1
    Files = {1, 2}
    Formats = {"csv", "todoist-csv", "json"}
    Restoring = {"json"}
    Good <- MCGood
    Columns <- MCColumns
    MaxActs = 6
    MaxServed = 2
    Texts = {0, 1, 2}
    MaxEdits = 3
    MaxLost = 1
    Foreign = {"date", "notes"}
    MaxRequests = 1
INVARIANTS ClientTypesOK PartsAgree 
PROPERTIES RowsAndImports ClientSteps
CHECK_DEADLOCK FALSE
