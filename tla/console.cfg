SPECIFICATION ConsoleSpec
CONSTANTS
    None = None
    Apps = {a1, a2}
    Endpoints = {e1, e2}
    Types = {t1}
    Home <- MCHome
    DefaultApp <- MCDefaultApp
    Values = {"x"}
    PageSize = 1
    Later = {e2}
    Published <- MCPublished
    MaxRecords = 3
    MaxRequests = 1
    MaxChanges = 1
INVARIANTS
    EditsNeedConsent
    SaveIsOwn
    NewestFirstOnce
