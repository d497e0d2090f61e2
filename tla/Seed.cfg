CONSTANTS
    Runs = {1, 2, 3}
    Customers = {11}
    Emails <- MCEmails
    Titles <- MCTitles
    SignUps = {"user"}
    Order = "order"
    Api = 0
SPECIFICATION FairSpec
INVARIANTS TypeOK NoDuplicates SeedComplete
PROPERTIES CustomerOrdersKept RunsEnd
