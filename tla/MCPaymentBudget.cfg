SPECIFICATION Spec
CONSTANTS
    input = input
    output = output
    bill = bill
    infer = infer
    send = send
    NoRequest = NoRequest
    Invoice = {input, bill}
    Request = {infer, send}
    Terms <- TwoRequests
    Amount <- Prices
    Charge <- OneEach
    Budget = 4
    Funds = 6
    LastDay = 1
    LookupsLinger = FALSE
    MaxCrashes = 1
INVARIANTS
    DailyBudgetHeld
CHECK_DEADLOCK FALSE
