SPECIFICATION Spec
CONSTANTS
    input = input
    output = output
    bill = bill
    infer = infer
    send = send
    NoRequest = NoRequest
    Invoice = {input, output, bill}
    Request = {infer}
    Terms <- OneRequest
    Amount <- Prices
    Charge <- Segments
    Budget = 5
    Funds = 6
    LastDay = 0
    LookupsLinger = TRUE
    MaxCrashes = 1
INVARIANTS
    FailedPaidNothing
CHECK_DEADLOCK FALSE
