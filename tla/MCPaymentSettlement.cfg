SPECIFICATION FairSpec
CONSTANTS
    input = input
    output = output
    bill = bill
    infer = infer
    send = send
    NoRequest = NoRequest
    Invoice = {input, output}
    Request = {infer}
    Terms <- OneRequest
    Amount <- Prices
    Charge <- InputAndOutput
    Budget = 5
    Funds = 6
    LastDay = 0
    LookupsLinger = TRUE
    MaxCrashes = 1
PROPERTIES
    ChargesSettle
CHECK_DEADLOCK FALSE
