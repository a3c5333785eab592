CONSTANTS
    Anchors = {TRUE, FALSE}
    Assets = {"issued"}
    TheAddress = TheAddress
    Unnamed = Unnamed
    MaxHeld = 2
    MaxTransfers = 5
    MaxPayments = 5
    MaxFaults = 2
SPECIFICATION CashOutSpec
INVARIANTS
    OneOpenTransfer

    
CHECK_DEADLOCK FALSE
