SPECIFICATION InvoicedSpec
CONSTANTS
    MaxId = 5
    Suppliers = {"CHEESECO", "DOUGHCO", "SAUCECO"}
    Prices = {1, 2}
    Requests = {1, 2, 3}
    Route <- MintingWorkload
    MaxInFlight = 3
    MaxFaults = 1
    Bodies <- TwoOrders
    TransferParties <- ScanParties
    PaymentParties <- PayOne
    Supply = 9
INVARIANTS TokensAreBacked TokensMadeOnce
