SPECIFICATION TokensMadeFairSpec
CONSTANTS
    MaxId = 4
    Suppliers = {"CHEESECO", "DOUGHCO", "SAUCECO"}
    Prices = {1, 2}
    Requests = {1, 2, 3}
    Route <- DeliveryWorkload
    MaxInFlight = 3
    MaxFaults = 0
    Bodies <- TwoOrders
    TransferParties <- ScanTwoParties
    PaymentParties <- PayOne
    Supply = 9
PROPERTY HandOverIsRecorded
