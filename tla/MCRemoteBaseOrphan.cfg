SPECIFICATION FairSpec
CONSTANTS
    first = first
    second = second
    Tickets = {first, second}
    Setups <- MCSetups
    Capacity = 1
PROPERTIES
    CallersNeverWaitForever
