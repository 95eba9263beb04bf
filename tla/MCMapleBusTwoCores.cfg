SPECIFICATION BusSpec
CONSTANT Sides = {"host"}
INVARIANT EndsHaveTransmission
