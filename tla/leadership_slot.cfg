\* Two replicas, one failure.
SPECIFICATION Spec
CONSTANTS
    d1 = d1  d2 = d2
    Drivers = {d1, d2}
    NoDriver = NoDriver
    MaxFaults = 1
PROPERTY MaintenanceHoldsSlot
