SPECIFICATION HealthSpec
PROPERTIES
    ReconnectsAfterOutage
