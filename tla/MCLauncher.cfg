\* The user starts sfmike up to three times.
SPECIFICATION Spec
CONSTANT MaxConnections = 3
INVARIANTS NoOrphan NoStrayKill
PROPERTY ShutsDown
