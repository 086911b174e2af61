SPECIFICATION BindingSpec
INVARIANT InstalledIsPolled
CHECK_DEADLOCK FALSE
