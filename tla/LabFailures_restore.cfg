CONSTANT MaxScripts = 2
SPECIFICATION LabSpec
PROPERTIES RestoreIsBaseline
CHECK_DEADLOCK FALSE
