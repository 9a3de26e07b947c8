\* Restoring the statistics from the backup page: no write fails.
SPECIFICATION Spec
CONSTANTS
    Values = {0, 1}
    Firmwares = {1}
    RecoverTicks = 2
    MaxCounter = 2
    MaxFaults = 0
PROPERTY StatisticsFallBack
