SPECIFICATION InstallSpec
CHECK_DEADLOCK FALSE
CONSTANTS
    MountRenders <- MountFixtures
    EnvTrees <- EnvFixtures
    SecretTrees <- SecretFixtures
    WaveCharts <- WaveFixtures
    PatCharts <- PatFixtures
    MaxWrites = 2
    MAX_RETRIES = 2
    MaxCrashes = 2
INVARIANTS InstallSafe
 
