SPECIFICATION LaunchSpec
CONSTANTS
    Files <- MCFiles
    LegacyFiles <- MCLegacy
    Worlds <- MCWorlds
    Typed <- MCTyped
    Discovered <- MCDiscovered
    Gains <- MCGains
    Ports <- MCPorts
    Languages <- MCLanguages
    MaxContacts = 2
    MaxChanges = 3
    MaxPhrases = 3
INVARIANTS CoreMeansSettings SettingsSurvive ParsedAsWritten
PROPERTY BindsToLiveAdapter
CHECK_DEADLOCK FALSE
