SPECIFICATION FairSpec
CONSTANT MaxLog = 4
INVARIANT TypeOK
INVARIANT LogTellsHealth
INVARIANT LogAlternates
PROPERTY OutageLogged
PROPERTY BeatsGoOn
