SPECIFICATION Spec
CONSTANTS
    Code <- MCCode
    Tree <- MCTree
    Dirs <- MCDirs
    Links <- MCLinks
    Blacklists <- MCBlacklists
INVARIANTS
    MatchIsGlob
    RemovalIsExact
