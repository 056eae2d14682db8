\* Files that include one another and test macros, and texts that are no programs.
SPECIFICATION PPSpec
CONSTANT MAX_LEVEL = 5
CONSTANT WIDTH = 8
CONSTANT Programs <- MCPrograms
CONSTANT MainFiles <- MCMainFiles
CONSTANT include_paths <- MCPaths
INVARIANTS Means LinesKept LevelsOK
PROPERTY ImplementsGroups
