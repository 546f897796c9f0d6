SPECIFICATION Spec
CONSTANTS
    Paths = {".gitignore", "test_calc.py", "local.py"}
    Contents = {"imported"}
    PyFiles = {"test_calc.py", "local.py"}
    TestFiles = {"test_calc.py"}
    PackageFiles = {}
    IgnoreFile = ".gitignore"
    Ignores <- MCIgnores
    Source <- MCSource
    RunIds = {"r1"}
    MaxCommits = 3
    MaxWrites = 1
INVARIANTS AttachImportsTheProject DiffIsThisSessionsWork
PROPERTY VerifyEnds
