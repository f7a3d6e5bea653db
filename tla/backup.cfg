CONSTANTS
    host = host
    main = main
    ops = ops
    pager = pager
    Assets = {host}
    Labels = {main, ops, pager}
    Blank = blank
    Ids = {1, 2, 3, 4}
    Global = global
    Bundle <- Document
    MaxImports = 2
    MaxFaults = 1
SPECIFICATION Spec
INVARIANTS TypeOK LabelsStayUnique
PROPERTIES  EnabledIsUsable RulesKeepTheirChannels OnlyUnnamedIsRepeated
CHECK_DEADLOCK FALSE
