SPECIFICATION FairSpec
CONSTANTS
    split = split
    single = single
    part1 = part1
    part2 = part2
    whole = whole
    Files = {part1, part2, whole}
    Recs = {split, single}
    FilesOf <- MCFilesOf
    Size <- MCSize
    Threads = {t1, t2}
    Requests = {q1, q2}
    NoFile = NoFile
    NoRec = NoRec
INVARIANTS
    TypeOK
    OneWorker
    SelectionIsInstalled
PROPERTIES
    DownloadEnds
