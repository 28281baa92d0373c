CONSTANTS
    MaxWords = 5
    Packet <- Packets
    Telegram <- Telegrams
    MetadataSize = 3
    MaxLength = 2
    Parameters = {1, 2}
    MaxCount = 2
    MaxRegister = 1
    Text <- Texts
    MaxJobs = 2
    MaxBytes = 3
    MaxFile = 3
    Backups = 2
    MaxRecord = 4
SPECIFICATION FairSpec
INVARIANTS RegistersExact EntriesExact FileCurrent Accounted FilesReadable
PROPERTIES OldestDropped CapturesSettle
