\* Three workers, so that two find the connection replaced by the third; an
\* ordinary job, one the server refuses and one that cannot be done twice; two
\* deaths, so that a retry fails as well; one reconnection that fails.
SPECIFICATION FairSpec
CONSTANTS
    Workers = {w1, w2, w3}
    NoWorker = NoWorker
    NJobs = 3
    Hopeless = {2}
    Once = {3}
    Kinds = {"sftp", "ftp"}
    MaxDeaths = 2
    MaxRefusals = 1
INVARIANTS
    NoRequestDuringReconnect
    OneDeathIsInvisible
PROPERTIES
    LiveConnectionKept
    EveryJobAnswered
