\* The SFTP client, two workers, one failed reconnection.
SPECIFICATION Spec
CONSTANTS
    Workers = {w1, w2}
    NoWorker = NoWorker
    NJobs = 2
    Hopeless = {}
    Once = {}
    Kinds = {"sftp"}
    MaxDeaths = 1
    MaxRefusals = 1
INVARIANT FailuresAreReported
