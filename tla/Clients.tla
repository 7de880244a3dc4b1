------------------------------- MODULE Clients -------------------------------
(***************************************************************************)
(* A client as its callers see it (internal/transfer/client.go): NewClient *)
(* makes an SFTP or an FTP client of the profile's protocol, and both keep *)
(* the promises of RemoteClient.                                           *)
(***************************************************************************)
EXTENDS FTPClient, SFTPClient

vars == <<clientVars, ftpVars, sftpVars>>

Init ==
    /\ NewClient("ftp") \/ NewClient("sftp")
    /\ Init_FTP /\ Init_SFTP
    /\ kind = "sftp" => ~precise

Next ==
    \/ kind = "ftp" /\ NextFTP /\ UNCHANGED sftpVars
    \/ kind = "sftp" /\ NextSFTP /\ UNCHANGED ftpVars

StepOf(c) == \/ kind = "ftp" /\ StepFTP(c) /\ UNCHANGED sftpVars
             \/ kind = "sftp" /\ StepSFTP(c) /\ UNCHANGED ftpVars
Time == kind = "sftp" /\ (Tick \/ Tear) /\ UNCHANGED ftpVars

\* Goroutines run, time passes, a server that is there answers.  Nothing makes
\* a silent one speak again.
Fairness == (\A c \in Callers : WF_vars(StepOf(c))) /\ WF_vars(Time)

Spec == Init /\ [][Next]_vars /\ Fairness

-----------------------------------------------------------------------------
TypeOK ==
    /\ kind \in {"ftp", "sftp"} /\ client \in {"closed", "open"}
    /\ left \in [Callers -> 1..Depth] /\ excused \in [Callers -> BOOLEAN]
    /\ made \in 0..Depth /\ calls \in 0..MaxCalls /\ faults \in 0..MaxFaults
    /\ op \in [Callers -> {"none"} \cup Exclusive \cup FTPOps \cup SFTPOps]
    /\ TypeOK_FTP /\ TypeOK_SFTP

\* Property: a call returns, whatever the server does: every command, every
\* handshake and every QUIT is under a deadline.  There are two exceptions: the
\* opening of an extra SFTP session while nothing else is in flight, and the
\* closing of the sessions in Close, or in a Connect that closes them first.
CallsReturn == \A c \in Callers : []<>(pc[c] = "idle" \/ Stranded)
==============================================================================
