-------------------------------- MODULE Config --------------------------------
(***************************************************************************)
(* The configuration file (internal/config): what Load makes of it.        *)
(*                                                                         *)
(* A profile is a record of host, credentials ("none", "password" or       *)
(* "key"), protocol, port, connections, context and auto; an empty string  *)
(* or a zero is a field that the file does not set.  A file is a record of *)
(* its state and the profiles it holds by name.                            *)
(***************************************************************************)
EXTENDS Integers, FiniteSets

\* A profile as the file may give it (types.go).
Profile == [host : STRING, credentials : STRING, protocol : STRING, port : Int,
            connections : Int, context : STRING, auto : BOOLEAN]

Ports == 1..65535

\* A file that is "torn" or "missing"; others are "whole".
EmptyFile(state) == [state |-> state, profiles |-> << >>]

\* SetDefaults
SetDefaults(p) ==
    LET q == [p EXCEPT !.protocol = IF @ = "" THEN "sftp" ELSE @] IN
    [q EXCEPT !.port = IF @ # 0 THEN @ ELSE IF q.protocol = "sftp" THEN 22 ELSE 21,
              !.connections = IF @ = 0 /\ q.protocol # "sftp" THEN 8 ELSE @]

\* Validate
Validate(p) ==
    /\ p.host # ""
    /\ p.protocol \in {"ftp", "ftps", "sftp"}
    /\ p.connections \in 0..16 /\ p.port \in Ports
    /\ p.credentials \in IF p.protocol = "sftp" THEN {"password", "key"} ELSE {"password"}

\* Load, if the copies were not put back.
ParsedNotStored(file) == file.profiles

\* Load: all profiles or none.  The loop works on copies of the profiles.
Parsed(file) == [n \in DOMAIN file.profiles |-> SetDefaults(file.profiles[n])]

Loads(file) ==
    /\ file.state = "whole"
    /\ \A n \in DOMAIN file.profiles : Validate(SetDefaults(file.profiles[n]))

\* What the clients rely on.
Complete(p) ==
    /\ p.protocol \in {"ftp", "ftps", "sftp"} /\ p.port \in Ports
    /\ p.credentials # "none"
    /\ p.protocol # "sftp" => p.connections \in 1..16 /\ p.credentials = "password"
===============================================================================
