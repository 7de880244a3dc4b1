------------------------------ MODULE ListOffset ------------------------------
(***************************************************************************)
(* listOffsetFrom (internal/transfer/ftp.go): a server lists a file in its *)
(* own timezone, without the seconds; MDTM gives the same time in UTC.     *)
(* Times are in seconds.                                                   *)
(***************************************************************************)
EXTENDS Integers

Minute  == 60
Quarter == 900
Hour    == 3600

\* time.Duration.Round for a multiple of 15 minutes: half away from zero.
Round(d) ==
    IF d >= 0 THEN Quarter * ((d + 450) \div Quarter)
              ELSE -(Quarter * ((450 - d) \div Quarter))

Plausible(offset) == -14 * Hour <= offset /\ offset <= 14 * Hour

\* <<offset, ok>>
listOffsetFrom(listed, mdtm) ==
    LET offset == Round(listed - mdtm) IN
    IF Plausible(offset) THEN <<offset, TRUE>> ELSE <<0, FALSE>>

\* What the server lists: its local time, cut to the minute.
Listed(time, zone) == Minute * ((time + zone) \div Minute)
===============================================================================
