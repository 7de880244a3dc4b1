------------------------------- MODULE MCDaemon -------------------------------
(* A small instance of Daemon: two profiles, two directories, two hosts.   *)
EXTENDS Daemon

Raw(h, context, auto) ==
    [host |-> h, credentials |-> "password", protocol |-> "", port |-> 0,
     connections |-> 0, context |-> context, auto |-> auto]

\* Both profiles share a directory; one moves; one is switched off, over FTP
\* and with another host; one has no context; one is gone; one has a bad port.
Both    == [site |-> Raw("a", "/src", TRUE), test |-> Raw("a", "/src", TRUE)]
Apart   == [site |-> Raw("b", "/src", TRUE), test |-> Raw("a", "/lib", TRUE)]
Off     == [site |-> [Raw("b", "/src", TRUE) EXCEPT !.protocol = "ftp"],
            test |-> Raw("a", "/src", FALSE)]
Single  == [site |-> Raw("a", "/src", TRUE)]
NoPlace == [site |-> Raw("a", "", TRUE), test |-> Raw("b", "/lib", TRUE)]
Bad     == [site |-> [Raw("b", "/src", TRUE) EXCEPT !.port = 70000]]

MCTexts == {Both, Apart, Off, Single, NoPlace, Bad}
===============================================================================
