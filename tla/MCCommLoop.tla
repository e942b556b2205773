----------------------------- MODULE MCCommLoop -----------------------------
(* CommLoop for TLC.                                                       *)
EXTENDS CommLoop

\* Every client may make every request.
Every == [c \in Clients |-> Requests]

\* One client plays a stream while the others use the daemon.
OneStreams ==
    LET s == CHOOSE c \in Clients : TRUE
    IN  [c \in Clients |-> IF c = s THEN {"play"}
                           ELSE {"standby", "resume", "record", "monitor", "sample"}]

\* Autostandby off, and after one unit of time or at once.
OffOrOne == {-1, 1}
OffOrZero == {-1, 0}

\* Autostandby off, the default.
Off == {-1}
=============================================================================
