--------------------------- MODULE MCConnections ---------------------------
(***************************************************************************)
(* Small instances of Connections for TLC.                                 *)
(***************************************************************************)
EXTENDS Connections, TLC

CONSTANTS u1, u2, h1, h2, a1, a2, a3

\* Two mirrors; the first address of the first one does not answer.
Mirrors == (u1 :> h1) @@ (u2 :> h2)
Addresses == (h1 :> <<a1, a2>>) @@ (h2 :> <<a3>>)

\* HTTP with one connection per server, a retry wait and both families of
\* addresses; and with two, the file lost by the second mirror.
Patient == [limit |-> 1, wait |-> TRUE, gone |-> {}, busy |-> Uri, v6 |-> {a1},
            ftp |-> {}, faults |-> 1]
Hasty == [limit |-> 2, wait |-> FALSE, gone |-> {u2}, busy |-> {}, v6 |-> {},
          ftp |-> {}, faults |-> 0]

\* The second mirror is an FTP server: the only one that has the file; or one
\* that has lost it and may refuse data connections.
FtpOnly == [Hasty EXCEPT !.gone = {u1}, !.ftp = {u2}, !.faults = 1]
FtpLost == [Hasty EXCEPT !.limit = 1, !.busy = {u2}, !.ftp = {u2},
                         !.faults = 1]

PassSetups == {Patient, Hasty, FtpOnly, FtpLost}

=============================================================================
