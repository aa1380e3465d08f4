---------------------------- MODULE Connections ----------------------------
(***************************************************************************)
(* The commands of a download over HTTP and FTP, from the choice of a URI  *)
(* to the end of a response: they share the URIs of the file (FileEntry),  *)
(* its segments, the resolved addresses and the idle connections           *)
(* (Sockets).                                                              *)
(* Servers fail, close connections and are slow; a bound says how often a  *)
(* server that works does so.                                              *)
(*                                                                         *)
(* One file, no proxy, no pipelining, no metalink; the data of segments is *)
(* in Transfer.  A segment is a piece, a response covers the pieces from   *)
(* the one asked for up to end.                                            *)
(***************************************************************************)
EXTENDS FileEntry, Sockets

CONSTANTS
    NumPieces,
    Split,      \* numConcurrentCommand_
    MaxTries,   \* --max-tries
    Setups,     \* the options and servers a run is about
    Dead        \* addresses that do not answer

\* A setup has limit: --max-connection-per-server; wait: --retry-wait is not
\* 0; gone: URIs answered with an error for good; busy: URIs answered with
\* 503 once in a while; v6: addresses a backup connection is tried for; ftp:
\* URIs of FTP servers, which refuse a data connection when they are busy;
\* faults: a bound on what goes wrong at servers that work.

VARIABLES
    setup,
    fe,     \* the FileEntry
    cmd,    \* [Cmd -> command]
    dl,     \* of the download: pieces done, piece storage, ignored segments
    net     \* addresses and sockets

vars == <<setup, fe, cmd, dl, net>>

Piece == 1 .. NumPieces
NoPiece == 0
Cmd == 1 .. Split

ASSUME ConnectionsAssumption ==
    /\ NumPieces \in Nat \ {0} /\ Split \in Nat \ {0}
    /\ MaxTries \in Nat
    /\ \A u \in Uri : HostOf[u] \in Host
    /\ \A u \in Setups : u.limit \in Nat /\ u.wait \in BOOLEAN

NoCmd ==
    [st |-> "none", req |-> NoReq, seg |-> NoPiece, sock |-> NoSock,
     end |-> 0, keep |-> FALSE]
NewCmd == [NoCmd EXCEPT !.st = "create"]

Init ==
    /\ setup \in Setups
    /\ fe = InitFileEntry
    /\ cmd = [c \in Cmd |-> IF c = 1 THEN NewCmd ELSE NoCmd]
    /\ dl = [done |-> {}, storage |-> FALSE, ignored |-> FALSE, halt |-> FALSE]
    /\ net = InitNet

----------------------------------------------------------------------------
UriOf(c) == fe.reqs[cmd[c].req].uri
HostOfCmd(c) == HostOf[UriOf(c)]

IsFtp(c) == UriOf(c) \in setup.ftp

\* FtpNegotiationCommand: what a command waits for, one after another.  The
\* login begins with the greeting and ends with TYPE, CWD with MDTM, and data
\* is the answers to PASV and REST and the connection between them.
FtpStage == {"login", "cwd", "size", "data", "retr"}
Negotiating(c) == cmd[c].st \in FtpStage

Over == dl.done = Piece \/ dl.halt
Going(c) == ~Over /\ cmd[c].st # "none"

\* Nobody works on the piece.
Free == (Piece \ dl.done) \ {cmd[c].seg : c \in Cmd}

\* AbstractCommand::tryReserved: what comes after a command that gave up.
Successor(f) == IF ~dl.storage /\ f.uris = {} THEN NoCmd ELSE NewCmd

\* AbstractCommand::prepareForRetry, the request r in flight.  The segments
\* of the file are looked at again.
prepareForRetry(c, f, r) ==
    /\ fe' = poolRequest(f, r)
    /\ cmd' = [cmd EXCEPT ![c] = NewCmd]
    /\ dl' = [dl EXCEPT !.ignored = FALSE]

\* Fault: the request of a command that gives up is still in flight.
AbortKeepsRequest(c, f) ==
    LET u == f.reqs[cmd[c].req].uri
        g == removeIdenticalURI(addURIResult(f, u), u)
    IN  /\ fe' = g
        /\ cmd' = [cmd EXCEPT ![c] = Successor(g)]
        /\ UNCHANGED dl

\* Fault: a command that gives up has no successor.
AbortForGood(c, f) ==
    LET u == f.reqs[cmd[c].req].uri
        g == removeRequest(removeIdenticalURI(addURIResult(f, u), u),
                           cmd[c].req)
    IN  /\ fe' = g
        /\ cmd' = [cmd EXCEPT ![c] = NoCmd]
        /\ UNCHANGED dl

\* A DlAbortEx with a request: the URI has failed.
Abort(c, f) ==
    LET u == f.reqs[cmd[c].req].uri
        g == removeRequest(removeIdenticalURI(addURIResult(f, u), u),
                           cmd[c].req)
    IN  /\ fe' = g
        /\ cmd' = [cmd EXCEPT ![c] = Successor(g)]
        /\ UNCHANGED dl

\* A DlRetryEx; asleep: the server is busy or the file was not found.
Retry(c, asleep) ==
    LET r == cmd[c].req
        f == [fe EXCEPT !.reqs[r].tries = @ + 1, !.reqs[r].addr = NoAddr]
    IN  IF MaxTries # 0 /\ f.reqs[r].tries >= MaxTries THEN Abort(c, f)
        ELSE prepareForRetry(c, [f EXCEPT !.reqs[r].asleep = asleep /\ setup.wait],
                             r)

\* The prelude of AbstractCommand::execute.
EndOfDownload(c) ==
    /\ Over /\ cmd[c].st # "none"
    /\ cmd[c].st = "finish" => dl.halt
    /\ cmd' = [cmd EXCEPT ![c] = NoCmd]
    /\ net' = CloseSocket(net, cmd[c].sock)
    /\ UNCHANGED <<setup, fe, dl>>

\* The segment was given to another command.
SegmentTaken(c) ==
    /\ Going(c) /\ dl.storage /\ cmd[c].st # "finish"
    /\ cmd[c].req # NoReq /\ cmd[c].seg = NoPiece
    /\ prepareForRetry(c, fe, cmd[c].req)
    /\ net' = CloseSocket(net, cmd[c].sock)
    /\ UNCHANGED setup

Fault == net.faults < setup.faults
CountFault(n) == [n EXCEPT !.faults = @ + 1]

----------------------------------------------------------------------------
(***************************************************************************)
(* CreateRequestCommand, with the segment AbstractCommand::execute gets.   *)
(***************************************************************************)
\* A request, or the end of this file's segments: no URI is available.
GetRequest(c, seg) ==
    \E n \in getRequest(fe, setup.limit) :
       IF n.req = NoReq
       THEN /\ fe' = n.fe
            /\ cmd' = [cmd EXCEPT ![c] = Successor(n.fe)]
            /\ dl' = [dl EXCEPT !.ignored = dl.storage]
       ELSE IF n.fe.reqs[n.req].asleep
       THEN /\ fe' = poolRequest(n.fe, n.req)
            /\ cmd' = [cmd EXCEPT ![c].seg = seg]
            /\ UNCHANGED dl
       ELSE /\ fe' = n.fe
            /\ cmd' = [cmd EXCEPT ![c].st = "initiate", ![c].req = n.req,
                                  ![c].seg = seg]
            /\ UNCHANGED dl

CreateRequest(c) ==
    /\ Going(c) /\ cmd[c].st = "create"
    /\ IF ~dl.storage \/ cmd[c].seg # NoPiece THEN GetRequest(c, cmd[c].seg)
       ELSE IF dl.ignored
       THEN cmd' = [cmd EXCEPT ![c] = NoCmd] /\ UNCHANGED <<fe, dl>>
       ELSE \E seg \in Free : GetRequest(c, seg)
    /\ UNCHANGED <<setup, net>>

\* retry-wait is over.
Wake(r) ==
    /\ r \in fe.pool /\ fe.reqs[r].asleep
    /\ fe' = [fe EXCEPT !.reqs[r].asleep = FALSE]
    /\ UNCHANGED <<setup, cmd, dl, net>>

----------------------------------------------------------------------------
(***************************************************************************)
(* HttpInitiateConnectionCommand, FtpInitiateConnectionCommand,            *)
(* ConnectCommand, HttpRequestCommand.                                     *)
(***************************************************************************)
Holding(c) == dl.storage => cmd[c].seg # NoPiece

\* The response is asked for up to the next piece in use, over FTP always up
\* to the end of the file.
EndOfRequest(c) ==
    LET used == {p \in Piece : p > cmd[c].seg
                   /\ (p \in dl.done \/ \E d \in Cmd : cmd[d].seg = p)}
    IN  IF ~dl.storage \/ IsFtp(c) \/ used = {} THEN NumPieces + 1 ELSE Min(used)

\* The first message over connection s, new or used before: an HTTP request,
\* or the beginning of an FTP session, or its going on after the login.
Sending(c, n, s, a, new) ==
    /\ net' = [n EXCEPT !.socks[s].owed = @ + 1]
    /\ fe' = [fe EXCEPT !.reqs[cmd[c].req].addr = a]
    /\ cmd' = [cmd EXCEPT ![c].st = IF ~IsFtp(c) THEN "response"
                                    ELSE IF new THEN "login" ELSE "cwd",
                          ![c].sock = s,
                          ![c].end = EndOfRequest(c)]

\* An idle connection to one of the addresses is used before a new one is
\* made.  Without an address the command looks again later.
InitiateConnection(c) ==
    LET h == HostOfCmd(c)
        n == resolveHostname(net, h)
    IN  /\ Going(c) /\ cmd[c].st = "initiate" /\ Holding(c)
        /\ IF findAll(n, h) = {}
           THEN net' = n /\ UNCHANGED <<fe, cmd>>
           ELSE IF Poolable(n, h) # {}
           THEN \E s \in Poolable(n, h) :
                   Sending(c, popPooledSocket(n, s), s, n.socks[s].addr, FALSE)
           ELSE /\ FreeSock(n) # {}
                /\ net' = OpenSocket(n, find(n, h))
                /\ fe' = [fe EXCEPT !.reqs[cmd[c].req].addr = find(n, h)]
                /\ cmd' = [cmd EXCEPT ![c].st = "connecting",
                                      ![c].sock = Min(FreeSock(n))]
        /\ UNCHANGED <<setup, dl>>

Connected(c) ==
    /\ Going(c) /\ cmd[c].st = "connecting" /\ Holding(c)
    /\ fe.reqs[cmd[c].req].addr \notin Dead
    /\ Sending(c, net, cmd[c].sock, fe.reqs[cmd[c].req].addr, TRUE)
    /\ UNCHANGED <<setup, dl>>

\* BackupIPv4ConnectCommand has connected first.
BackupConnected(c) ==
    LET a == fe.reqs[cmd[c].req].addr
        h == HostOfCmd(c)
    IN  /\ Going(c) /\ cmd[c].st = "connecting" /\ Holding(c)
        /\ a \in setup.v6
        /\ \E b \in ToSet(AddrsOf[h]) \ (setup.v6 \cup Dead) :
              Sending(c, [markBad(net, h, a) EXCEPT
                            !.socks[cmd[c].sock].addr = b],
                      cmd[c].sock, b, TRUE)
        /\ UNCHANGED <<setup, dl>>

\* checkIfConnectionEstablished has failed: the next address is tried, or
\* the entry removed.
Refused(c) ==
    LET a == fe.reqs[cmd[c].req].addr
        h == HostOfCmd(c)
        n == AddressFailed(CloseSocket(net, cmd[c].sock), h, a)
    IN  /\ Going(c) /\ cmd[c].st = "connecting" /\ Holding(c)
        /\ a \in Dead \/ Fault
        /\ net' = IF a \in Dead THEN n ELSE CountFault(n)
        /\ IF h \in n.cached /\ findAll(n, h) # {}
           THEN /\ cmd' = [cmd EXCEPT ![c].st = "initiate", ![c].sock = NoSock]
                /\ UNCHANGED <<fe, dl>>
           ELSE Retry(c, FALSE)
        /\ UNCHANGED setup

\* AbstractCommand::execute finds that nothing has come for too long.
Timeout(c) ==
    LET a == fe.reqs[cmd[c].req].addr
        n == AddressFailed(CloseSocket(net, cmd[c].sock), HostOfCmd(c), a)
    IN  /\ Going(c) /\ Holding(c)
        /\ cmd[c].st \in {"connecting", "response", "download"} \/ Negotiating(c)
        /\ a \in Dead \/ Fault
        /\ net' = IF a \in Dead THEN n ELSE CountFault(n)
        /\ Retry(c, FALSE)
        /\ UNCHANGED setup

----------------------------------------------------------------------------
(***************************************************************************)
(* HttpResponseCommand, HttpSkipResponseCommand, HttpDownloadCommand.      *)
(***************************************************************************)
ServerOpen(c) == net.socks[cmd[c].sock].open

\* The server has closed the connection before the response was complete.
GotEof(c) ==
    /\ Going(c) /\ Holding(c)
    /\ cmd[c].st \in {"response", "download"} \/ Negotiating(c)
    /\ ~ServerOpen(c)
    /\ net' = CloseSocket(net, cmd[c].sock)
    /\ Retry(c, FALSE)
    /\ UNCHANGED setup

\* Fault: a connection is pooled with a response still to come.
PoolUnread(n, s, whole, keep) ==
    IF keep THEN poolSocket(n, s) ELSE {CloseSocket(n, s)}

\* The connection after a response, pooled if it may be used again: all of
\* the response was read and the server keeps it open.
AfterResponse(n, s, whole, keep) ==
    IF whole /\ keep
    THEN poolSocket([n EXCEPT !.socks[s].owed = @ - 1], s)
    ELSE {CloseSocket(n, s)}

\* The error a server may answer with; a proxy's 504 is a passing one.
ErrorStatus(u) ==
    IF u \in setup.gone THEN {404}
    ELSE IF Fault THEN {504} \cup (IF u \in setup.busy THEN {503} ELSE {})
    ELSE {}

\* An error response: its body is skipped, the connection kept if that ends.
ErrorResponse(c) ==
    /\ Going(c) /\ cmd[c].st = "response" /\ Holding(c) /\ ServerOpen(c)
    /\ \E status \in ErrorStatus(UriOf(c)) :
          /\ \E whole \in BOOLEAN, keep \in BOOLEAN :
                net' \in AfterResponse(
                           IF status = 404 THEN net ELSE CountFault(net),
                           cmd[c].sock, whole, keep)
          /\ IF status = 404 \/ (status = 503 /\ ~setup.wait)
             THEN Abort(c, fe) ELSE Retry(c, TRUE)
    /\ UNCHANGED setup

\* The commands for the other pieces once the length is known.
Started(S) ==
    [c \in Cmd |->
       IF c \notin S
          /\ Cardinality({d \in Cmd : d < c} \ S)
               < Min({NumPieces, Split}) - Cardinality(S)
       THEN NewCmd ELSE cmd[c]]

\* A proper response.  The first one of all brings the length of the file.
GoodResponse(c, keep) ==
    /\ Going(c) /\ cmd[c].st = "response" /\ Holding(c) /\ ServerOpen(c)
    /\ UriOf(c) \notin setup.gone
    /\ IF dl.storage
       THEN /\ cmd' = [cmd EXCEPT ![c].st = "download", ![c].keep = keep]
            /\ UNCHANGED dl
       ELSE /\ cmd' = [Started({c}) EXCEPT ![c].st = "download",
                         ![c].seg = 1, ![c].keep = keep]
            /\ dl' = [dl EXCEPT !.storage = TRUE]
    /\ UNCHANGED <<setup, fe, net>>

\* The piece after p, free or held by a command that has received nothing.
Idle(d) ==
    cmd[d].st \in {"create", "initiate", "connecting", "response"} \/ Negotiating(d)
MayTake(p) ==
    /\ p \in Piece \ dl.done
    /\ \A d \in Cmd : cmd[d].seg = p => Idle(d)

\* FtpDownloadCommand has all up to the end of the file: the reply to the
\* transfer is waited for, the request still in flight.
FtpFinishes(c) ==
    /\ cmd' = [cmd EXCEPT ![c].st = "finish", ![c].seg = NoPiece]
    /\ dl' = [dl EXCEPT !.done = @ \cup {cmd[c].seg}]
    /\ UNCHANGED <<fe, net>>

\* DownloadCommand completes a segment and prepareForNextSegment goes on in
\* the same response, or with a new request, or is done.
SegmentComplete(c) ==
    LET p == cmd[c].seg
        whole == cmd[c].end = p + 1
        r == cmd[c].req
        finished == dl.done \cup {p} = Piece
    IN  /\ Going(c) /\ cmd[c].st = "download" /\ p # NoPiece
        /\ IF ~whole /\ ~finished /\ MayTake(p + 1)
           THEN /\ cmd' = [d \in Cmd |->
                     IF d = c THEN [cmd[c] EXCEPT !.seg = p + 1]
                     ELSE IF cmd[d].seg = p + 1
                     THEN [cmd[d] EXCEPT !.seg = NoPiece] ELSE cmd[d]]
                /\ dl' = [dl EXCEPT !.done = @ \cup {p}]
                /\ UNCHANGED <<fe, net>>
           ELSE IF IsFtp(c) /\ whole THEN FtpFinishes(c)
           ELSE /\ net' \in AfterResponse(net, cmd[c].sock, whole, cmd[c].keep)
                /\ fe' = poolRequest(fe, r)
                /\ cmd' = [cmd EXCEPT ![c] = IF finished THEN NoCmd ELSE NewCmd]
                /\ dl' = [dl EXCEPT !.done = @ \cup {p},
                                    !.ignored = @ /\ finished]
        /\ UNCHANGED setup

----------------------------------------------------------------------------
(***************************************************************************)
(* FtpNegotiationCommand and FtpFinishDownloadCommand.  A reply that is    *)
(* received and the message sent next leave one reply owed; the data       *)
(* connection lives and dies with the control connection.                  *)
(***************************************************************************)
Replies(c, stage) ==
    Going(c) /\ cmd[c].st = stage /\ Holding(c) /\ ServerOpen(c)

\* The replies expected.
GoesOn(c, stage, next) ==
    /\ Replies(c, stage)
    /\ cmd' = [cmd EXCEPT ![c].st = next]
    /\ UNCHANGED <<setup, fe, dl, net>>

FtpLogin(c) == GoesOn(c, "login", "cwd")
FtpCwd(c) == GoesOn(c, "cwd", "size")
FtpData(c) == GoesOn(c, "data", "retr")

\* SIZE brings the length of the file if it is not known yet.
FtpSize(c) ==
    \/ dl.storage /\ GoesOn(c, "size", "data")
    \/ /\ ~dl.storage /\ Replies(c, "size")
       /\ cmd' = [Started({c}) EXCEPT ![c].st = "data", ![c].seg = 1]
       /\ dl' = [dl EXCEPT !.storage = TRUE]
       /\ UNCHANGED <<setup, fe, net>>

\* The transfer begins.
FtpRetr(c) ==
    /\ Replies(c, "retr") /\ UriOf(c) \notin setup.gone
    /\ cmd' = [cmd EXCEPT ![c].st = "download", ![c].keep = TRUE]
    /\ UNCHANGED <<setup, fe, dl, net>>

\* An error reply ends the use of the URI; after CWD the connection is kept.
FtpError(c) ==
    /\ \E stage \in FtpStage \ {"size"} :
          /\ Replies(c, stage) /\ UriOf(c) \in setup.gone
          /\ net' \in AfterResponse(net, cmd[c].sock, TRUE, stage = "cwd")
    /\ Abort(c, fe)
    /\ UNCHANGED setup

\* The data connection is refused, which is an error for good too.
FtpDataRefused(c) ==
    /\ Replies(c, "data") /\ UriOf(c) \in setup.busy /\ Fault
    /\ net' = CountFault(CloseSocket(net, cmd[c].sock))
    /\ Abort(c, fe)
    /\ UNCHANGED setup

\* The reply to the transfer, another one, or none in time: the connection
\* is pooled or not, and the command goes on with another piece.
FtpFinish(c) ==
    /\ cmd[c].st = "finish" /\ ~dl.halt
    /\ \E whole \in BOOLEAN :
          /\ whole => ServerOpen(c)
          /\ net' \in AfterResponse(net, cmd[c].sock, whole, TRUE)
    /\ IF dl.done = Piece
       THEN cmd' = [cmd EXCEPT ![c] = NoCmd] /\ UNCHANGED <<fe, dl>>
       ELSE prepareForRetry(c, fe, cmd[c].req)
    /\ UNCHANGED setup

----------------------------------------------------------------------------
(***************************************************************************)
(* The servers and the engine.                                             *)
(***************************************************************************)
\* A server closes a connection, idle or not.
ServerCloses(s) ==
    /\ net.socks[s].open /\ Fault
    /\ ~\E c \in Cmd : cmd[c].sock = s /\ cmd[c].st = "connecting"
    /\ net' = CountFault([net EXCEPT !.socks[s].open = FALSE])
    /\ UNCHANGED <<setup, fe, cmd, dl>>

\* EvictSocketPoolCommand, or the scan of findSocketPoolEntry.
PoolTimeout(s) ==
    /\ s \in net.pool
    /\ net' = [CloseSocket(net, s) EXCEPT !.pool = @ \ {s}]
    /\ UNCHANGED <<setup, fe, cmd, dl>>

\* The entry of a host has outlived its time.
DnsExpired(h) ==
    /\ h \in net.cached /\ Fault
    /\ net' = CountFault(removeEntry(net, h))
    /\ UNCHANGED <<setup, fe, cmd, dl>>

Halt ==
    /\ ~Over
    /\ dl' = [dl EXCEPT !.halt = TRUE]
    /\ UNCHANGED <<setup, fe, cmd, net>>

\* Everything that ends has ended.
Done ==
    /\ \A c \in Cmd : cmd[c].st = "none"
    /\ UNCHANGED vars

CommandStep(c) ==
    \/ EndOfDownload(c) \/ SegmentTaken(c) \/ CreateRequest(c)
    \/ InitiateConnection(c)
    \/ Connected(c) \/ Refused(c) \/ BackupConnected(c) \/ Timeout(c)
    \/ GotEof(c) \/ ErrorResponse(c)
    \/ \E keep \in BOOLEAN : GoodResponse(c, keep)
    \/ SegmentComplete(c)
    \/ FtpLogin(c) \/ FtpCwd(c) \/ FtpSize(c) \/ FtpData(c) \/ FtpRetr(c)
    \/ FtpError(c) \/ FtpDataRefused(c) \/ FtpFinish(c)

Next ==
    \/ \E c \in Cmd : CommandStep(c)
    \/ \E r \in Req : Wake(r)
    \/ \E s \in Sock : ServerCloses(s) \/ PoolTimeout(s)
    \/ \E h \in Host : DnsExpired(h)
    \/ Halt
    \/ Done

Spec == Init /\ [][Next]_vars

\* The engine executes every command again and again, waits end, and what a
\* server is asked it answers, or the command times out.
Fairness ==
    /\ \A c \in Cmd : WF_vars(CommandStep(c))
    /\ \A r \in Req : WF_vars(Wake(r))

FairSpec == Spec /\ Fairness

----------------------------------------------------------------------------
(***************************************************************************)
(* Properties.                                                             *)
(***************************************************************************)

\* The type invariant of the connections.
TypeOK ==
    /\ IsFileEntry(fe)
    /\ dl.done \subseteq Piece
    /\ net.pool \subseteq Sock /\ net.cached \subseteq Host
    /\ \A c \in Cmd : /\ cmd[c].req \in Req \cup {NoReq}
                      /\ cmd[c].sock \in Sock \cup {NoSock}
                      /\ cmd[c].seg \in Piece \cup {NoPiece}

\* The requests in flight are those commands work with, so that a host that
\* counts as busy is busy.
InFlightIsHeld ==
    ~Over => fe.inflight = {cmd[c].req : c \in Cmd} \ {NoReq}

\* No server is asked over more connections than --max-connection-per-server
\* allows, whatever is retried, asleep or pooled.
HostLimit ==
    \A h \in Host : Cardinality({c \in Cmd :
        cmd[c].req # NoReq /\ HostOfCmd(c) = h}) <= setup.limit

\* A connection is idle or has one user, and an idle one owes no response:
\* nobody reads the answer to somebody else's request.
SocketHasOneUser ==
    /\ \A s \in net.pool : /\ net.socks[s].owed = 0
                           /\ \A c \in Cmd : cmd[c].sock # s
    /\ \A c, d \in Cmd : c # d /\ cmd[c].sock # NoSock => cmd[c].sock # cmd[d].sock
    /\ \A c \in Cmd : cmd[c].sock # NoSock => net.socks[cmd[c].sock].owed <= 1

\* A download that ends unfinished has had an error from every one of its
\* URIs: those beyond the number of connections are for backup.
BackupUrisAreTried ==
    ~Over /\ (\A c \in Cmd : cmd[c].st = "none") => fe.errs = Uri

\* A URI whose server works, if not always at once.
Works(u) ==
    /\ u \notin setup.gone
    /\ u \in setup.busy => setup.wait /\ u \notin setup.ftp
    /\ ~(ToSet(AddrsOf[HostOf[u]]) \subseteq Dead)

\* A download with a URI whose server works completes, or is halted,
\* whatever becomes of the others and however often aria2 must retry.
GoodMirrorCompletes == (\E u \in Uri : Works(u)) => <>Over

=============================================================================
