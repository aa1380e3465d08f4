----------------------------- MODULE SegmentMan -----------------------------
(***************************************************************************)
(* The stream commands of a download (HTTP and FTP) and the segments they  *)
(* take from the piece storage: SegmentMan with PiecedSegment, and of the  *)
(* commands what decides which bytes are written where: AbstractCommand    *)
(* taking and giving back segments, the range of a request, DownloadCommand*)
(* receiving data and passing from one segment to the next.                *)
(*                                                                         *)
(* A command has at most one segment (no pipelining) and one file.  Which  *)
(* missing and unused piece the stream piece selector picks is left open.  *)
(***************************************************************************)
EXTENDS PieceStorage

CONSTANTS
    Stream,      \* cuids of the stream commands
    BadStream,   \* those whose server sends wrong data
    P2P          \* the download has the BitTorrent attribute

VARIABLES
    segs,    \* usedSegmentEntries_: cuid -> [index, written]
    memo,    \* segmentWrittenLengthMemo_: index -> written length
    con,     \* the connection of each stream command
    session  \* has data been received, may the download start from scratch

streamVars == <<segs, memo, con, session>>

\* pos is the file position of the next byte of the response, end the end
\* of the range asked for.  oldStat: a DownloadCommand of this cuid is over,
\* so its PeerStat, the first one getPeerStat finds, is idle for good.
Connection ==
    [st: {"idle", "connecting", "receiving"},
     pos: 0 .. NumPieces * PieceLength, end: 0 .. NumPieces * PieceLength,
     oldStat: BOOLEAN]

NoConnection(old) ==
    [st |-> "idle", pos |-> 0, end |-> 0, oldStat |-> old]

StreamTypeOK ==
    /\ DOMAIN segs \subseteq Stream
    /\ \A c \in DOMAIN segs :
          segs[c] \in [index: Piece, written: 0 .. PieceLength]
    /\ DOMAIN memo \subseteq Piece
    /\ \A i \in DOMAIN memo : memo[i] \in 0 .. PieceLength
    /\ con \in [Stream -> Connection]
    /\ halted \in BOOLEAN
    /\ session \in [empty: BOOLEAN, alwaysResume: BOOLEAN]

StreamInit ==
    /\ segs = <<>>
    /\ memo = <<>>
    /\ con = [c \in Stream |-> NoConnection(FALSE)]
    /\ session = [empty |-> TRUE, alwaysResume |-> FALSE]

Without(f, x) == [y \in DOMAIN f \ {x} |-> f[y]]

----------------------------------------------------------------------------
(***************************************************************************)
(* SegmentMan's operations work on m = [ps, segs, memo, failed]; failed is *)
(* the DownloadFailureException that ends the download.                    *)
(***************************************************************************)
Man == [ps |-> ps, segs |-> segs, memo |-> memo, failed |-> FALSE]

FirstMissing(s, i) ==
    CHOOSE b \in MissingBlocks(s, i) : \A d \in MissingBlocks(s, i) : b <= d

\* A flush that failed, now or at an earlier eviction, empties the piece and
\* ends the download.
FlushOrFail(m, i, ok) ==
    LET s == flushWrCache(m.ps, i, ok) IN
    IF s.pieces[i].entry /\ s.pieces[i].error
    THEN [m EXCEPT !.ps = clearAllBlock(s, i), !.failed = TRUE]
    ELSE [m EXCEPT !.ps = s]

\* The written length remembered for the segment is believed when it is less
\* than one block ahead of the first missing block.
BelievedLength(m, i) ==
    LET start == FirstMissing(m.ps, i) * BlockLength IN
    IF i \in DOMAIN m.memo /\ start < m.memo[i]
                           /\ m.memo[i] - start < BlockLength
    THEN m.memo[i] ELSE start

checkoutSegment(m, c, i, ok) ==
    LET f == FlushOrFail([m EXCEPT !.ps = checkOutPieces(@, {i}, c)], i, ok) IN
    IF f.failed THEN f
    ELSE [f EXCEPT
            !.ps = setUsedBySegment(@, {i}, TRUE),
            !.segs = [d \in DOMAIN @ \cup {c} |->
                        IF d = c
                        THEN [index |-> i, written |-> BelievedLength(f, i)]
                        ELSE @[d]]]

\* cancelSegmentInternal after the flush, for the segments of the commands D.
GiveBack(m, D) ==
    LET I == {m.segs[c].index : c \in D}
        Last(i) == CHOOSE c \in D : m.segs[c].index = i
    IN  [m EXCEPT
           !.ps = cancelPieces(setUsedBySegment(@, I, FALSE), I, D),
           !.segs = [c \in DOMAIN @ \ D |-> @[c]],
           !.memo = [i \in DOMAIN @ \cup I |->
                       IF i \in I THEN m.segs[Last(i)].written ELSE @[i]]]

\* Fault: the piece is given back with its data still in the cache.
CancelWithoutFlush(m, c, ok) ==
    IF c \notin DOMAIN m.segs \/ m.failed THEN m ELSE GiveBack(m, {c})

\* All segments of the command: it has at most one.
cancelSegment(m, c, ok) ==
    IF c \notin DOMAIN m.segs \/ m.failed THEN m
    ELSE LET f == FlushOrFail(m, m.segs[c].index, ok)
         IN  IF f.failed THEN f ELSE GiveBack(f, {c})

\* The segments of the commands D are flushed and given back.
CancelThose(m, D, ok) ==
    GiveBack([m EXCEPT !.ps = Flushed(@, {m.segs[c].index : c \in D}, ok)], D)

\* The segment of c cannot be flushed, when those of D have been given back:
\* the list keeps its entries.
CancelFails(m, D, c, ok) ==
    [FlushOrFail(CancelThose(m, D, ok), m.segs[c].index, ok)
       EXCEPT !.segs = m.segs, !.failed = TRUE]

\* The outcomes of cancelAllSegments.
cancelAllSegments(m, ok) ==
    LET Failing == {c \in DOMAIN m.segs :
                      FlushOrFail(m, m.segs[c].index, ok).failed}
    IN  IF Failing = {} THEN {CancelThose(m, DOMAIN m.segs, ok)}
        ELSE {CancelFails(m, D, c, ok) :
                D \in SUBSET (DOMAIN m.segs \ Failing), c \in Failing}

getSegmentWithIndex(m, c, i, ok) ==
    IF i \in Piece /\ i \notin m.ps.have \cup m.ps.use
    THEN checkoutSegment(m, c, i, ok) ELSE m

\* getPeerStat finds the oldest PeerStat of the cuid.
OwnerIsIdle(c) == con[c].st # "receiving" \/ con[c].oldStat

getCleanSegmentIfOwnerIsIdle(m, c, i, ok) ==
    LET owners == {d \in DOMAIN m.segs \ {c} :
                     /\ m.segs[d] = [index |-> i, written |-> 0]
                     /\ OwnerIsIdle(d)}
    IN  IF owners = {} THEN m
        ELSE LET f == cancelSegment(m, CHOOSE d \in owners : TRUE, ok)
             IN  IF f.failed THEN f ELSE getSegmentWithIndex(f, c, i, ok)

\* PiecedSegment::clear.
clearSegment(m, c) ==
    LET i == m.segs[c].index IN
    [m EXCEPT !.ps = destroyHashContext(clearAllBlock(@, i), i),
              !.segs[c].written = 0]

\* Fault: the length is counted twice.
CountTwice(m, c, n) == [m EXCEPT !.segs[c].written = @ + 2 * n]

\* PiecedSegment::updateWrittenLength: the blocks the write has passed.
updateWrittenLength(m, c, n) ==
    LET i == m.segs[c].index
        from == m.segs[c].written
    IN  [m EXCEPT
           !.ps = completeBlocks(@, i,
                     {b \in Block : /\ from \div BlockLength <= b
                                    /\ (b + 1) * BlockLength <= from + n}),
           !.segs[c].written = from + n]

completeSegment(m, c, ok) ==
    LET i == m.segs[c].index
        s == flushWrCache(m.ps, i, ok)
        f == [m EXCEPT !.ps = s]
    IN  IF s.pieces[i].entry /\ s.pieces[i].error
        THEN [clearSegment(f, c) EXCEPT !.failed = TRUE]
        ELSE [f EXCEPT !.ps = completePiece(@, i), !.segs = Without(@, c)]

\* Fault: a piece whose hash was not computed on the fly is believed.
HashOnTheFlyOnly(s, i) == isHashCalculated(s, i) => s.pieces[i].hashOk

\* The hash computed on the fly is taken unless peers may have written to
\* the piece (BitTorrent in end game); else the piece is read back.
PieceHashMatches(s, i) ==
    IF (~s.endGame \/ ~P2P) /\ isHashCalculated(s, i)
    THEN s.pieces[i].hashOk ELSE DigestWithCacheOk(s, i)

----------------------------------------------------------------------------
(***************************************************************************)
(* The actions of a stream command.                                        *)
(***************************************************************************)
Becomes(m) ==
    /\ ps' = m.ps
    /\ segs' = m.segs
    /\ memo' = m.memo
    /\ halted' = (halted \/ m.failed)

Running == ~halted /\ ~downloadFinished(ps)

\* CreateRequestCommand takes a segment and a URI and starts to connect.
AcquireSegment(c) ==
    /\ Running
    /\ con[c].st = "idle"
    /\ \E i \in Piece \ (ps.have \cup ps.use), ok \in DiskOutcome(ps) :
          LET m == checkoutSegment(Man, c, i, ok) IN
          /\ Becomes(m)
          /\ con' = IF m.failed THEN con
                    ELSE [con EXCEPT ![c].st = "connecting"]
    /\ UNCHANGED session

\* HttpRequestCommand asks for the bytes from the segment to the next piece
\* in use, and the response to it begins.
RequestSegment(c) ==
    /\ Running
    /\ con[c].st = "connecting"
    /\ c \in DOMAIN segs
    /\ LET i == segs[c].index IN
       con' = [con EXCEPT ![c].st = "receiving",
                          ![c].pos = i * PieceLength + segs[c].written,
                          ![c].end = getNextUsedIndex(ps, i) * PieceLength]
    /\ UNCHANGED <<ps, segs, memo, halted, session>>

Ended(c) == NoConnection(con[c].oldStat \/ con[c].st = "receiving")

\* prepareForRetry, and onAbort with the command tryReserved creates.
GiveUp(c, m, ok) ==
    /\ Becomes(cancelSegment(m, c, ok))
    /\ con' = [con EXCEPT ![c] = Ended(c)]

\* The connection fails, times out or ends early.
DropConnection(c) ==
    /\ Running
    /\ con[c].st # "idle"
    /\ c \in DOMAIN segs
    /\ \E ok \in DiskOutcome(ps) : GiveUp(c, Man, ok)
    /\ UNCHANGED session

\* The server cannot send the range (CANNOT_RESUME).  When nothing has been
\* received yet and no other URI is worth a try, onAbort forgets what the
\* file has and starts from scratch, once.
CannotResume(c) ==
    /\ Running
    /\ con[c].st = "connecting"
    /\ c \in DOMAIN segs
    /\ segs[c].index * PieceLength + segs[c].written > 0
    /\ \E ok \in DiskOutcome(ps), scratch \in BOOLEAN :
       LET m == cancelSegment(Man, c, ok) IN
       /\ con' = [con EXCEPT ![c] = Ended(c)]
       /\ \/ /\ m.failed \/ P2P \/ session.alwaysResume \/ ~session.empty
                \/ ~scratch
             /\ Becomes(m)
             /\ UNCHANGED session
          \/ /\ scratch /\ ~m.failed /\ ~P2P
             /\ session.empty /\ ~session.alwaysResume
             /\ session' = [session EXCEPT !.alwaysResume = TRUE]
             /\ \E all \in cancelAllSegments(m, ok) :
                  Becomes(IF all.failed THEN all
                          ELSE [all EXCEPT !.memo = <<>>,
                                           !.ps = markNoPieceDone(@)])

\* The segments of the command were taken from it: it starts again.
SegmentsCanceled(c) ==
    /\ Running
    /\ con[c].st # "idle"
    /\ c \notin DOMAIN segs
    /\ con' = [con EXCEPT ![c] = Ended(c)]
    /\ UNCHANGED <<ps, segs, memo, halted, session>>

\* Fault: the response goes on into a segment that is partly written.
NextSegmentAnyhow(c, m, i, pos, ok) ==
    LET n == getSegmentWithIndex(m, c, i + 1, ok)
    IN  IF m.failed \/ downloadFinished(m.ps)
           \/ con[c].end = (i + 1) * PieceLength
        THEN Becomes(m) /\ con' = [con EXCEPT ![c] = Ended(c)]
        ELSE /\ Becomes(n)
             /\ con' = IF n.failed \/ c \notin DOMAIN n.segs
                       THEN [con EXCEPT ![c] = Ended(c)]
                       ELSE [con EXCEPT ![c].pos = pos]

\* DownloadCommand::prepareForNextSegment after the segment of piece i: the
\* response goes on into the next segment if that one is to be written from
\* its beginning.
prepareForNextSegment(c, m, i, pos, ok) ==
    LET w == getSegmentWithIndex(m, c, i + 1, ok)
        n == IF c \in DOMAIN w.segs \/ w.failed THEN w
             ELSE getCleanSegmentIfOwnerIsIdle(w, c, i + 1, ok)
    IN  IF m.failed \/ downloadFinished(m.ps)
           \/ con[c].end = (i + 1) * PieceLength
        THEN Becomes(m) /\ con' = [con EXCEPT ![c] = Ended(c)]
        ELSE IF n.failed \/ c \notin DOMAIN n.segs
        THEN Becomes(n) /\ con' = [con EXCEPT ![c] = Ended(c)]
        ELSE IF n.segs[c].written > 0 THEN GiveUp(c, n, ok)
        ELSE Becomes(n) /\ con' = [con EXCEPT ![c].pos = pos]

\* DownloadCommand::executeInternal with n bytes in the receive buffer: they
\* are written at the segment's position, whatever their position in the
\* response; then the segment may be complete.
Receive(c) ==
    /\ Running
    /\ con[c].st = "receiving"
    /\ c \in DOMAIN segs
    /\ \E n \in 1 .. PieceLength, ok \in DiskOutcome(ps) :
       LET i == segs[c].index
           from == segs[c].written
           pos == con[c].pos + n
           q == IF c \notin BadStream
                   /\ con[c].pos = i * PieceLength + from
                THEN "good" ELSE "bad"
       IN  /\ from + n <= PieceLength
           /\ pos <= con[c].end
           /\ \E s \in writeData(ps, i, from .. from + n - 1, q, ok) :
              LET m == updateWrittenLength(
                         [Man EXCEPT !.ps = updateHash(s, i, from, n, q)],
                         c, n)
              IN
              IF ~pieceComplete(m.ps, i)
              THEN Becomes(m) /\ con' = [con EXCEPT ![c].pos = pos]
              ELSE IF HashKnown /\ ~PieceHashMatches(m.ps, i)
              THEN GiveUp(c, clearSegment(m, c), ok)
              ELSE prepareForNextSegment(c, completeSegment(m, c, ok),
                                         i, pos, ok)
    /\ session' = [session EXCEPT !.empty = FALSE]

StreamNext(c) ==
    \/ AcquireSegment(c)
    \/ RequestSegment(c)
    \/ DropConnection(c)
    \/ CannotResume(c)
    \/ SegmentsCanceled(c)
    \/ Receive(c)

=============================================================================
