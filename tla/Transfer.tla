------------------------------ MODULE Transfer ------------------------------
(***************************************************************************)
(* One download as a whole: stream commands and peers working on the same  *)
(* pieces, the control file that records the progress, and the process     *)
(* being stopped or dying and starting again from the control file.        *)
(***************************************************************************)
EXTENDS SegmentMan, BtInteractive

CONSTANTS
    MaxSaveFailures,  \* bound: saves of the control file that fail
    MaxStarts         \* bound: how often the process is started again

ASSUME TransferAssumption ==
    /\ Stream \cap Peer = {}
    /\ P2P \in BOOLEAN
    /\ Peer # {} => P2P
    /\ MaxSaveFailures \in Nat
    /\ MaxStarts \in Nat

VARIABLES
    up,            \* the process is running
    controlFile,   \* the file on disk, or NoFile
    lastDigest,    \* what the last save was about, or NoFile
    saveFailures,
    starts

vars == <<ps, streamVars, halted, peer, up, controlFile, lastDigest,
          saveFailures, starts>>

NoFile == [have |-> {}, blocks |-> <<>>, exists |-> FALSE]

\* The contents save() writes: the bitfield and the pieces in flight.
Contents(s) ==
    [have |-> s.have, exists |-> TRUE,
     blocks |-> [i \in DOMAIN s.pieces |-> s.pieces[i].blocks]]

Init ==
    /\ ps = InitStorage
    /\ StreamInit
    /\ halted = FALSE
    /\ PeerInit
    /\ up = TRUE
    /\ controlFile = NoFile
    /\ lastDigest = NoFile
    /\ saveFailures = 0
    /\ starts = 0

fileVars == <<up, controlFile, lastDigest, saveFailures, starts>>

StreamStep(c) ==
    up /\ StreamNext(c) /\ UNCHANGED <<peer, fileVars>>

PeerStep(p) ==
    up /\ PeerNext(p) /\ UNCHANGED <<streamVars, fileVars>>

----------------------------------------------------------------------------
(***************************************************************************)
(* DefaultBtProgressInfoFile::save after the cache has been flushed (a     *)
(* failed flush is not noticed here): nothing is written when the contents *)
(* have the digest of the last save.  The write goes to a temporary file   *)
(* that is renamed; either may fail, and lastDigest_ is set all the same.  *)
(***************************************************************************)
Save(s) ==
    IF Contents(s) = lastDigest
    THEN UNCHANGED <<controlFile, saveFailures>>
    ELSE \/ /\ controlFile' = Contents(s)
            /\ UNCHANGED saveFailures
         \/ /\ saveFailures < MaxSaveFailures
            /\ saveFailures' = saveFailures + 1
            /\ UNCHANGED controlFile

\* AutoSaveCommand: RequestGroupMan::save for this download.
AutoSave ==
    /\ up
    /\ IF downloadFinished(ps)
       THEN /\ controlFile' = NoFile
            /\ UNCHANGED <<ps, lastDigest, saveFailures>>
       ELSE \E ok \in DiskOutcome(ps) :
               /\ ps' = flushWrDiskCacheEntry(ps, ok)
               /\ Save(ps')
               /\ lastDigest' = Contents(ps')
    /\ UNCHANGED <<streamVars, halted, peer, up, starts>>

\* What outlives the process: the file, its control file and the counters.
Volatile(disk, failures) ==
    /\ ps' = [InitStorage EXCEPT !.disk = disk, !.failures = failures]
    /\ segs' = <<>>
    /\ memo' = <<>>
    /\ con' = [c \in Stream |-> NoConnection(FALSE)]
    /\ session' = [empty |-> TRUE, alwaysResume |-> FALSE]
    /\ peer' = [p \in Peer |-> NewPeer]
    /\ halted' = FALSE

\* The download is complete, has failed, or is paused or shut down by the
\* user: the commands go, ProcessStoppedRequestGroup closes the file and
\* saves the control file, or removes it when the download is complete.
Stop ==
    /\ up
    /\ \E ok \in DiskOutcome(ps) :
          LET s == flushWrDiskCacheEntry(ps, ok) IN
          /\ Volatile(s.disk, s.failures)
          /\ IF downloadFinished(s)
             THEN controlFile' = NoFile /\ UNCHANGED saveFailures
             ELSE Save(s)
    /\ lastDigest' = NoFile
    /\ up' = FALSE
    /\ UNCHANGED starts

\* The process dies: what is not in a file is gone.
Crash ==
    /\ up
    /\ up' = FALSE
    /\ Volatile(ps.disk, ps.failures)
    /\ lastDigest' = NoFile
    /\ UNCHANGED <<controlFile, saveFailures, starts>>

Recorded(f, i, o) ==
    \/ i \in f.have
    \/ i \in DOMAIN f.blocks /\ \E b \in f.blocks[i] : o \in OffsetsOf(b)

\* loadAndOpenFile: the control file says what the file holds; without one
\* the download goes to a new file, unless there is nothing left to fetch.
\* Data that is not recorded counts as not there: nobody may rely on it.
Loaded ==
    [InitStorage EXCEPT
       !.have = controlFile.have,
       !.pieces = [i \in DOMAIN controlFile.blocks |->
                     [NewPiece EXCEPT !.blocks = controlFile.blocks[i]]],
       !.disk = [i \in Piece |-> [o \in Offset |->
                   IF Recorded(controlFile, i, o) THEN ps.disk[i][o]
                   ELSE "none"]],
       !.failures = ps.failures]

Start ==
    /\ ~up
    /\ starts < MaxStarts
    /\ starts' = starts + 1
    /\ controlFile.exists \/ \E i \in Piece, o \in Offset : ps.disk[i][o] # "good"
    /\ ps' = Loaded
    /\ up' = TRUE
    /\ UNCHANGED <<streamVars, halted, peer, controlFile, lastDigest,
                   saveFailures>>

\* Nobody starts the process again.
Over == ~up /\ UNCHANGED vars

Next ==
    \/ \E c \in Stream : StreamStep(c)
    \/ \E p \in Peer : PeerStep(p)
    \/ AutoSave
    \/ Stop
    \/ Crash
    \/ Start
    \/ Over

Spec == Init /\ [][Next]_vars

----------------------------------------------------------------------------
(***************************************************************************)
(* Properties.                                                             *)
(***************************************************************************)

\* The type invariant of the download.
TypeOK ==
    /\ IsStorage(ps, Stream \cup Peer)
    /\ StreamTypeOK
    /\ PeerTypeOK
    /\ up \in BOOLEAN
    /\ controlFile.have \subseteq Piece
    /\ lastDigest.have \subseteq Piece
    /\ saveFailures \in 0 .. MaxSaveFailures

Holders(i) ==
    {c \in DOMAIN segs : segs[c].index = i}
      \cup {p \in Peer : i \in peer[p].targets}

\* The users and the use bit of a piece are the commands that work on it, so
\* that no piece stays reserved when its commands have given it up
\* (cancelPiece, completePiece); two commands share a piece only in end
\* game, and a stream never shares one.
PieceHolders ==
    up /\ ~halted =>
      /\ ps.use = {i \in Piece : Holders(i) # {}} \ ps.have
      /\ \A i \in Piece \ ps.have :
           /\ i \in DOMAIN ps.pieces => ps.pieces[i].users = Holders(i)
           /\ Holders(i) # {} => i \in DOMAIN ps.pieces
           /\ Cardinality(Holders(i)) > 1 =>
                 ps.endGame /\ Holders(i) \subseteq Peer

\* A piece in flight lacks a block whenever a command may take it: the
\* assertion of PiecedSegment's constructor.
InFlightIncomplete ==
    up /\ ~halted =>
      \A i \in DOMAIN ps.pieces : ps.pieces[i].blocks # Block

\* The bytes of a response go to their own position in the file, through
\* segments completed, taken over from idle owners and written earlier:
\* "writing incoming data at nextSegment->getWrittenLength() corrupts file"
\* (DownloadCommand::prepareForNextSegment).
StreamAligned ==
    up /\ ~halted =>
      \A c \in DOMAIN segs : con[c].st = "receiving" =>
         con[c].pos = segs[c].index * PieceLength + segs[c].written

\* A piece marked done is in the file with the right bytes, whatever late
\* blocks, failed hash checks, failed writes or restarts went before.
DoneIsGood ==
    \A i \in ps.have : \A o \in Offset : ps.disk[i][o] = "good"

\* The blocks of a piece in flight that the control file records are in the
\* file, whatever writes of the cache have failed: "aria2 uses a control file
\* to track the progress of a download" (aria2c.rst).  saveControlFile
\* flushes the cache before the save and does not look at the outcome.
RecordedBlocksAreWritten ==
    \A i \in DOMAIN controlFile.blocks :
       \A b \in controlFile.blocks[i] : \A o \in OffsetsOf(b) :
          ps.disk[i][o] # "none"

\* What the control file records is in the file: the pieces with the right
\* bytes, and, as long as no write of the cache has failed, the blocks of
\* the pieces in flight, so that a crash at any moment loses data that was
\* received but never believes data that was not written.
RecordedIsOnDisk ==
    /\ \A i \in controlFile.have, o \in Offset : ps.disk[i][o] = "good"
    /\ ps.failures = 0 => RecordedBlocksAreWritten

\* The bytes a segment counts as written, those believed from the memo of a
\* cancelled segment included, are in the file or in the cache, unless the
\* cache entry has an error that will end the download.
WrittenIsThere ==
    up /\ ~halted =>
      \A c \in DOMAIN segs :
         LET i == segs[c].index IN
         \/ ps.pieces[i].error
         \/ \A o \in Offset : o < segs[c].written =>
               Overlay(ps.disk[i], ps.pieces[i].cells)[o] # "none"

\* Outside end game a block is asked of one peer, and a block marked in use
\* has been asked of one: a slot that times out, is choked away or rejected
\* releases its block, and only its own.
BlockAskedOnce ==
    up /\ ~halted /\ ~ps.endGame =>
      /\ \A i \in DOMAIN ps.pieces : ps.pieces[i].useBlocks =
            {b \in Block : \E p \in Peer : <<i, b>> \in peer[p].slots}
      /\ \A p, r \in Peer : p # r => peer[p].slots \cap peer[r].slots = {}

=============================================================================
