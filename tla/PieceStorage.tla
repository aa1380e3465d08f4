---------------------------- MODULE PieceStorage ----------------------------
(***************************************************************************)
(* The pieces of one download: DefaultPieceStorage with the Piece objects  *)
(* it hands out, the write cache that keeps received data until a piece is *)
(* flushed, and the file the data goes to.  Stream commands (SegmentMan)   *)
(* and BitTorrent peers (BtInteractive) work on it through the operators   *)
(* below, each of which maps a storage to the storage after the call.      *)
(*                                                                         *)
(* Data is what the properties tell apart: at every offset of a piece the  *)
(* file and the cache hold nothing, the right byte or a wrong one.  All    *)
(* pieces have the same length; a block is BlockLength offsets, so that a  *)
(* stream can stop in the middle of one.                                   *)
(***************************************************************************)
EXTENDS Integers, FiniteSets, TLC

CONSTANTS
    NumPieces,       \* pieces of the download
    BlocksPerPiece,  \* blocks of a piece (Piece::BLOCK_LENGTH)
    BlockLength,     \* offsets of a block
    CacheOn,         \* --disk-cache is not 0
    CacheLimit,      \* offsets the write cache may hold
    HashKnown,       \* piece hashes are known and checked
    MaxDiskFailures  \* bound: writes to the file that fail

VARIABLES
    ps,      \* the piece storage of the download
    halted   \* the download is asked to halt

ASSUME PieceStorageAssumption ==
    /\ NumPieces \in Nat \ {0}
    /\ BlocksPerPiece \in Nat \ {0}
    /\ BlockLength \in Nat \ {0}
    /\ CacheLimit \in Nat
    /\ MaxDiskFailures \in Nat
    /\ CacheOn \in BOOLEAN
    /\ HashKnown \in BOOLEAN

Piece == 0 .. NumPieces - 1
Block == 0 .. BlocksPerPiece - 1
PieceLength == BlocksPerPiece * BlockLength
Offset == 0 .. PieceLength - 1
Byte == {"none", "good", "bad"}

OffsetsOf(b) == b * BlockLength .. (b + 1) * BlockLength - 1
Nothing == [o \in Offset |-> "none"]

(***************************************************************************)
(* A storage: have and use are the two bitfields of bitfieldMan_, pieces   *)
(* is usedPieces_ (its domain are the indexes in the map), disk is the     *)
(* file.  failures counts the writes that failed.                          *)
(***************************************************************************)
PieceRecord(cuids) ==
    [blocks: SUBSET Block, useBlocks: SUBSET Block, users: SUBSET cuids,
     usedBySegment: BOOLEAN, cells: [Offset -> Byte], entry: BOOLEAN,
     error: BOOLEAN, nextBegin: 0 .. PieceLength, hashOk: BOOLEAN]

NewPiece ==
    [blocks |-> {}, useBlocks |-> {}, users |-> {}, usedBySegment |-> FALSE,
     cells |-> Nothing, entry |-> FALSE, error |-> FALSE,
     nextBegin |-> 0, hashOk |-> TRUE]

InitStorage ==
    [have |-> {}, use |-> {}, pieces |-> <<>>, endGame |-> FALSE,
     disk |-> [i \in Piece |-> Nothing], failures |-> 0]

IsStorage(s, cuids) ==
    /\ s.have \subseteq Piece
    /\ s.use \subseteq Piece
    /\ DOMAIN s.pieces \subseteq Piece
    /\ \A i \in DOMAIN s.pieces : s.pieces[i] \in PieceRecord(cuids)
    /\ s.endGame \in BOOLEAN
    /\ s.disk \in [Piece -> [Offset -> Byte]]
    /\ s.failures \in 0 .. MaxDiskFailures

downloadFinished(s) == s.have = Piece

\* getPiece: a piece outside usedPieces_ has all its blocks or none.
hasBlock(s, i, b) ==
    IF i \in DOMAIN s.pieces THEN b \in s.pieces[i].blocks ELSE i \in s.have

pieceComplete(s, i) == \A b \in Block : hasBlock(s, i, b)

MissingBlocks(s, i) == {b \in Block : ~hasBlock(s, i, b)}
countMissingBlock(s, i) == Cardinality(MissingBlocks(s, i))

hasMissingUnusedPiece(s) == Piece \ (s.have \cup s.use) # {}

getNextUsedIndex(s, i) ==
    LET next == {j \in Piece : j > i /\ j \in s.have \cup s.use}
    IN  IF next = {} THEN NumPieces
        ELSE CHOOSE j \in next : \A k \in next : j <= k

----------------------------------------------------------------------------
(***************************************************************************)
(* The write cache.  A flush of a piece writes its cells to the file; when *)
(* a write fails the cells are gone all the same and the entry remembers   *)
(* the error for good.  ok is the outcome of the write.                    *)
(***************************************************************************)
DiskOutcome(s) == IF s.failures < MaxDiskFailures THEN BOOLEAN ELSE {TRUE}

\* All writes of one step fail or none.
OneMore(n) == IF n < MaxDiskFailures THEN n + 1 ELSE n

Cached(p) == {o \in Offset : p.cells[o] # "none"}
Overlay(below, above) ==
    [o \in Offset |-> IF above[o] = "none" THEN below[o] ELSE above[o]]

Flushed(s, I, ok) ==
    LET Writes == {i \in I : s.pieces[i].entry /\ Cached(s.pieces[i]) # {}}
    IN  [s EXCEPT
           !.disk = [i \in Piece |->
                       IF i \in Writes /\ ok
                       THEN Overlay(@[i], s.pieces[i].cells) ELSE @[i]],
           !.pieces = [i \in DOMAIN @ |->
                       IF i \in Writes
                       THEN [s.pieces[i] EXCEPT !.cells = Nothing,
                                                !.error = @ \/ ~ok]
                       ELSE @[i]],
           !.failures = IF Writes # {} /\ ~ok THEN OneMore(@) ELSE @]

flushWrCache(s, i, ok) == Flushed(s, {i}, ok)

\* Fault: the pieces in flight are not flushed before a save.
FlushNothing(s, ok) == s

flushWrDiskCacheEntry(s, ok) == Flushed(s, DOMAIN s.pieces, ok)

CacheTotal(s) ==
    Cardinality({x \in (DOMAIN s.pieces) \X Offset :
                     s.pieces[x[1]].cells[x[2]] # "none"})

\* WrDiskCache::ensureLimit: above the limit the largest entry is written.
\* One flush is enough, because the entry that grew is no larger than it.
\* Which of the largest entries goes first is left open.
ensureLimit(s, ok) ==
    IF CacheTotal(s) <= CacheLimit THEN {s}
    ELSE {flushWrCache(s, i, ok) :
            i \in {j \in DOMAIN s.pieces : \A k \in DOMAIN s.pieces :
                     Cardinality(Cached(s.pieces[k]))
                        <= Cardinality(Cached(s.pieces[j]))}}

\* Data of quality q for the offsets O of piece i: into the cache when the
\* piece has an entry there, else straight to the file (which may fail: the
\* caller's exception is the caller's business).
writeData(s, i, O, q, ok) ==
    LET Over(data) == [o \in Offset |-> IF o \in O THEN q ELSE data[o]] IN
    IF s.pieces[i].entry
    THEN ensureLimit([s EXCEPT !.pieces[i] =
                        [s.pieces[i] EXCEPT !.cells = Over(@)]], ok)
    ELSE {[s EXCEPT !.disk[i] = Over(@)]}

----------------------------------------------------------------------------
(***************************************************************************)
(* Blocks and the digest of a piece.                                       *)
(***************************************************************************)
completeBlocks(s, i, B) ==
    [s EXCEPT !.pieces[i] = [s.pieces[i] EXCEPT !.blocks = @ \cup B,
                                                !.useBlocks = @ \ B]]

\* Use bits are set (getMissingUnusedBlockIndex) and cleared for blocks
\* <<i, b>> of several pieces.  A piece may be gone from usedPieces_; then
\* nobody sees its use bits.
BlocksOf(X, i) == {b \in Block : <<i, b>> \in X}

useBlocks(s, X) ==
    [s EXCEPT !.pieces = [i \in DOMAIN @ |->
        [s.pieces[i] EXCEPT !.useBlocks = @ \cup BlocksOf(X, i)]]]

cancelBlocks(s, X) ==
    [s EXCEPT !.pieces = [i \in DOMAIN @ |->
        [s.pieces[i] EXCEPT !.useBlocks = @ \ BlocksOf(X, i)]]]

clearAllBlock(s, i) ==
    [s EXCEPT !.pieces[i] = [s.pieces[i] EXCEPT !.blocks = {}, !.useBlocks = {},
                                                !.cells = Nothing]]

destroyHashContext(s, i) ==
    [s EXCEPT !.pieces[i] = [s.pieces[i] EXCEPT !.nextBegin = 0, !.hashOk = TRUE]]

setUsedBySegment(s, I, v) ==
    [s EXCEPT !.pieces = [i \in DOMAIN @ |->
        IF i \in I THEN [s.pieces[i] EXCEPT !.usedBySegment = v] ELSE @[i]]]

\* The digest goes on only when the data starts where it stopped.
updateHash(s, i, begin, n, q) ==
    IF HashKnown /\ n > 0 /\ begin = s.pieces[i].nextBegin
                 /\ begin + n <= PieceLength
    THEN [s EXCEPT !.pieces[i] =
             [s.pieces[i] EXCEPT !.nextBegin = @ + n,
                                 !.hashOk = @ /\ q = "good"]]
    ELSE s

isHashCalculated(s, i) == s.pieces[i].nextBegin = PieceLength

\* getDigestWithWrCache: the cached data over the data in the file.
DigestWithCacheOk(s, i) ==
    \A o \in Offset : Overlay(s.disk[i], s.pieces[i].cells)[o] = "good"

----------------------------------------------------------------------------
(***************************************************************************)
(* Pieces handed out, given back and completed.                            *)
(***************************************************************************)
checkOutPieces(s, I, cuid) ==
    [s EXCEPT
       !.use = @ \cup I,
       !.pieces = [i \in DOMAIN @ \cup I |->
          LET p == IF i \in DOMAIN s.pieces THEN s.pieces[i] ELSE NewPiece IN
          IF i \in I THEN [p EXCEPT !.users = @ \cup {cuid},
                                    !.entry = @ \/ CacheOn]
          ELSE p]]

\* A released cache entry takes its cells with it.
deleteUsedPiece(s, i) ==
    [s EXCEPT !.pieces = [j \in DOMAIN @ \ {i} |-> @[j]]]

completePiece(s, i) ==
    LET t == deleteUsedPiece(s, i) IN
    IF downloadFinished(s) THEN t
    ELSE [t EXCEPT !.have = @ \cup {i}, !.use = @ \ {i}]

\* cancelPiece for the pieces in I: each loses the users in cuids.
cancelPieces(s, I, cuids) ==
    LET Free == {i \in I \cap DOMAIN s.pieces : s.pieces[i].users \subseteq cuids}
        Gone == {i \in I : ~s.endGame /\ i \in DOMAIN s.pieces
                                    /\ s.pieces[i].blocks = {}}
    IN  [s EXCEPT
           !.use = @ \ Free,
           !.pieces = [i \in DOMAIN @ \ Gone |->
              IF i \in I THEN [s.pieces[i] EXCEPT !.users = @ \ cuids]
              ELSE @[i]]]

\* markPiecesDone(0): the use bits stay as they are.
markNoPieceDone(s) == [s EXCEPT !.have = {}, !.pieces = <<>>]

=============================================================================
