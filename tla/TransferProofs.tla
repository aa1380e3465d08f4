--------------------------- MODULE TransferProofs ---------------------------
(***************************************************************************)
(* The pieces of a download that streams and peers fetch together, for any *)
(* number of streams, peers, pieces and blocks.                            *)
(***************************************************************************)
EXTENDS Transfer, SetProofs

Cuid == Stream \cup Peer
Rec == PieceRecord(Cuid)
PieceMap == UNION {[D -> Rec] : D \in SUBSET Piece}

Storage ==
    [have : SUBSET Piece, use : SUBSET Piece, pieces : PieceMap, endGame : BOOLEAN,
     disk : [Piece -> [Offset -> Byte]], failures : 0 .. MaxDiskFailures]

\* The outcomes a write can have.
Outcomes == {x \in BOOLEAN : x \/ MaxDiskFailures > 0}

(***************************************************************************)
(* Types.                                                                  *)
(***************************************************************************)

\* A map of pieces is made.
LEMMA MakeMap ==
    ASSUME NEW D \in SUBSET Piece, NEW f \in [D -> Rec]
    PROVE  f \in PieceMap /\ DOMAIN f = D
BY DEF PieceMap

\* A map of pieces is used.
LEMMA UseMap ==
    ASSUME NEW f \in PieceMap
    PROVE  /\ DOMAIN f \in SUBSET Piece /\ f \in [DOMAIN f -> Rec]
           /\ \A i \in DOMAIN f : i \in Piece /\ f[i] \in Rec
<1>1. PICK D \in SUBSET Piece : f \in [D -> Rec]
  BY DEF PieceMap
<1> QED BY <1>1

\* The constants and the numbers made from them.
LEMMA Numbers ==
    /\ NumPieces \in Nat /\ NumPieces > 0
    /\ BlocksPerPiece \in Nat /\ BlocksPerPiece > 0
    /\ BlockLength \in Nat /\ BlockLength > 0
    /\ PieceLength \in Nat /\ PieceLength > 0
    /\ MaxDiskFailures \in Nat
    /\ 0 \in Block /\ 0 \in Piece /\ Block # {} /\ 0 \in 0 .. PieceLength
    /\ CacheOn \in BOOLEAN /\ HashKnown \in BOOLEAN /\ P2P \in BOOLEAN
<1>1. \A a, b \in Nat : a > 0 /\ b > 0 => a * b \in Nat /\ a * b > 0
  OBVIOUS
<1>2. PieceLength \in Nat /\ PieceLength > 0
  BY <1>1, PieceStorageAssumption DEF PieceLength
<1> QED BY <1>2, PieceStorageAssumption, TransferAssumption DEF Block, Piece

\* The fields of a piece.
LEMMA Fields ==
    ASSUME NEW p \in Rec
    PROVE  /\ p.blocks \in SUBSET Block /\ p.useBlocks \in SUBSET Block
           /\ p.users \in SUBSET Cuid /\ p.usedBySegment \in BOOLEAN
           /\ p.cells \in [Offset -> Byte] /\ p.entry \in BOOLEAN
           /\ p.error \in BOOLEAN /\ p.nextBegin \in 0 .. PieceLength
           /\ p.hashOk \in BOOLEAN
BY DEF Rec, PieceRecord

\* A new piece is one.
LEMMA NewPieceIs ==
    /\ NewPiece \in Rec
    /\ NewPiece.blocks = {} /\ NewPiece.useBlocks = {} /\ NewPiece.users = {}
    /\ NewPiece.usedBySegment = FALSE /\ NewPiece.nextBegin = 0
    /\ NewPiece.cells = Nothing /\ NewPiece.error = FALSE /\ NewPiece.hashOk = TRUE
    /\ NewPiece.entry = FALSE
<1>1. Nothing \in [Offset -> Byte]
  BY DEF Nothing, Byte
<1> QED BY <1>1, Numbers DEF NewPiece, Rec, PieceRecord

\* The fields of a storage.
LEMMA StorageFields ==
    ASSUME NEW s \in Storage
    PROVE  /\ s.have \in SUBSET Piece /\ s.use \in SUBSET Piece
           /\ s.pieces \in PieceMap /\ s.endGame \in BOOLEAN
           /\ s.disk \in [Piece -> [Offset -> Byte]]
           /\ s.failures \in 0 .. MaxDiskFailures
           /\ DOMAIN s.pieces \in SUBSET Piece
           /\ s.pieces \in [DOMAIN s.pieces -> Rec]
           /\ \A i \in DOMAIN s.pieces : i \in Piece /\ s.pieces[i] \in Rec
<1>1. /\ s.have \in SUBSET Piece /\ s.use \in SUBSET Piece
      /\ s.pieces \in PieceMap /\ s.endGame \in BOOLEAN
      /\ s.disk \in [Piece -> [Offset -> Byte]]
      /\ s.failures \in 0 .. MaxDiskFailures
  BY DEF Storage
<1> QED BY <1>1, UseMap

\* A storage is of the type the runs check.
LEMMA StorageTyped ==
    ASSUME NEW s \in Storage PROVE IsStorage(s, Cuid)
BY StorageFields DEF IsStorage, Rec

(***************************************************************************)
(* What the operators of the piece storage change.                         *)
(***************************************************************************)

\* The byte of a piece as the cache and the file have it.
Seen(s, i, o) == IF s.pieces[i].cells[o] = "none" THEN s.disk[i][o] ELSE s.pieces[i].cells[o]

SameUse(p, q) ==
    /\ p.blocks = q.blocks /\ p.useBlocks = q.useBlocks /\ p.users = q.users
    /\ p.usedBySegment = q.usedBySegment /\ p.entry = q.entry

SameHash(p, q) == p.nextBegin = q.nextBegin /\ p.hashOk = q.hashOk

\* Only the data and the digests of the pieces differ.
SameBooks(s, t) ==
    /\ t.have = s.have /\ t.use = s.use /\ t.endGame = s.endGame
    /\ DOMAIN t.pieces = DOMAIN s.pieces
    /\ \A i \in DOMAIN s.pieces : SameUse(s.pieces[i], t.pieces[i])

\* The data of the pieces is as it was, or its loss is remembered.
Kept(s, t, i) ==
    /\ SameHash(s.pieces[i], t.pieces[i])
    /\ s.pieces[i].error => t.pieces[i].error
    /\ ~s.pieces[i].entry => t.pieces[i] = s.pieces[i]
    /\ t.pieces[i].error \/ \A o \in Offset : Seen(t, i, o) = Seen(s, i, o)

\* A storage with other pieces.
LEMMA NewPieces ==
    ASSUME NEW s \in Storage, NEW F \in PieceMap, NEW t, t = [s EXCEPT !.pieces = F]
    PROVE  /\ t \in Storage /\ t.pieces = F /\ t.have = s.have /\ t.use = s.use
           /\ t.endGame = s.endGame /\ t.disk = s.disk /\ t.failures = s.failures
BY DEF Storage

\* One more failed write.
LEMMA OneMoreIs ==
    ASSUME NEW n \in 0 .. MaxDiskFailures
    PROVE  OneMore(n) \in 0 .. MaxDiskFailures
BY Numbers DEF OneMore

\* The cells of the cache that hold data.
LEMMA CachedIs ==
    ASSUME NEW p \in Rec
    PROVE  Cached(p) = {} => p.cells = Nothing
<1>1. p.cells \in [Offset -> Byte]
  BY Fields
<1>2. Cached(p) = {} => \A o \in Offset : p.cells[o] = "none"
  BY DEF Cached
<1>3. Nothing = [o \in Offset |-> "none"]
  BY DEF Nothing
<1> QED BY <1>1, <1>2, <1>3

\* No error of a piece is new unless a failure has been counted.
Counted(s, t) ==
    t.failures = 0 => \A i \in DOMAIN s.pieces : t.pieces[i].error = s.pieces[i].error

\* The pieces in I have been flushed.
FlushOf(s, t, I) ==
    /\ t \in Storage /\ SameBooks(s, t)
    /\ \A i \in DOMAIN s.pieces : Kept(s, t, i)
    /\ \A i \in DOMAIN s.pieces :
         /\ i \notin I => t.pieces[i] = s.pieces[i]
         /\ i \in I /\ s.pieces[i].entry => t.pieces[i].cells = Nothing
    /\ \A i \in Piece \ I : t.disk[i] = s.disk[i]
    /\ \A i \in Piece : \A o \in Offset : s.disk[i][o] # "none" => t.disk[i][o] # "none"

\* A flush changes the data and the errors of the pieces it writes.
LEMMA FlushedIs ==
    ASSUME NEW s \in Storage, NEW I \in SUBSET (DOMAIN s.pieces), NEW ok \in BOOLEAN,
           NEW t, t = Flushed(s, I, ok)
    PROVE  FlushOf(s, t, I) /\ (ok \/ MaxDiskFailures > 0 => Counted(s, t))
<1> DEFINE W == {i \in I : s.pieces[i].entry /\ Cached(s.pieces[i]) # {}}
           d == [i \in Piece |-> IF i \in W /\ ok THEN Overlay(s.disk[i], s.pieces[i].cells)
                                 ELSE s.disk[i]]
           G(i) == [s.pieces[i] EXCEPT !.cells = Nothing, !.error = @ \/ ~ok]
           F == [i \in DOMAIN s.pieces |-> IF i \in W THEN G(i) ELSE s.pieces[i]]
           n == IF W # {} /\ ~ok THEN OneMore(s.failures) ELSE s.failures
<1>1. /\ s.have \in SUBSET Piece /\ s.use \in SUBSET Piece
      /\ s.pieces \in PieceMap /\ s.endGame \in BOOLEAN
      /\ s.disk \in [Piece -> [Offset -> Byte]]
      /\ s.failures \in 0 .. MaxDiskFailures
      /\ DOMAIN s.pieces \in SUBSET Piece
      /\ \A i \in DOMAIN s.pieces : i \in Piece /\ s.pieces[i] \in Rec
  BY StorageFields
<1>2. t = [s EXCEPT !.disk = d, !.pieces = F, !.failures = n]
  BY DEF Flushed
<1>3. ASSUME NEW i \in DOMAIN s.pieces
      PROVE  /\ G(i) \in Rec /\ SameUse(s.pieces[i], G(i)) /\ SameHash(s.pieces[i], G(i))
             /\ G(i).cells = Nothing /\ G(i).error = (s.pieces[i].error \/ ~ok)
  <2>1. Nothing \in [Offset -> Byte]
    BY DEF Nothing, Byte
  <2>2. s.pieces[i] \in Rec
    BY <1>1
  <2> QED BY <2>1, <2>2 DEF Rec, PieceRecord, SameUse, SameHash
<1>4. d \in [Piece -> [Offset -> Byte]]
  <2>1. ASSUME NEW i \in DOMAIN s.pieces PROVE Overlay(s.disk[i], s.pieces[i].cells) \in [Offset -> Byte]
    <3>1. s.pieces[i].cells \in [Offset -> Byte] /\ s.disk[i] \in [Offset -> Byte]
      BY <1>1, Fields
    <3> QED BY <3>1 DEF Overlay
  <2> QED BY <1>1, <2>1
<1>5. F \in PieceMap /\ DOMAIN F = DOMAIN s.pieces
  <2> HIDE DEF G, W
  <2>1. F \in [DOMAIN s.pieces -> Rec]
    BY <1>1, <1>3
  <2> QED BY <1>1, <2>1, MakeMap
<1>6. n \in 0 .. MaxDiskFailures
  BY <1>1, OneMoreIs
<1>7. /\ \A i \in DOMAIN s.pieces : F[i] = IF i \in W THEN G(i) ELSE s.pieces[i]
      /\ \A i \in Piece : d[i] = IF i \in W /\ ok THEN Overlay(s.disk[i], s.pieces[i].cells)
                                 ELSE s.disk[i]
  OBVIOUS
<1> HIDE DEF F, d, n, G
<1>8. /\ t \in Storage /\ t.have = s.have /\ t.use = s.use /\ t.endGame = s.endGame
      /\ t.pieces = F /\ t.disk = d /\ t.failures = n
  BY <1>1, <1>2, <1>4, <1>5, <1>6 DEF Storage
<1>9. SameBooks(s, t)
  BY <1>3, <1>5, <1>7, <1>8 DEF SameBooks, SameUse
<1>10. ASSUME NEW i \in DOMAIN s.pieces
       PROVE  /\ SameHash(s.pieces[i], t.pieces[i])
              /\ s.pieces[i].error => t.pieces[i].error
              /\ i \notin I => t.pieces[i] = s.pieces[i]
              /\ i \in I /\ s.pieces[i].entry => t.pieces[i].cells = Nothing
              /\ ~s.pieces[i].entry => t.pieces[i] = s.pieces[i]
  BY ZenonT(60), <1>1, <1>3, <1>7, <1>8, CachedIs DEF SameHash
<1>11. ASSUME NEW i \in DOMAIN s.pieces, ~t.pieces[i].error, NEW o \in Offset
       PROVE  Seen(t, i, o) = Seen(s, i, o)
  <2>0. i \in Piece /\ s.pieces[i] \in Rec
    BY <1>1
  <2>1. CASE i \in W
    <3>1. ok /\ t.pieces[i] = G(i) /\ G(i).cells = Nothing
      BY <1>3, <1>7, <1>8, <1>11, <2>1
    <3>2. t.disk[i] = Overlay(s.disk[i], s.pieces[i].cells)
      BY <1>7, <1>8, <2>0, <2>1, <3>1
    <3>3. Nothing[o] = "none"
      BY DEF Nothing
    <3> QED BY <3>1, <3>2, <3>3 DEF Seen, Overlay
  <2>2. CASE i \notin W
    BY <1>7, <1>8, <2>0, <2>2 DEF Seen
  <2> QED BY <2>1, <2>2
<1>12. \A i \in Piece \ I : t.disk[i] = s.disk[i]
  BY <1>7, <1>8
<1>13. ASSUME NEW i \in Piece, NEW o \in Offset, s.disk[i][o] # "none" PROVE t.disk[i][o] # "none"
  <2>1. Overlay(s.disk[i], s.pieces[i].cells)[o] # "none"
    BY <1>13 DEF Overlay
  <2> QED BY <1>7, <1>8, <1>13, <2>1
<1>14. ASSUME t.failures = 0, ok \/ MaxDiskFailures > 0, NEW i \in DOMAIN s.pieces
       PROVE  t.pieces[i].error = s.pieces[i].error
  <2>1. CASE i \in W
    <3>1. ok
      <4>1. SUFFICES ASSUME ~ok PROVE FALSE
        OBVIOUS
      <4>2. n = OneMore(s.failures)
        BY <2>1, <4>1 DEF n
      <4>4. MaxDiskFailures > 0
        BY <1>14, <4>1
      <4>3. OneMore(s.failures) # 0
        BY <1>1, <4>4, Numbers DEF OneMore
      <4> QED BY <1>8, <1>14, <4>2, <4>3
    <3>2. s.pieces[i].error \in BOOLEAN
      BY <1>1, Fields
    <3>3. t.pieces[i].error = (s.pieces[i].error \/ ~ok)
      BY <1>3, <1>7, <1>8, <2>1
    <3> QED BY <3>1, <3>2, <3>3
  <2>2. CASE i \notin W
    BY <1>7, <1>8, <2>2
  <2> QED BY <2>1, <2>2
<1>15. \A i \in DOMAIN s.pieces : Kept(s, t, i)
  BY <1>10, <1>11 DEF Kept
<1>16. ok \/ MaxDiskFailures > 0 => Counted(s, t)
  BY <1>14 DEF Counted
<1>17. FlushOf(s, t, I)
  BY <1>8, <1>9, <1>10, <1>12, <1>13, <1>15 DEF FlushOf
<1> QED BY <1>16, <1>17

\* One piece of a storage is changed.
LEMMA OnePiece ==
    ASSUME NEW s \in Storage, NEW i \in DOMAIN s.pieces, NEW q \in Rec,
           NEW t, t = [s EXCEPT !.pieces[i] = q]
    PROVE  /\ t \in Storage /\ t.have = s.have /\ t.use = s.use /\ t.endGame = s.endGame
           /\ t.disk = s.disk /\ t.failures = s.failures
           /\ DOMAIN t.pieces = DOMAIN s.pieces /\ t.pieces[i] = q
           /\ \A j \in DOMAIN s.pieces : j # i => t.pieces[j] = s.pieces[j]
<1> DEFINE F == [s.pieces EXCEPT ![i] = q]
<1>1. t = [s EXCEPT !.pieces = F]
  OBVIOUS
<1>2. /\ s.pieces \in [DOMAIN s.pieces -> Rec] /\ DOMAIN s.pieces \in SUBSET Piece
  BY StorageFields
<1>3. /\ F \in [DOMAIN s.pieces -> Rec] /\ F[i] = q
      /\ \A j \in DOMAIN s.pieces : j # i => F[j] = s.pieces[j]
  BY <1>2
<1>4. F \in PieceMap /\ DOMAIN F = DOMAIN s.pieces
  BY <1>2, <1>3, MakeMap
<1> HIDE DEF F
<1> QED BY <1>1, <1>3, <1>4, NewPieces

\* Blocks B of piece i have been completed.
BlocksDone(s, t, i, B) ==
    /\ t \in Storage /\ t.have = s.have /\ t.use = s.use /\ t.endGame = s.endGame
    /\ t.disk = s.disk /\ t.failures = s.failures
    /\ DOMAIN t.pieces = DOMAIN s.pieces
    /\ t.pieces[i].blocks = s.pieces[i].blocks \cup B
    /\ t.pieces[i].useBlocks = s.pieces[i].useBlocks \ B
    /\ t.pieces[i].users = s.pieces[i].users
    /\ t.pieces[i].usedBySegment = s.pieces[i].usedBySegment
    /\ t.pieces[i].cells = s.pieces[i].cells
    /\ t.pieces[i].entry = s.pieces[i].entry
    /\ t.pieces[i].error = s.pieces[i].error
    /\ SameHash(s.pieces[i], t.pieces[i])
    /\ \A j \in DOMAIN s.pieces : j # i => t.pieces[j] = s.pieces[j]

\* Blocks are completed.
LEMMA CompleteBlocksIs ==
    ASSUME NEW s \in Storage, NEW i \in DOMAIN s.pieces, NEW B \in SUBSET Block,
           NEW t, t = completeBlocks(s, i, B)
    PROVE  BlocksDone(s, t, i, B)
<1> DEFINE p == s.pieces[i]
           q == [p EXCEPT !.blocks = @ \cup B, !.useBlocks = @ \ B]
<1>1. p \in Rec
  BY StorageFields
<1>2. /\ q \in Rec /\ q.blocks = p.blocks \cup B /\ q.useBlocks = p.useBlocks \ B
      /\ q.users = p.users /\ q.usedBySegment = p.usedBySegment /\ q.cells = p.cells
      /\ q.entry = p.entry /\ q.error = p.error /\ SameHash(p, q)
  <2> HIDE DEF p
  <2> QED BY <1>1 DEF Rec, PieceRecord, SameHash
<1>3. t = [s EXCEPT !.pieces[i] = q]
  BY DEF completeBlocks
<1> HIDE DEF q
<1> QED BY <1>2, <1>3, OnePiece DEF BlocksDone

\* Piece i has been emptied.
Emptied(s, t, i) ==
    /\ t \in Storage /\ t.have = s.have /\ t.use = s.use /\ t.endGame = s.endGame
    /\ t.disk = s.disk /\ t.failures = s.failures
    /\ DOMAIN t.pieces = DOMAIN s.pieces
    /\ t.pieces[i].blocks = {} /\ t.pieces[i].useBlocks = {}
    /\ t.pieces[i].users = s.pieces[i].users
    /\ t.pieces[i].usedBySegment = s.pieces[i].usedBySegment
    /\ t.pieces[i].cells = Nothing
    /\ t.pieces[i].entry = s.pieces[i].entry
    /\ t.pieces[i].error = s.pieces[i].error
    /\ \A j \in DOMAIN s.pieces : j # i => t.pieces[j] = s.pieces[j]

\* A piece is emptied.
LEMMA ClearAllBlockIs ==
    ASSUME NEW s \in Storage, NEW i \in DOMAIN s.pieces,
           NEW t, t = clearAllBlock(s, i)
    PROVE  Emptied(s, t, i)
<1> DEFINE p == s.pieces[i]
           q == [p EXCEPT !.blocks = {}, !.useBlocks = {}, !.cells = Nothing]
<1>1. p \in Rec
  BY StorageFields
<1>2. /\ q \in Rec /\ q.blocks = {} /\ q.useBlocks = {}
      /\ q.users = p.users /\ q.usedBySegment = p.usedBySegment /\ q.cells = Nothing
      /\ q.entry = p.entry /\ q.error = p.error
  <2>1. Nothing \in [Offset -> Byte]
    BY DEF Nothing, Byte
  <2> HIDE DEF p
  <2> QED BY <1>1, <2>1 DEF Rec, PieceRecord
<1>3. t = [s EXCEPT !.pieces[i] = q]
  BY DEF clearAllBlock
<1> HIDE DEF q
<1> QED BY <1>2, <1>3, OnePiece DEF Emptied

\* The digest of piece i has been thrown away.
HashGone(s, t, i) ==
    /\ t \in Storage /\ SameBooks(s, t)
    /\ t.disk = s.disk /\ t.failures = s.failures
    /\ t.pieces[i].nextBegin = 0
    /\ t.pieces[i].cells = s.pieces[i].cells
    /\ t.pieces[i].error = s.pieces[i].error
    /\ \A j \in DOMAIN s.pieces : j # i => t.pieces[j] = s.pieces[j]

\* The digest of a piece is thrown away.
LEMMA DestroyHashIs ==
    ASSUME NEW s \in Storage, NEW i \in DOMAIN s.pieces,
           NEW t, t = destroyHashContext(s, i)
    PROVE  HashGone(s, t, i)
<1> DEFINE p == s.pieces[i]
           q == [p EXCEPT !.nextBegin = 0, !.hashOk = TRUE]
<1>1. p \in Rec
  BY StorageFields
<1>2. /\ q \in Rec /\ SameUse(p, q) /\ q.cells = p.cells /\ q.error = p.error
      /\ q.nextBegin = 0
  <2> HIDE DEF p
  <2> QED BY <1>1, Numbers DEF Rec, PieceRecord, SameUse
<1>3. t = [s EXCEPT !.pieces[i] = q]
  BY DEF destroyHashContext
<1> HIDE DEF q
<1>4. /\ t \in Storage /\ t.have = s.have /\ t.use = s.use /\ t.endGame = s.endGame
      /\ t.disk = s.disk /\ t.failures = s.failures
      /\ DOMAIN t.pieces = DOMAIN s.pieces /\ t.pieces[i] = q
      /\ \A j \in DOMAIN s.pieces : j # i => t.pieces[j] = s.pieces[j]
  BY <1>2, <1>3, OnePiece
<1>5. SameBooks(s, t)
  BY <1>2, <1>4 DEF SameBooks, SameUse
<1> QED BY <1>2, <1>4, <1>5 DEF HashGone

\* The digest of piece i has gone on, or could not.
HashGoes(s, t, i, b, n, g) ==
    /\ t \in Storage /\ SameBooks(s, t)
    /\ t.disk = s.disk /\ t.failures = s.failures
    /\ t.pieces[i].cells = s.pieces[i].cells
    /\ t.pieces[i].error = s.pieces[i].error
    /\ \A j \in DOMAIN s.pieces : j # i => t.pieces[j] = s.pieces[j]
    /\ \/ SameHash(s.pieces[i], t.pieces[i]) /\ (HashKnown /\ n > 0 =>
             b # s.pieces[i].nextBegin \/ b + n > PieceLength)
       \/ /\ b = s.pieces[i].nextBegin
          /\ t.pieces[i].nextBegin = b + n
          /\ t.pieces[i].hashOk => s.pieces[i].hashOk /\ g = "good"

\* The digest of a piece goes on, or stays.
LEMMA UpdateHashIs ==
    ASSUME NEW s \in Storage, NEW i \in DOMAIN s.pieces, NEW b \in Nat, NEW n \in Nat,
           NEW g, NEW t, t = updateHash(s, i, b, n, g)
    PROVE  HashGoes(s, t, i, b, n, g)
<1> DEFINE p == s.pieces[i]
           q == [p EXCEPT !.nextBegin = @ + n, !.hashOk = @ /\ g = "good"]
           goes == HashKnown /\ n > 0 /\ b = p.nextBegin /\ b + n <= PieceLength
<1>1. p \in Rec /\ p.nextBegin \in 0 .. PieceLength
  BY StorageFields, Fields
<1>2. CASE goes
  <2>1. p.nextBegin + n \in 0 .. PieceLength /\ (p.hashOk /\ g = "good") \in BOOLEAN
    BY <1>1, <1>2, Numbers
  <2>2. /\ q \in Rec /\ SameUse(p, q) /\ q.cells = p.cells /\ q.error = p.error
        /\ q.nextBegin = p.nextBegin + n /\ q.hashOk = (p.hashOk /\ g = "good")
    <3> HIDE DEF p, goes
    <3> QED BY <1>1, <2>1 DEF Rec, PieceRecord, SameUse
  <2>3. t = [s EXCEPT !.pieces[i] = q]
    BY <1>2 DEF updateHash
  <2> HIDE DEF q
  <2>4. /\ t \in Storage /\ t.have = s.have /\ t.use = s.use /\ t.endGame = s.endGame
        /\ t.disk = s.disk /\ t.failures = s.failures
        /\ DOMAIN t.pieces = DOMAIN s.pieces /\ t.pieces[i] = q
        /\ \A j \in DOMAIN s.pieces : j # i => t.pieces[j] = s.pieces[j]
    BY <2>2, <2>3, OnePiece
  <2>5. SameBooks(s, t)
    BY <2>2, <2>4 DEF SameBooks, SameUse
  <2> QED BY <1>2, <2>2, <2>4, <2>5 DEF HashGoes
<1>3. CASE ~goes
  <2>1. t = s
    BY <1>3 DEF updateHash
  <2>2. SameBooks(s, t) /\ SameHash(s.pieces[i], t.pieces[i])
    BY <2>1 DEF SameBooks, SameUse, SameHash
  <2>3. HashKnown /\ n > 0 => b # p.nextBegin \/ b + n > PieceLength
    BY <1>1, <1>3, Numbers
  <2> QED BY <2>1, <2>2, <2>3 DEF HashGoes
<1> QED BY <1>2, <1>3

\* The cache is kept within its limit.
LEMMA EnsureLimitIs ==
    ASSUME NEW s \in Storage, NEW ok \in BOOLEAN, NEW t \in ensureLimit(s, ok)
    PROVE  /\ t \in Storage /\ SameBooks(s, t)
           /\ \A i \in DOMAIN s.pieces : Kept(s, t, i)
           /\ \A i \in Piece \ DOMAIN s.pieces : t.disk[i] = s.disk[i]
           /\ \A i \in Piece : \A o \in Offset : s.disk[i][o] # "none" => t.disk[i][o] # "none"
           /\ ok \/ MaxDiskFailures > 0 => Counted(s, t)
<1>1. CASE t = s
  BY <1>1 DEF SameBooks, SameUse, SameHash, Kept, Counted
<1>2. ASSUME NEW j \in DOMAIN s.pieces, t = flushWrCache(s, j, ok)
      PROVE  /\ t \in Storage /\ SameBooks(s, t)
             /\ \A i \in DOMAIN s.pieces : Kept(s, t, i)
             /\ \A i \in Piece \ DOMAIN s.pieces : t.disk[i] = s.disk[i]
             /\ \A i \in Piece : \A o \in Offset : s.disk[i][o] # "none" => t.disk[i][o] # "none"
             /\ ok \/ MaxDiskFailures > 0 => Counted(s, t)
  <2>1. {j} \in SUBSET (DOMAIN s.pieces) /\ t = Flushed(s, {j}, ok)
    BY <1>2 DEF flushWrCache
  <2>2. FlushOf(s, t, {j}) /\ (ok \/ MaxDiskFailures > 0 => Counted(s, t))
    BY <2>1, FlushedIs
  <2> QED BY <2>2 DEF FlushOf
<1>3. t = s \/ \E j \in DOMAIN s.pieces : t = flushWrCache(s, j, ok)
  BY DEF ensureLimit
<1> QED BY <1>1, <1>2, <1>3

\* Data of quality q has been written to the offsets O of piece i.
Wrote(s, t, i, O, q) ==
    /\ t \in Storage /\ SameBooks(s, t)
    /\ \A j \in DOMAIN s.pieces : j # i => Kept(s, t, j)
    /\ SameHash(s.pieces[i], t.pieces[i])
    /\ s.pieces[i].error => t.pieces[i].error
    /\ ~s.pieces[i].entry => t.pieces[i] = s.pieces[i]
    /\ s.pieces[i].entry \/ s.pieces[i].cells = Nothing =>
          t.pieces[i].error \/ \A o \in Offset :
              Seen(t, i, o) = IF o \in O THEN q ELSE Seen(s, i, o)
    /\ \A j \in Piece \ DOMAIN s.pieces : t.disk[j] = s.disk[j]
    /\ \A j \in Piece : \A o \in Offset : s.disk[j][o] # "none" => t.disk[j][o] # "none"

\* Data is written.
LEMMA WriteDataIs ==
    ASSUME NEW s \in Storage, NEW i \in DOMAIN s.pieces, NEW O \in SUBSET Offset,
           NEW q \in {"good", "bad"}, NEW ok \in BOOLEAN,
           NEW t \in writeData(s, i, O, q, ok)
    PROVE  Wrote(s, t, i, O, q) /\ (ok \/ MaxDiskFailures > 0 => Counted(s, t))
<1> DEFINE Laid(data) == [o \in Offset |-> IF o \in O THEN q ELSE data[o]]
           p == s.pieces[i]
           w == [p EXCEPT !.cells = Laid(@)]
           m == [s EXCEPT !.pieces[i] = w]
           e == [s EXCEPT !.disk[i] = Laid(@)]
<1>1. /\ p \in Rec /\ p.cells \in [Offset -> Byte] /\ i \in Piece
      /\ s.disk \in [Piece -> [Offset -> Byte]] /\ s.disk[i] \in [Offset -> Byte]
      /\ p.entry \in BOOLEAN /\ p.error \in BOOLEAN
  BY StorageFields, Fields
<1>2. ASSUME NEW data \in [Offset -> Byte]
      PROVE  /\ Laid(data) \in [Offset -> Byte]
             /\ \A o \in Offset : Laid(data)[o] = IF o \in O THEN q ELSE data[o]
  BY DEF Byte
<1>3. CASE p.entry
  <2>1. t \in ensureLimit(m, ok)
    BY <1>3 DEF writeData
  <2>2. /\ w \in Rec /\ SameUse(p, w) /\ SameHash(p, w) /\ w.cells = Laid(p.cells)
        /\ w.error = p.error
    <3>1. Laid(p.cells) \in [Offset -> Byte]
      BY <1>1, <1>2
    <3> HIDE DEF p, Laid
    <3> QED BY <1>1, <3>1 DEF Rec, PieceRecord, SameUse, SameHash
  <2> HIDE DEF w
  <2>3. /\ m \in Storage /\ m.have = s.have /\ m.use = s.use /\ m.endGame = s.endGame
        /\ m.disk = s.disk /\ m.failures = s.failures
        /\ DOMAIN m.pieces = DOMAIN s.pieces /\ m.pieces[i] = w
        /\ \A j \in DOMAIN s.pieces : j # i => m.pieces[j] = s.pieces[j]
    BY <2>2, OnePiece
  <2> HIDE DEF m
  <2>4. SameBooks(s, m)
    BY <2>2, <2>3 DEF SameBooks, SameUse
  <2>5. /\ t \in Storage /\ SameBooks(m, t)
        /\ \A j \in DOMAIN m.pieces : Kept(m, t, j)
        /\ \A j \in Piece \ DOMAIN m.pieces : t.disk[j] = m.disk[j]
        /\ \A j \in Piece : \A o \in Offset : m.disk[j][o] # "none" => t.disk[j][o] # "none"
        /\ ok \/ MaxDiskFailures > 0 => Counted(m, t)
    BY <2>1, <2>3, EnsureLimitIs
  <2>6. SameBooks(s, t)
    BY <2>4, <2>5 DEF SameBooks, SameUse
  <2>7. ASSUME NEW j \in DOMAIN s.pieces, j # i PROVE Kept(s, t, j)
    <3>1. Kept(m, t, j) /\ m.pieces[j] = s.pieces[j] /\ m.disk = s.disk
      BY <2>3, <2>5, <2>7
    <3> QED BY <3>1 DEF Kept, Seen
  <2>8. ASSUME NEW o \in Offset
        PROVE  Seen(m, i, o) = IF o \in O THEN q ELSE Seen(s, i, o)
    <3>1. m.pieces[i].cells[o] = IF o \in O THEN q ELSE p.cells[o]
      BY <1>1, <1>2, <2>2, <2>3
    <3> QED BY <3>1, <2>3 DEF Seen
  <2>9. Kept(m, t, i)
    BY <2>3, <2>5
  <2>10. /\ SameHash(s.pieces[i], t.pieces[i]) /\ p.error => t.pieces[i].error
         /\ t.pieces[i].error \/ \A o \in Offset :
                 Seen(t, i, o) = IF o \in O THEN q ELSE Seen(s, i, o)
    BY <2>2, <2>3, <2>8, <2>9 DEF Kept, SameHash
  <2>11. \A j \in DOMAIN s.pieces : m.pieces[j].error = s.pieces[j].error
    BY <2>2, <2>3
  <2>12. ok \/ MaxDiskFailures > 0 => Counted(s, t)
    BY <2>3, <2>5, <2>11 DEF Counted
  <2>13. SameHash(s.pieces[i], t.pieces[i]) /\ (s.pieces[i].error => t.pieces[i].error)
    BY <2>2, <2>3, <2>9 DEF Kept, SameHash
  <2> QED BY <1>3, <2>3, <2>5, <2>6, <2>7, <2>10, <2>12, <2>13 DEF Wrote
<1>4. CASE ~p.entry
  <2>1. t = e
    BY <1>4 DEF writeData
  <2>2. /\ t \in Storage /\ t.have = s.have /\ t.use = s.use /\ t.endGame = s.endGame
        /\ t.pieces = s.pieces /\ t.failures = s.failures
        /\ t.disk = [s.disk EXCEPT ![i] = Laid(s.disk[i])]
    <3>1. [s.disk EXCEPT ![i] = Laid(s.disk[i])] \in [Piece -> [Offset -> Byte]]
      BY <1>1, <1>2
    <3> DEFINE dd == [s.disk EXCEPT ![i] = Laid(s.disk[i])]
    <3>2. t = [s EXCEPT !.disk = dd]
      BY <2>1
    <3> HIDE DEF dd
    <3> QED BY <3>1, <3>2 DEF Storage, dd
  <2>3. SameBooks(s, t) /\ \A j \in DOMAIN s.pieces : SameHash(s.pieces[j], t.pieces[j])
    BY <2>2 DEF SameBooks, SameUse, SameHash
  <2>4. t.disk[i] = Laid(s.disk[i]) /\ \A j \in Piece : j # i => t.disk[j] = s.disk[j]
    BY <1>1, <2>2
  <2>5. ASSUME p.cells = Nothing, NEW o \in Offset
        PROVE  Seen(t, i, o) = IF o \in O THEN q ELSE Seen(s, i, o)
    <3>1. Nothing[o] = "none"
      BY DEF Nothing
    <3> QED BY <1>1, <1>2, <2>1, <2>2, <2>4, <2>5, <3>1 DEF Seen
  <2>6. ASSUME NEW j \in DOMAIN s.pieces, j # i PROVE Kept(s, t, j)
    <3>1. j \in Piece
      BY StorageFields
    <3> QED BY <2>2, <2>3, <2>4, <2>6, <3>1 DEF Kept, Seen
  <2>7. ASSUME NEW j \in Piece, NEW o \in Offset, s.disk[j][o] # "none" PROVE t.disk[j][o] # "none"
    BY <1>1, <1>2, <2>4, <2>7
  <2>8. \A j \in Piece \ DOMAIN s.pieces : t.disk[j] = s.disk[j]
    BY <2>4
  <2>9. Counted(s, t)
    BY <2>2 DEF Counted
  <2> QED BY <1>4, <2>2, <2>3, <2>5, <2>6, <2>7, <2>8, <2>9 DEF Wrote
<1> QED BY <1>1, <1>3, <1>4

SameData(p, q) ==
    p.cells = q.cells /\ p.error = q.error /\ p.entry = q.entry /\ SameHash(p, q)

\* The pieces in I are marked as used by a segment, or not.
Marked(s, t, I) ==
    /\ t \in Storage /\ t.have = s.have /\ t.use = s.use /\ t.endGame = s.endGame
    /\ t.disk = s.disk /\ t.failures = s.failures
    /\ DOMAIN t.pieces = DOMAIN s.pieces
    /\ \A i \in DOMAIN s.pieces :
         /\ t.pieces[i].blocks = s.pieces[i].blocks
         /\ t.pieces[i].useBlocks = s.pieces[i].useBlocks
         /\ t.pieces[i].users = s.pieces[i].users
         /\ SameData(s.pieces[i], t.pieces[i])
         /\ i \notin I => t.pieces[i].usedBySegment = s.pieces[i].usedBySegment

\* Segments take pieces or give them back.
LEMMA SetUsedBySegmentIs ==
    ASSUME NEW s \in Storage, NEW I, NEW v \in BOOLEAN, NEW t, t = setUsedBySegment(s, I, v)
    PROVE  Marked(s, t, I) /\ (v => \A i \in I \cap DOMAIN s.pieces : t.pieces[i].usedBySegment)
<1> DEFINE G(i) == [s.pieces[i] EXCEPT !.usedBySegment = v]
           F == [i \in DOMAIN s.pieces |-> IF i \in I THEN G(i) ELSE s.pieces[i]]
<1>1. /\ DOMAIN s.pieces \in SUBSET Piece
      /\ \A i \in DOMAIN s.pieces : i \in Piece /\ s.pieces[i] \in Rec
  BY StorageFields
<1>2. ASSUME NEW i \in DOMAIN s.pieces
      PROVE  /\ G(i) \in Rec
             /\ G(i).blocks = s.pieces[i].blocks /\ G(i).useBlocks = s.pieces[i].useBlocks
             /\ G(i).users = s.pieces[i].users /\ SameData(s.pieces[i], G(i))
             /\ G(i).usedBySegment = v
  <2>1. s.pieces[i] \in Rec
    BY <1>1
  <2> QED BY <2>1 DEF Rec, PieceRecord, SameData, SameHash
<1>3. t = [s EXCEPT !.pieces = F]
  BY DEF setUsedBySegment
<1>4. \A i \in DOMAIN s.pieces : F[i] = IF i \in I THEN G(i) ELSE s.pieces[i]
  OBVIOUS
<1>5. F \in [DOMAIN s.pieces -> Rec]
  <2> HIDE DEF G
  <2> QED BY <1>1, <1>2
<1> HIDE DEF F, G
<1>6. F \in PieceMap /\ DOMAIN F = DOMAIN s.pieces
  BY <1>1, <1>5, MakeMap
<1>7. /\ t \in Storage /\ t.have = s.have /\ t.use = s.use /\ t.endGame = s.endGame
      /\ t.disk = s.disk /\ t.failures = s.failures /\ t.pieces = F
  BY <1>3, <1>6, NewPieces
<1>8. \A i \in DOMAIN s.pieces : SameData(s.pieces[i], s.pieces[i])
  BY DEF SameData, SameHash
<1>9. Marked(s, t, I)
  BY <1>2, <1>4, <1>6, <1>7, <1>8 DEF Marked
<1>10. v => \A i \in I \cap DOMAIN s.pieces : t.pieces[i].usedBySegment
  BY <1>2, <1>4, <1>7
<1> QED BY <1>9, <1>10

\* The use bits of blocks are set.
LEMMA UseBlocksIs ==
    ASSUME NEW s \in Storage, NEW X, NEW t, t = useBlocks(s, X)
    PROVE  /\ t \in Storage /\ t.have = s.have /\ t.use = s.use /\ t.endGame = s.endGame
           /\ t.disk = s.disk /\ t.failures = s.failures
           /\ DOMAIN t.pieces = DOMAIN s.pieces
           /\ \A i \in DOMAIN s.pieces :
                /\ t.pieces[i].blocks = s.pieces[i].blocks
                /\ t.pieces[i].useBlocks = s.pieces[i].useBlocks \cup BlocksOf(X, i)
                /\ t.pieces[i].users = s.pieces[i].users
                /\ SameData(s.pieces[i], t.pieces[i])
                /\ t.pieces[i].usedBySegment = s.pieces[i].usedBySegment
<1> DEFINE G(i) == [s.pieces[i] EXCEPT !.useBlocks = @ \cup BlocksOf(X, i)]
           F == [i \in DOMAIN s.pieces |-> G(i)]
<1>1. /\ DOMAIN s.pieces \in SUBSET Piece
      /\ \A i \in DOMAIN s.pieces : i \in Piece /\ s.pieces[i] \in Rec
  BY StorageFields
<1>2. ASSUME NEW i \in DOMAIN s.pieces
      PROVE  /\ G(i) \in Rec
             /\ G(i).blocks = s.pieces[i].blocks
             /\ G(i).useBlocks = s.pieces[i].useBlocks \cup BlocksOf(X, i)
             /\ G(i).users = s.pieces[i].users /\ SameData(s.pieces[i], G(i))
             /\ G(i).usedBySegment = s.pieces[i].usedBySegment
  <2>1. s.pieces[i] \in Rec
    BY <1>1
  <2>2. BlocksOf(X, i) \in SUBSET Block
    BY DEF BlocksOf
  <2> QED BY <2>1, <2>2 DEF Rec, PieceRecord, SameData, SameHash
<1>3. t = [s EXCEPT !.pieces = F]
  BY DEF useBlocks
<1>4. \A i \in DOMAIN s.pieces : F[i] = G(i)
  OBVIOUS
<1>5. F \in [DOMAIN s.pieces -> Rec]
  <2> HIDE DEF G
  <2> QED BY <1>1, <1>2
<1> HIDE DEF F, G
<1>6. F \in PieceMap /\ DOMAIN F = DOMAIN s.pieces
  BY <1>1, <1>5, MakeMap
<1>7. /\ t \in Storage /\ t.have = s.have /\ t.use = s.use /\ t.endGame = s.endGame
      /\ t.disk = s.disk /\ t.failures = s.failures /\ t.pieces = F
  BY <1>3, <1>6, NewPieces
<1> QED BY <1>2, <1>4, <1>6, <1>7

\* The use bits of blocks are cleared.
LEMMA CancelBlocksIs ==
    ASSUME NEW s \in Storage, NEW X, NEW t, t = cancelBlocks(s, X)
    PROVE  /\ t \in Storage /\ t.have = s.have /\ t.use = s.use /\ t.endGame = s.endGame
           /\ t.disk = s.disk /\ t.failures = s.failures
           /\ DOMAIN t.pieces = DOMAIN s.pieces
           /\ \A i \in DOMAIN s.pieces :
                /\ t.pieces[i].blocks = s.pieces[i].blocks
                /\ t.pieces[i].useBlocks = s.pieces[i].useBlocks \ BlocksOf(X, i)
                /\ t.pieces[i].users = s.pieces[i].users
                /\ SameData(s.pieces[i], t.pieces[i])
                /\ t.pieces[i].usedBySegment = s.pieces[i].usedBySegment
<1> DEFINE G(i) == [s.pieces[i] EXCEPT !.useBlocks = @ \ BlocksOf(X, i)]
           F == [i \in DOMAIN s.pieces |-> G(i)]
<1>1. /\ DOMAIN s.pieces \in SUBSET Piece
      /\ \A i \in DOMAIN s.pieces : i \in Piece /\ s.pieces[i] \in Rec
  BY StorageFields
<1>2. ASSUME NEW i \in DOMAIN s.pieces
      PROVE  /\ G(i) \in Rec
             /\ G(i).blocks = s.pieces[i].blocks
             /\ G(i).useBlocks = s.pieces[i].useBlocks \ BlocksOf(X, i)
             /\ G(i).users = s.pieces[i].users /\ SameData(s.pieces[i], G(i))
             /\ G(i).usedBySegment = s.pieces[i].usedBySegment
  <2>1. s.pieces[i] \in Rec
    BY <1>1
  <2> QED BY <2>1 DEF Rec, PieceRecord, SameData, SameHash
<1>3. t = [s EXCEPT !.pieces = F]
  BY DEF cancelBlocks
<1>4. \A i \in DOMAIN s.pieces : F[i] = G(i)
  OBVIOUS
<1>5. F \in [DOMAIN s.pieces -> Rec]
  <2> HIDE DEF G
  <2> QED BY <1>1, <1>2
<1> HIDE DEF F, G
<1>6. F \in PieceMap /\ DOMAIN F = DOMAIN s.pieces
  BY <1>1, <1>5, MakeMap
<1>7. /\ t \in Storage /\ t.have = s.have /\ t.use = s.use /\ t.endGame = s.endGame
      /\ t.disk = s.disk /\ t.failures = s.failures /\ t.pieces = F
  BY <1>3, <1>6, NewPieces
<1> QED BY <1>2, <1>4, <1>6, <1>7

\* The pieces in I have been handed out to c.
HandedOut(s, t, I, c) ==
    /\ t \in Storage /\ t.have = s.have /\ t.use = s.use \cup I
    /\ t.endGame = s.endGame
    /\ t.disk = s.disk /\ t.failures = s.failures
    /\ DOMAIN t.pieces = (DOMAIN s.pieces) \cup I
    /\ \A i \in DOMAIN s.pieces :
         /\ t.pieces[i].blocks = s.pieces[i].blocks
         /\ t.pieces[i].useBlocks = s.pieces[i].useBlocks
         /\ t.pieces[i].usedBySegment = s.pieces[i].usedBySegment
         /\ t.pieces[i].cells = s.pieces[i].cells
         /\ t.pieces[i].error = s.pieces[i].error
         /\ s.pieces[i].entry => t.pieces[i].entry
         /\ SameHash(s.pieces[i], t.pieces[i])
         /\ i \notin I => t.pieces[i] = s.pieces[i]
         /\ i \in I => t.pieces[i].users = s.pieces[i].users \cup {c}
    /\ \A i \in I \ DOMAIN s.pieces :
         /\ t.pieces[i].blocks = {} /\ t.pieces[i].useBlocks = {}
         /\ t.pieces[i].users = {c} /\ t.pieces[i].nextBegin = 0
         /\ t.pieces[i].cells = Nothing /\ t.pieces[i].error = FALSE

\* Pieces are handed out.
LEMMA CheckOutPiecesIs ==
    ASSUME NEW s \in Storage, NEW I \in SUBSET Piece, NEW c \in Cuid,
           NEW t, t = checkOutPieces(s, I, c)
    PROVE  HandedOut(s, t, I, c)
<1> DEFINE P(i) == IF i \in DOMAIN s.pieces THEN s.pieces[i] ELSE NewPiece
           G(i) == [P(i) EXCEPT !.users = @ \cup {c}, !.entry = @ \/ CacheOn]
           F == [i \in (DOMAIN s.pieces) \cup I |-> IF i \in I THEN G(i) ELSE P(i)]
<1>1. /\ DOMAIN s.pieces \in SUBSET Piece /\ s.use \in SUBSET Piece /\ s.have \in SUBSET Piece
      /\ \A i \in DOMAIN s.pieces : i \in Piece /\ s.pieces[i] \in Rec
  BY StorageFields
<1>2. \A i : P(i) \in Rec
  BY <1>1, NewPieceIs
<1>3. \A i : /\ i \in DOMAIN s.pieces => P(i) = s.pieces[i]
             /\ i \notin DOMAIN s.pieces => P(i) = NewPiece
  OBVIOUS
<1>4. \A i \in (DOMAIN s.pieces) \cup I : F[i] = IF i \in I THEN G(i) ELSE P(i)
  OBVIOUS
<1>5. t = [s EXCEPT !.use = s.use \cup I, !.pieces = F]
  BY DEF checkOutPieces
<1> HIDE DEF P
<1>6. ASSUME NEW i
      PROVE  /\ G(i) \in Rec
             /\ G(i).blocks = P(i).blocks
             /\ G(i).useBlocks = P(i).useBlocks
             /\ G(i).users = P(i).users \cup {c} /\ SameHash(P(i), G(i))
             /\ G(i).usedBySegment = P(i).usedBySegment
             /\ G(i).cells = P(i).cells /\ G(i).error = P(i).error
             /\ P(i).entry => G(i).entry
  <2>1. P(i) \in Rec /\ P(i).entry \in BOOLEAN
    BY <1>2, Fields
  <2>2. (P(i).entry \/ CacheOn) \in BOOLEAN
    OBVIOUS
  <2> QED BY <2>1, <2>2 DEF Rec, PieceRecord, SameHash
<1> HIDE DEF G
<1>7. F \in [(DOMAIN s.pieces) \cup I -> Rec]
  BY <1>1, <1>2, <1>6
<1> HIDE DEF F
<1> DEFINE D == (DOMAIN s.pieces) \cup I
           U == s.use \cup I
<1>13. D \in SUBSET Piece /\ F \in [D -> Rec] /\ U \in SUBSET Piece
  BY <1>1, <1>7
<1>14. t = [s EXCEPT !.use = U, !.pieces = F]
  BY <1>5
<1> HIDE DEF D, U
<1>15. F \in PieceMap /\ DOMAIN F = D
  BY <1>13, MakeMap
<1>8. /\ t \in Storage /\ t.have = s.have /\ t.use = U
      /\ t.endGame = s.endGame /\ t.pieces = F
      /\ t.disk = s.disk /\ t.failures = s.failures
      /\ DOMAIN t.pieces = D
  BY <1>13, <1>14, <1>15 DEF Storage
<1>9. /\ t \in Storage /\ t.have = s.have /\ t.use = s.use \cup I
      /\ t.endGame = s.endGame /\ t.pieces = F
      /\ t.disk = s.disk /\ t.failures = s.failures
      /\ DOMAIN t.pieces = (DOMAIN s.pieces) \cup I
  BY <1>8 DEF D, U
<1>10. \A p : SameHash(p, p)
  BY DEF SameHash
<1>11. ASSUME NEW i \in DOMAIN s.pieces
       PROVE  /\ t.pieces[i].blocks = s.pieces[i].blocks
              /\ t.pieces[i].useBlocks = s.pieces[i].useBlocks
              /\ t.pieces[i].usedBySegment = s.pieces[i].usedBySegment
              /\ t.pieces[i].cells = s.pieces[i].cells
              /\ t.pieces[i].error = s.pieces[i].error
              /\ s.pieces[i].entry => t.pieces[i].entry
              /\ SameHash(s.pieces[i], t.pieces[i])
              /\ i \notin I => t.pieces[i] = s.pieces[i]
              /\ i \in I => t.pieces[i].users = s.pieces[i].users \cup {c}
  BY <1>3, <1>4, <1>6, <1>9, <1>10
<1>12. ASSUME NEW i \in I \ DOMAIN s.pieces
       PROVE  /\ t.pieces[i].blocks = {} /\ t.pieces[i].useBlocks = {}
              /\ t.pieces[i].users = {c} /\ t.pieces[i].nextBegin = 0
              /\ t.pieces[i].cells = Nothing /\ t.pieces[i].error = FALSE
  BY <1>3, <1>4, <1>6, <1>9, NewPieceIs DEF SameHash
<1> QED BY <1>9, <1>11, <1>12 DEF HandedOut

\* A piece leaves the pieces in flight.
LEMMA DeleteUsedPieceIs ==
    ASSUME NEW s \in Storage, NEW i, NEW t, t = deleteUsedPiece(s, i)
    PROVE  /\ t \in Storage /\ t.have = s.have /\ t.use = s.use /\ t.endGame = s.endGame
           /\ t.disk = s.disk /\ t.failures = s.failures
           /\ DOMAIN t.pieces = (DOMAIN s.pieces) \ {i}
           /\ \A j \in (DOMAIN s.pieces) \ {i} : t.pieces[j] = s.pieces[j]
<1> DEFINE D == (DOMAIN s.pieces) \ {i}
           F == [j \in D |-> s.pieces[j]]
<1>1. /\ DOMAIN s.pieces \in SUBSET Piece
      /\ \A j \in DOMAIN s.pieces : j \in Piece /\ s.pieces[j] \in Rec
  BY StorageFields
<1>2. t = [s EXCEPT !.pieces = F]
  BY DEF deleteUsedPiece
<1>3. F \in [D -> Rec] /\ \A j \in D : F[j] = s.pieces[j]
  BY <1>1
<1> HIDE DEF F
<1>4. F \in PieceMap /\ DOMAIN F = D
  BY <1>1, <1>3, MakeMap
<1> QED BY <1>2, <1>3, <1>4, NewPieces

\* A piece is done.
LEMMA CompletePieceIs ==
    ASSUME NEW s \in Storage, NEW i \in Piece \ s.have, NEW t, t = completePiece(s, i)
    PROVE  /\ t \in Storage /\ t.have = s.have \cup {i} /\ t.use = s.use \ {i}
           /\ t.endGame = s.endGame /\ t.disk = s.disk /\ t.failures = s.failures
           /\ DOMAIN t.pieces = (DOMAIN s.pieces) \ {i}
           /\ \A j \in (DOMAIN s.pieces) \ {i} : t.pieces[j] = s.pieces[j]
<1> DEFINE u == deleteUsedPiece(s, i)
<1>1. /\ u \in Storage /\ u.have = s.have /\ u.use = s.use /\ u.endGame = s.endGame
      /\ u.disk = s.disk /\ u.failures = s.failures
      /\ DOMAIN u.pieces = (DOMAIN s.pieces) \ {i}
      /\ \A j \in (DOMAIN s.pieces) \ {i} : u.pieces[j] = s.pieces[j]
  BY DeleteUsedPieceIs
<1>2. ~downloadFinished(s)
  BY DEF downloadFinished
<1>3. t = [u EXCEPT !.have = @ \cup {i}, !.use = @ \ {i}]
  BY <1>2 DEF completePiece
<1> HIDE DEF u
<1>5. /\ u.have \cup {i} \in SUBSET Piece /\ u.use \ {i} \in SUBSET Piece
      /\ u.pieces \in PieceMap
  BY <1>1, StorageFields
<1>4. /\ t \in Storage /\ t.have = u.have \cup {i} /\ t.use = u.use \ {i}
      /\ t.endGame = u.endGame /\ t.disk = u.disk /\ t.failures = u.failures
      /\ t.pieces = u.pieces
  BY <1>1, <1>3, <1>5 DEF Storage
<1> QED BY <1>1, <1>4

\* The pieces in I have been given back by the commands in C.
GivenBack(s, t, I, C) ==
    /\ t \in Storage /\ t.have = s.have /\ t.endGame = s.endGame
    /\ \A i : i \in t.use <=>
         /\ i \in s.use
         /\ i \in I /\ i \in DOMAIN s.pieces => ~(s.pieces[i].users \subseteq C)
    /\ t.disk = s.disk /\ t.failures = s.failures
    /\ \A i : i \in DOMAIN t.pieces <=>
         /\ i \in DOMAIN s.pieces
         /\ i \in I /\ ~s.endGame => s.pieces[i].blocks # {}
    /\ \A i \in DOMAIN t.pieces :
         /\ t.pieces[i].blocks = s.pieces[i].blocks
         /\ t.pieces[i].useBlocks = s.pieces[i].useBlocks
         /\ t.pieces[i].usedBySegment = s.pieces[i].usedBySegment
         /\ SameData(s.pieces[i], t.pieces[i])
         /\ i \notin I => t.pieces[i].users = s.pieces[i].users
         /\ i \in I => t.pieces[i].users = s.pieces[i].users \ C

\* Pieces are given back.
LEMMA CancelPiecesIs ==
    ASSUME NEW s \in Storage, NEW I \in SUBSET Piece, NEW C,
           NEW t, t = cancelPieces(s, I, C)
    PROVE  GivenBack(s, t, I, C)
<1> DEFINE Free == {i \in I \cap DOMAIN s.pieces : s.pieces[i].users \subseteq C}
           Gone == {i \in I : ~s.endGame /\ i \in DOMAIN s.pieces /\ s.pieces[i].blocks = {}}
           D == (DOMAIN s.pieces) \ Gone
           G(i) == [s.pieces[i] EXCEPT !.users = @ \ C]
           F == [i \in D |-> IF i \in I THEN G(i) ELSE s.pieces[i]]
<1>1. /\ DOMAIN s.pieces \in SUBSET Piece /\ s.use \in SUBSET Piece /\ s.have \in SUBSET Piece
      /\ \A i \in DOMAIN s.pieces : i \in Piece /\ s.pieces[i] \in Rec
  BY StorageFields
<1>2. t = [s EXCEPT !.use = s.use \ Free, !.pieces = F]
  BY DEF cancelPieces
<1>3. ASSUME NEW i \in DOMAIN s.pieces
      PROVE  /\ G(i) \in Rec
             /\ G(i).blocks = s.pieces[i].blocks
             /\ G(i).useBlocks = s.pieces[i].useBlocks
             /\ G(i).users = s.pieces[i].users \ C /\ SameData(s.pieces[i], G(i))
             /\ G(i).usedBySegment = s.pieces[i].usedBySegment
  <2>1. s.pieces[i] \in Rec
    BY <1>1
  <2> QED BY <2>1 DEF Rec, PieceRecord, SameData, SameHash
<1>4. /\ \A i \in D : F[i] = IF i \in I THEN G(i) ELSE s.pieces[i]
      /\ D \subseteq DOMAIN s.pieces
  OBVIOUS
<1> HIDE DEF G
<1>5. F \in [D -> Rec]
  BY <1>1, <1>3
<1>6. D \in SUBSET Piece /\ (s.use \ Free) \in SUBSET Piece
  BY <1>1
<1> DEFINE U == s.use \ Free
<1>11. t = [s EXCEPT !.use = U, !.pieces = F] /\ U \in SUBSET Piece
  BY <1>2, <1>6
<1> HIDE DEF F, D, Free, Gone, U
<1>12. F \in PieceMap /\ DOMAIN F = D
  BY <1>5, <1>6, MakeMap
<1>8. /\ t \in Storage /\ t.have = s.have /\ t.use = U
      /\ t.endGame = s.endGame /\ t.pieces = F
      /\ t.disk = s.disk /\ t.failures = s.failures
      /\ DOMAIN t.pieces = D
  BY <1>11, <1>12 DEF Storage
<1>9. \A p : SameData(p, p)
  BY DEF SameData, SameHash
<1>10. ASSUME NEW i \in D
       PROVE  /\ t.pieces[i].blocks = s.pieces[i].blocks
              /\ t.pieces[i].useBlocks = s.pieces[i].useBlocks
              /\ t.pieces[i].usedBySegment = s.pieces[i].usedBySegment
              /\ SameData(s.pieces[i], t.pieces[i])
              /\ i \notin I => t.pieces[i].users = s.pieces[i].users
              /\ i \in I => t.pieces[i].users = s.pieces[i].users \ C
  BY <1>3, <1>4, <1>8, <1>9
<1>13. \A i : i \in U <=>
         /\ i \in s.use
         /\ i \in I /\ i \in DOMAIN s.pieces => ~(s.pieces[i].users \subseteq C)
  BY DEF U, Free
<1>14. \A i : i \in D <=>
         /\ i \in DOMAIN s.pieces
         /\ i \in I /\ ~s.endGame => s.pieces[i].blocks # {}
  BY DEF D, Gone
<1> QED BY <1>8, <1>10, <1>13, <1>14 DEF GivenBack

(***************************************************************************)
(* The books of a piece.  h are the commands that hold piece i, a the      *)
(* blocks of it that peers have been asked for; the pieces in J may be     *)
(* complete.                                                               *)
(***************************************************************************)
Single(h) == \A c, d \in h : c = d

Booked(s, i, h, a, J) ==
    /\ i \in DOMAIN s.pieces =>
         /\ i \notin s.have /\ s.pieces[i].users = h
         /\ i \in J \/ s.pieces[i].blocks # Block
         /\ s.endGame \/ (s.pieces[i].useBlocks = a /\ s.pieces[i].blocks \cap a = {})
    /\ i \in s.use => i \in DOMAIN s.pieces
    /\ i \notin s.have => (i \in s.use <=> h # {})
    /\ s.endGame \/ Single(h)
    /\ h \cap Stream # {} => i \in s.use /\ s.pieces[i].usedBySegment /\ Single(h)
    /\ h \cap Peer = {} => a = {}

\* No piece in flight is done or complete.
Weak(s) ==
    \A i \in DOMAIN s.pieces : i \notin s.have /\ s.pieces[i].blocks # Block

\* The books of a piece nobody touches.
LEMMA BookedSame ==
    ASSUME NEW s, NEW t, NEW i, NEW h, NEW a, NEW J, Booked(s, i, h, a, J),
           i \in t.have <=> i \in s.have, i \in t.use <=> i \in s.use, t.endGame = s.endGame,
           i \in DOMAIN t.pieces <=> i \in DOMAIN s.pieces,
           i \in DOMAIN s.pieces =>
             /\ t.pieces[i].blocks = s.pieces[i].blocks
             /\ t.pieces[i].useBlocks = s.pieces[i].useBlocks
             /\ t.pieces[i].users = s.pieces[i].users
             /\ t.pieces[i].usedBySegment = s.pieces[i].usedBySegment
    PROVE  Booked(t, i, h, a, J)
BY DEF Booked

\* Data and digests are not in the books.
LEMMA BookedData ==
    ASSUME NEW s, NEW t, NEW i, NEW h, NEW a, NEW J, Booked(s, i, h, a, J), SameBooks(s, t)
    PROVE  Booked(t, i, h, a, J)
BY DEF Booked, SameBooks, SameUse

\* A piece that is not complete needs no exception.
LEMMA BookedIncomplete ==
    ASSUME NEW s, NEW i, NEW h, NEW a, NEW J, Booked(s, i, h, a, J),
           i \in DOMAIN s.pieces => s.pieces[i].blocks # Block
    PROVE  Booked(s, i, h, a, {})
BY DEF Booked

\* Blocks of piece i are completed.
LEMMA BookedComplete ==
    ASSUME NEW s \in Storage, NEW i \in DOMAIN s.pieces, NEW B \in SUBSET Block,
           NEW t, t = completeBlocks(s, i, B), NEW h, NEW a, NEW J
    PROVE  /\ Booked(s, i, h, a, J) => Booked(t, i, h, a \ B, {i})
           /\ \A j : j # i /\ Booked(s, j, h, a, J) => Booked(t, j, h, a, J)
<1>1. /\ t \in Storage /\ t.have = s.have /\ t.use = s.use /\ t.endGame = s.endGame
      /\ DOMAIN t.pieces = DOMAIN s.pieces
      /\ t.pieces[i].blocks = s.pieces[i].blocks \cup B
      /\ t.pieces[i].useBlocks = s.pieces[i].useBlocks \ B
      /\ t.pieces[i].users = s.pieces[i].users
      /\ t.pieces[i].usedBySegment = s.pieces[i].usedBySegment
      /\ \A j \in DOMAIN s.pieces : j # i => t.pieces[j] = s.pieces[j]
  <2>1. BlocksDone(s, t, i, B)
    BY CompleteBlocksIs
  <2> QED BY <2>1 DEF BlocksDone
<1>2. Booked(s, i, h, a, J) => Booked(t, i, h, a \ B, {i})
  BY <1>1 DEF Booked
<1>3. \A j : j # i /\ Booked(s, j, h, a, J) => Booked(t, j, h, a, J)
  BY <1>1 DEF Booked
<1> QED BY <1>2, <1>3

\* Piece i is emptied.
LEMMA BookedClear ==
    ASSUME NEW s \in Storage, NEW i \in DOMAIN s.pieces,
           NEW t, t = clearAllBlock(s, i), NEW h, NEW a, NEW J
    PROVE  /\ Booked(s, i, h, a, J) /\ (s.endGame \/ a = {}) => Booked(t, i, h, a, {})
           /\ \A j : j # i /\ Booked(s, j, h, a, J) => Booked(t, j, h, a, J)
<1>1. /\ t \in Storage /\ t.have = s.have /\ t.use = s.use /\ t.endGame = s.endGame
      /\ DOMAIN t.pieces = DOMAIN s.pieces
      /\ t.pieces[i].blocks = {} /\ t.pieces[i].useBlocks = {}
      /\ t.pieces[i].users = s.pieces[i].users
      /\ t.pieces[i].usedBySegment = s.pieces[i].usedBySegment
      /\ \A j \in DOMAIN s.pieces : j # i => t.pieces[j] = s.pieces[j]
  <2>1. Emptied(s, t, i)
    BY ClearAllBlockIs
  <2> QED BY <2>1 DEF Emptied
<1>2. Booked(s, i, h, a, J) /\ (s.endGame \/ a = {}) => Booked(t, i, h, a, {})
  BY <1>1, Numbers DEF Booked
<1>3. \A j : j # i /\ Booked(s, j, h, a, J) => Booked(t, j, h, a, J)
  BY <1>1 DEF Booked
<1> QED BY <1>2, <1>3

\* Requests for blocks are given up: those in X and others whose block has come.
LEMMA BookedCancelBlocks ==
    ASSUME NEW s \in Storage, NEW X, NEW t, t = cancelBlocks(s, X),
           NEW i, NEW h, NEW a, NEW b, NEW J, Booked(s, i, h, a, J),
           h \cap Peer = {} => b = {},
           i \in DOMAIN s.pieces /\ ~s.endGame => b = a \ BlocksOf(X, i)
    PROVE  Booked(t, i, h, b, J)
<1>1. /\ t.have = s.have /\ t.use = s.use /\ t.endGame = s.endGame
      /\ DOMAIN t.pieces = DOMAIN s.pieces
      /\ \A j \in DOMAIN s.pieces :
           /\ t.pieces[j].blocks = s.pieces[j].blocks
           /\ t.pieces[j].useBlocks = s.pieces[j].useBlocks \ BlocksOf(X, j)
           /\ t.pieces[j].users = s.pieces[j].users
           /\ t.pieces[j].usedBySegment = s.pieces[j].usedBySegment
  BY CancelBlocksIs
<1> QED BY <1>1 DEF Booked

\* Blocks are asked for.
LEMMA BookedUseBlocks ==
    ASSUME NEW s \in Storage, NEW X, NEW t, t = useBlocks(s, X),
           NEW i, NEW h, NEW a, NEW J, Booked(s, i, h, a, J),
           h \cap Peer = {} => BlocksOf(X, i) = {},
           i \in DOMAIN s.pieces => BlocksOf(X, i) \cap s.pieces[i].blocks = {}
    PROVE  Booked(t, i, h, a \cup BlocksOf(X, i), J)
<1>1. /\ t.have = s.have /\ t.use = s.use /\ t.endGame = s.endGame
      /\ DOMAIN t.pieces = DOMAIN s.pieces
      /\ \A j \in DOMAIN s.pieces :
           /\ t.pieces[j].blocks = s.pieces[j].blocks
           /\ t.pieces[j].useBlocks = s.pieces[j].useBlocks \cup BlocksOf(X, j)
           /\ t.pieces[j].users = s.pieces[j].users
           /\ t.pieces[j].usedBySegment = s.pieces[j].usedBySegment
  BY UseBlocksIs
<1> HIDE DEF BlocksOf
<1> QED BY <1>1 DEF Booked

\* A peer may take piece i.
MayTake(s, i) ==
    /\ i \notin s.have
    /\ \/ i \notin s.use
       \/ s.endGame /\ ~(i \in DOMAIN s.pieces /\ s.pieces[i].usedBySegment)

\* Peer p takes the pieces in I.
LEMMA BookedPeerTakes ==
    ASSUME NEW s \in Storage, NEW I \in SUBSET Piece, NEW p \in Peer,
           NEW t, t = checkOutPieces(s, I, p),
           NEW i, NEW h, NEW a, Booked(s, i, h, a, {})
    PROVE  /\ i \notin I => Booked(t, i, h, a, {})
           /\ i \in I /\ MayTake(s, i) => Booked(t, i, h \cup {p}, a, {})
<1>1. /\ t.have = s.have /\ t.use = s.use \cup I /\ t.endGame = s.endGame
      /\ DOMAIN t.pieces = (DOMAIN s.pieces) \cup I
      /\ \A j \in DOMAIN s.pieces :
           /\ t.pieces[j].blocks = s.pieces[j].blocks
           /\ t.pieces[j].useBlocks = s.pieces[j].useBlocks
           /\ t.pieces[j].usedBySegment = s.pieces[j].usedBySegment
           /\ j \notin I => t.pieces[j] = s.pieces[j]
           /\ j \in I => t.pieces[j].users = s.pieces[j].users \cup {p}
      /\ \A j \in I \ DOMAIN s.pieces :
           /\ t.pieces[j].blocks = {} /\ t.pieces[j].useBlocks = {}
           /\ t.pieces[j].users = {p}
  <2>1. p \in Cuid
    BY DEF Cuid
  <2>2. HandedOut(s, t, I, p)
    BY <2>1, CheckOutPiecesIs
  <2> QED BY <2>2 DEF HandedOut
<1>2. i \notin I => Booked(t, i, h, a, {})
  BY <1>1 DEF Booked
<1>3. ASSUME i \in I, MayTake(s, i)
      PROVE  Booked(t, i, h \cup {p}, a, {})
  <2>1. p \notin Stream
    BY TransferAssumption
  <2>2. h \cap Stream = {}
    BY <1>3 DEF Booked, MayTake
  <2>3. ~s.endGame => h = {}
    BY <1>3 DEF Booked, MayTake
  <2>4. i \notin DOMAIN s.pieces => h = {} /\ a = {}
    BY <1>3 DEF Booked, MayTake
  <2>10. i \notin s.have
    BY <1>3 DEF MayTake
  <2>5. (h \cup {p}) \cap Stream = {} /\ (h \cup {p}) \cap Peer # {} /\ h \cup {p} # {}
    BY <2>1, <2>2
  <2>6. t.endGame \/ Single(h \cup {p})
    BY <1>1, <2>3 DEF Single
  <2>7. i \in t.use /\ i \in DOMAIN t.pieces /\ i \notin t.have
    BY <1>1, <1>3, <2>10
  <2>8. CASE i \in DOMAIN s.pieces
    BY <1>1, <1>3, <2>5, <2>6, <2>7, <2>8 DEF Booked
  <2>9. CASE i \notin DOMAIN s.pieces
    BY ZenonT(60), <1>1, <1>3, <2>4, <2>5, <2>6, <2>7, <2>9, Numbers DEF Booked
  <2> QED BY <2>8, <2>9
<1> QED BY <1>2, <1>3

\* Stream c has taken piece i.
StreamTook(s, v, i, c) ==
    /\ \A a : Booked(s, i, {}, a, {}) => Booked(v, i, {c}, a, {})
    /\ \A j, h, a : j # i /\ Booked(s, j, h, a, {}) => Booked(v, j, h, a, {})

\* Stream c takes piece i.
LEMMA BookedStreamTakes ==
    ASSUME NEW s \in Storage, NEW i \in Piece \ (s.have \cup s.use), NEW c \in Stream,
           NEW t, t = checkOutPieces(s, {i}, c), NEW u, u \in Storage, SameBooks(t, u),
           NEW v, Marked(u, v, {i}), v.pieces[i].usedBySegment
    PROVE  StreamTook(s, v, i, c)
<1> DEFINE I == {i}
<1>0. I \in SUBSET Piece /\ i \in I /\ \A j : j # i <=> j \notin I
  OBVIOUS
<1>a. Marked(u, v, I) /\ t = checkOutPieces(s, I, c)
  OBVIOUS
<1> HIDE DEF I
<1>1. /\ t.have = s.have /\ t.use = s.use \cup I /\ t.endGame = s.endGame
      /\ DOMAIN t.pieces = (DOMAIN s.pieces) \cup I
      /\ \A j \in DOMAIN s.pieces :
           /\ t.pieces[j].blocks = s.pieces[j].blocks
           /\ t.pieces[j].useBlocks = s.pieces[j].useBlocks
           /\ t.pieces[j].usedBySegment = s.pieces[j].usedBySegment
           /\ j \notin I => t.pieces[j] = s.pieces[j]
           /\ j \in I => t.pieces[j].users = s.pieces[j].users \cup {c}
      /\ \A j \in I \ DOMAIN s.pieces :
           /\ t.pieces[j].blocks = {} /\ t.pieces[j].useBlocks = {}
           /\ t.pieces[j].users = {c}
  <2>1. c \in Cuid
    BY DEF Cuid
  <2>2. HandedOut(s, t, I, c)
    BY <1>0, <1>a, <2>1, CheckOutPiecesIs
  <2> QED BY <2>2 DEF HandedOut
<1>2. /\ u.have = t.have /\ u.use = t.use /\ u.endGame = t.endGame
      /\ DOMAIN u.pieces = DOMAIN t.pieces
      /\ \A j \in DOMAIN t.pieces :
           /\ u.pieces[j].blocks = t.pieces[j].blocks
           /\ u.pieces[j].useBlocks = t.pieces[j].useBlocks
           /\ u.pieces[j].users = t.pieces[j].users
           /\ u.pieces[j].usedBySegment = t.pieces[j].usedBySegment
  BY DEF SameBooks, SameUse
<1>3. /\ v.have = u.have /\ v.use = u.use /\ v.endGame = u.endGame
      /\ DOMAIN v.pieces = DOMAIN u.pieces
      /\ \A j \in DOMAIN u.pieces :
           /\ v.pieces[j].blocks = u.pieces[j].blocks
           /\ v.pieces[j].useBlocks = u.pieces[j].useBlocks
           /\ v.pieces[j].users = u.pieces[j].users
  BY <1>a DEF Marked
<1>b. \A j \in DOMAIN u.pieces :
           j \notin I => v.pieces[j].usedBySegment = u.pieces[j].usedBySegment
  BY <1>a DEF Marked
<1>6. /\ v.have = s.have /\ v.use = s.use \cup I /\ v.endGame = s.endGame
      /\ DOMAIN v.pieces = (DOMAIN s.pieces) \cup I
  BY <1>1, <1>2, <1>3
<1>7. ASSUME NEW j \in DOMAIN s.pieces
      PROVE  /\ v.pieces[j].blocks = s.pieces[j].blocks
             /\ v.pieces[j].useBlocks = s.pieces[j].useBlocks
             /\ j \in I => v.pieces[j].users = s.pieces[j].users \cup {c}
             /\ j \notin I => /\ v.pieces[j].users = s.pieces[j].users
                             /\ v.pieces[j].usedBySegment = s.pieces[j].usedBySegment
  <2>1. j \in DOMAIN t.pieces /\ j \in DOMAIN u.pieces
    BY <1>1, <1>2
  <2>2. j \notin I => v.pieces[j].usedBySegment = s.pieces[j].usedBySegment
    BY ZenonT(60), <1>1, <1>2, <1>b, <2>1
  <2>3. v.pieces[j].blocks = u.pieces[j].blocks /\ v.pieces[j].useBlocks = u.pieces[j].useBlocks
        /\ v.pieces[j].users = u.pieces[j].users
    BY <1>3, <2>1
  <2>4. u.pieces[j].blocks = t.pieces[j].blocks /\ u.pieces[j].useBlocks = t.pieces[j].useBlocks
        /\ u.pieces[j].users = t.pieces[j].users
    BY <1>2, <2>1
  <2>5. /\ t.pieces[j].blocks = s.pieces[j].blocks /\ t.pieces[j].useBlocks = s.pieces[j].useBlocks
        /\ j \in I => t.pieces[j].users = s.pieces[j].users \cup {c}
        /\ j \notin I => t.pieces[j].users = s.pieces[j].users
    BY <1>1
  <2> QED BY <2>2, <2>3, <2>4, <2>5
<1>8. ASSUME i \notin DOMAIN s.pieces
      PROVE  v.pieces[i].blocks = {} /\ v.pieces[i].useBlocks = {} /\ v.pieces[i].users = {c}
  <2>1. i \in I \ DOMAIN s.pieces /\ i \in DOMAIN t.pieces /\ i \in DOMAIN u.pieces
    BY <1>0, <1>1, <1>2, <1>8
  <2>3. v.pieces[i].blocks = u.pieces[i].blocks /\ v.pieces[i].useBlocks = u.pieces[i].useBlocks
        /\ v.pieces[i].users = u.pieces[i].users
    BY <1>3, <2>1
  <2>4. u.pieces[i].blocks = t.pieces[i].blocks /\ u.pieces[i].useBlocks = t.pieces[i].useBlocks
        /\ u.pieces[i].users = t.pieces[i].users
    BY <1>2, <2>1
  <2>5. t.pieces[i].blocks = {} /\ t.pieces[i].useBlocks = {} /\ t.pieces[i].users = {c}
    BY <1>1, <2>1
  <2> QED BY <2>3, <2>4, <2>5
<1>4. ASSUME NEW a, Booked(s, i, {}, a, {}) PROVE Booked(v, i, {c}, a, {})
  <2>1. Single({c}) /\ {c} \cap Peer = {} /\ {c} # {} /\ a = {}
    BY <1>4, TransferAssumption DEF Single, Booked
  <2>2. i \in v.use /\ i \in DOMAIN v.pieces /\ i \notin v.have
    BY <1>0, <1>6
  <2>3. v.pieces[i].users = {c}
    BY <1>0, <1>4, <1>7, <1>8 DEF Booked
  <2>4. v.pieces[i].blocks # Block
    BY <1>0, <1>4, <1>7, <1>8, Numbers DEF Booked
  <2>5. v.endGame \/ v.pieces[i].useBlocks = {}
    BY <1>0, <1>4, <1>6, <1>7, <1>8, <2>1 DEF Booked
  <2> QED BY <2>1, <2>2, <2>3, <2>4, <2>5 DEF Booked
<1>5. ASSUME NEW j, NEW h, NEW a, j # i, Booked(s, j, h, a, {}) PROVE Booked(v, j, h, a, {})
  <2>1. j \notin I
    BY <1>0, <1>5
  <2>2. /\ j \in v.have <=> j \in s.have
        /\ j \in v.use <=> j \in s.use
        /\ v.endGame = s.endGame
        /\ j \in DOMAIN v.pieces <=> j \in DOMAIN s.pieces
    BY <1>6, <2>1
  <2>3. j \in DOMAIN s.pieces =>
             /\ v.pieces[j].blocks = s.pieces[j].blocks
             /\ v.pieces[j].useBlocks = s.pieces[j].useBlocks
             /\ v.pieces[j].users = s.pieces[j].users
             /\ v.pieces[j].usedBySegment = s.pieces[j].usedBySegment
    BY <1>7, <2>1
  <2> QED BY <1>5, <2>2, <2>3, BookedSame
<1> QED BY <1>4, <1>5 DEF StreamTook

\* The pieces in I are given back by the commands C.
LEMMA BookedCancelPieces ==
    ASSUME NEW s \in Storage, NEW I \in SUBSET Piece, NEW C,
           NEW t, t = cancelPieces(s, I, C),
           NEW i, NEW h, NEW a, NEW J, Booked(s, i, h, a, J)
    PROVE  /\ i \notin I => Booked(t, i, h, a, J)
           /\ i \in I /\ h \cap C # {} /\ ((h \ C) \cap Peer = {} => a = {})
              => Booked(t, i, h \ C, a, J)
<1>1. /\ t.have = s.have /\ t.endGame = s.endGame
      /\ \A j : j \in t.use <=>
           /\ j \in s.use
           /\ j \in I /\ j \in DOMAIN s.pieces => ~(s.pieces[j].users \subseteq C)
      /\ \A j : j \in DOMAIN t.pieces <=>
           /\ j \in DOMAIN s.pieces
           /\ j \in I /\ ~s.endGame => s.pieces[j].blocks # {}
      /\ \A j \in DOMAIN t.pieces :
           /\ t.pieces[j].blocks = s.pieces[j].blocks
           /\ t.pieces[j].useBlocks = s.pieces[j].useBlocks
           /\ t.pieces[j].usedBySegment = s.pieces[j].usedBySegment
           /\ j \notin I => t.pieces[j].users = s.pieces[j].users
           /\ j \in I => t.pieces[j].users = s.pieces[j].users \ C
  <2>1. GivenBack(s, t, I, C)
    BY CancelPiecesIs
  <2> QED BY <2>1 DEF GivenBack
<1>2. i \notin I => Booked(t, i, h, a, J)
  BY <1>1 DEF Booked
<1>3. ASSUME i \in I, h \cap C # {}, (h \ C) \cap Peer = {} => a = {}
      PROVE  Booked(t, i, h \ C, a, J)
  <2>1. Single(h) => h \ C = {}
    BY <1>3 DEF Single
  <2>2. (h \ C) \cap Stream = {}
    BY <2>1 DEF Booked
  <2>3. t.endGame \/ (Single(h \ C) /\ h \ C = {})
    BY <1>1, <2>1 DEF Booked, Single
  <2>4. i \notin s.have => i \in DOMAIN s.pieces /\ i \in s.use
    BY <1>3 DEF Booked
  <2>5. i \notin t.have => (i \in t.use <=> h \ C # {})
    BY <1>1, <1>3, <2>4 DEF Booked
  <2>6. i \in t.use => i \in DOMAIN t.pieces
    BY <1>1, <2>3, <2>5 DEF Booked
  <2>7. i \in DOMAIN t.pieces =>
          /\ i \notin t.have /\ t.pieces[i].users = h \ C
          /\ i \in J \/ t.pieces[i].blocks # Block
          /\ t.endGame \/ (t.pieces[i].useBlocks = a /\ t.pieces[i].blocks \cap a = {})
    BY <1>1, <1>3 DEF Booked
  <2> QED BY <1>3, <2>2, <2>3, <2>5, <2>6, <2>7 DEF Booked
<1> QED BY <1>2, <1>3

\* Piece i is done; k are those that hold it still.
LEMMA BookedDone ==
    ASSUME NEW s \in Storage, NEW i \in Piece \ s.have, NEW t, t = completePiece(s, i),
           NEW J
    PROVE  /\ \A k, a : Single(k) \/ s.endGame => (k \cap Stream = {} => 
                ((k \cap Peer = {} => a = {}) => Booked(t, i, k, a, {})))
           /\ \A j, h, a : j # i /\ Booked(s, j, h, a, J) => Booked(t, j, h, a, J)
<1>1. /\ t \in Storage /\ t.have = s.have \cup {i} /\ t.use = s.use \ {i}
      /\ t.endGame = s.endGame
      /\ DOMAIN t.pieces = (DOMAIN s.pieces) \ {i}
      /\ \A j \in (DOMAIN s.pieces) \ {i} : t.pieces[j] = s.pieces[j]
  BY CompletePieceIs
<1>2. ASSUME NEW k, NEW a, Single(k) \/ s.endGame, k \cap Stream = {}, k \cap Peer = {} => a = {}
      PROVE  Booked(t, i, k, a, {})
  BY <1>1, <1>2 DEF Booked
<1>3. ASSUME NEW j, NEW h, NEW a, j # i, Booked(s, j, h, a, J) PROVE Booked(t, j, h, a, J)
  BY <1>1, <1>3 DEF Booked
<1> QED BY <1>2, <1>3

(***************************************************************************)
(* Positions of blocks.                                                    *)
(***************************************************************************)
At(b) == b * BlockLength

\* Blocks follow each other from the beginning to the end of a piece.
LEMMA Positions ==
    /\ \A b \in Nat : At(b) \in Nat /\ At(b + 1) = At(b) + BlockLength
    /\ \A b, d \in Nat : b < d => At(b + 1) <= At(d)
    /\ At(0) = 0 /\ At(BlocksPerPiece) = PieceLength
<1>1. \A b, l \in Nat : b * l \in Nat /\ (b + 1) * l = b * l + l /\ 0 * l = 0
  OBVIOUS
<1>2. \A b, d, l \in Nat : b <= d => b * l <= d * l
  <2>1. SUFFICES ASSUME NEW b \in Nat, NEW d \in Nat, NEW l \in Nat, b <= d
                 PROVE  b * l <= d * l
    OBVIOUS
  <2> DEFINE k == d - b
  <2>2. k \in Nat /\ d = b + k
    BY <2>1
  <2> HIDE DEF k
  <2>3. (b + k) * l = b * l + k * l /\ k * l \in Nat /\ b * l \in Nat
    BY <2>2
  <2> QED BY <2>2, <2>3
<1>3. ASSUME NEW b \in Nat, NEW d \in Nat, b < d PROVE At(b + 1) <= At(d)
  <2>1. b + 1 <= d /\ b + 1 \in Nat
    BY <1>3
  <2> QED BY <1>2, <2>1, Numbers DEF At
<1> QED BY <1>1, <1>3, Numbers DEF At, PieceLength

\* Facts about every block.
LEMMA BlockPositions ==
    /\ \A b \in Block : b \in Nat /\ At(b) \in Nat /\ At(b + 1) = At(b) + BlockLength
         /\ At(b + 1) <= PieceLength
    /\ \A b, d \in Block : b < d => At(b + 1) <= At(d)
    /\ \A b, d \in Block : b = d \/ b < d \/ d < b
<1>1. \A b \in Block : b \in Nat /\ b < BlocksPerPiece
  BY Numbers DEF Block
<1>2. \A b \in Block : At(b + 1) <= PieceLength
  BY <1>1, Positions, Numbers
<1>3. \A b \in Block : b \in Nat /\ At(b) \in Nat /\ At(b + 1) = At(b) + BlockLength
  BY <1>1, Positions
<1>4. \A b, d \in Block : b < d => At(b + 1) <= At(d)
  BY <1>1, Positions
<1>5. \A b, d \in Block : b = d \/ b < d \/ d < b
  BY <1>1
<1> QED BY <1>2, <1>3, <1>4, <1>5

\* The block of a position.
LEMMA DivBlock ==
    ASSUME NEW f \in Nat, NEW b \in Nat
    PROVE  f \div BlockLength <= b <=> f < At(b + 1)
<1> DEFINE q == f \div BlockLength
           r == f % BlockLength
<1>1. q \in Nat /\ r \in Nat /\ r < BlockLength /\ f = BlockLength * q + r
  BY Numbers
<1> HIDE DEF q, r
<1>2. At(q) = BlockLength * q
  BY <1>1, Numbers DEF At
<1>3. At(q) <= f /\ f < At(q + 1)
  BY <1>1, <1>2, Positions, Numbers
<1>4. ASSUME q <= b PROVE f < At(b + 1)
  <2>1. CASE q = b
    BY <1>3, <2>1
  <2>2. CASE q < b
    <3>1. At(q + 1) <= At(b) /\ At(b) \in Nat /\ At(b + 1) = At(b) + BlockLength /\ At(q + 1) \in Nat
      BY <1>1, <2>2, Positions
    <3> QED BY <1>3, <3>1, Numbers
  <2> QED BY <1>1, <1>4, <2>1, <2>2
<1>5. ASSUME b < q PROVE ~(f < At(b + 1))
  <2>1. At(b + 1) <= At(q) /\ At(b + 1) \in Nat /\ At(q) \in Nat
    BY <1>1, <1>5, Positions
  <2> QED BY <1>3, <2>1
<1>6. q <= b <=> f < At(b + 1)
  BY <1>1, <1>4, <1>5
<1> QED BY <1>6 DEF q

\* A position strictly inside a block.
Inside(n, b) == At(b) < n /\ n < At(b + 1)

\* No block has the beginning of another inside, and no two share a position.
LEMMA InsideOne ==
    /\ \A b \in Block, d \in Nat : ~Inside(At(d), b)
    /\ \A b, d \in Block, n \in Nat : Inside(n, b) /\ Inside(n, d) => b = d
<1>1. ASSUME NEW b \in Block, NEW d \in Nat PROVE ~Inside(At(d), b)
  <2>1. b \in Nat /\ (b < d \/ d <= b) /\ At(b) \in Nat /\ At(d) \in Nat
        /\ At(b + 1) = At(b) + BlockLength
    BY BlockPositions, Positions
  <2>2. b < d => At(b + 1) <= At(d)
    BY <2>1, Positions
  <2>3. d <= b => At(d) <= At(b)
    <3>1. CASE d = b
      BY <2>1, <3>1
    <3>2. CASE d < b
      <4>1. At(d + 1) <= At(b) /\ At(d + 1) = At(d) + BlockLength
        BY <2>1, <3>2, Positions
      <4> QED BY <2>1, <4>1, Numbers
    <3> QED BY <2>1, <3>1, <3>2
  <2> QED BY <2>1, <2>2, <2>3, Numbers DEF Inside
<1>2. ASSUME NEW b \in Block, NEW d \in Block, NEW n \in Nat, Inside(n, b), Inside(n, d)
      PROVE  b = d
  <2>1. At(b) \in Nat /\ At(d) \in Nat /\ At(b + 1) \in Nat /\ At(d + 1) \in Nat
    BY BlockPositions, Numbers
  <2>2. b < d => At(b + 1) <= At(d)
    BY BlockPositions
  <2>3. d < b => At(d + 1) <= At(b)
    BY BlockPositions
  <2> QED BY <1>2, <2>1, <2>2, <2>3, BlockPositions DEF Inside
<1> QED BY <1>1, <1>2

\* The offsets of a block are offsets of the piece.
LEMMA BlockOffsets ==
    ASSUME NEW b \in Block PROVE OffsetsOf(b) \in SUBSET Offset
<1>1. /\ b \in Nat /\ At(b) \in Nat /\ At(b + 1) = At(b) + BlockLength
      /\ At(b + 1) <= PieceLength /\ PieceLength \in Nat /\ BlockLength \in Nat
  BY BlockPositions, Numbers
<1>2. OffsetsOf(b) = At(b) .. At(b + 1) - 1
  BY DEF OffsetsOf, At
<1>3. Offset = 0 .. PieceLength - 1
  BY DEF Offset
<1> DEFINE lo == At(b)
           hi == At(b + 1)
<1>4. lo \in Nat /\ hi \in Nat /\ hi <= PieceLength
  BY <1>1
<1>5. OffsetsOf(b) = lo .. hi - 1
  BY <1>2
<1> HIDE DEF lo, hi
<1> QED BY <1>1, <1>3, <1>4, <1>5

\* The blocks a write of n bytes from f on completes.
Passed(f, n) ==
    {b \in Block : f \div BlockLength <= b /\ (b + 1) * BlockLength <= f + n}

(***************************************************************************)
(* The data of a piece and the digest computed while it comes in.  Up to   *)
(* nextBegin the data is what the digest has seen (Prefix), unless peers   *)
(* have written over a block the digest has seen in part: then it cannot   *)
(* go on (Stuck).                                                          *)
(***************************************************************************)
Prefix(s, i) ==
    \/ s.pieces[i].error
    \/ ~s.pieces[i].hashOk
    \/ \A o \in Offset : o < s.pieces[i].nextBegin => Seen(s, i, o) = "good"

Stuck(s, i) == \E b \in s.pieces[i].blocks : Inside(s.pieces[i].nextBegin, b)

DoneBelow(s, i, n) == \A b \in Block : At(b + 1) <= n => b \in s.pieces[i].blocks

\* A piece no stream holds; mm is the memo of the written lengths.
Digested(s, i, mm) ==
    /\ DoneBelow(s, i, s.pieces[i].nextBegin)
    /\ Prefix(s, i) \/ Stuck(s, i)
    /\ \A f \in Block \ s.pieces[i].blocks : Inside(s.pieces[i].nextBegin, f) =>
         i \in DOMAIN mm /\ s.pieces[i].nextBegin <= mm[i] /\ mm[i] < At(f + 1)

\* A piece held by a stream that has written up to w.
Streamed(s, i, w) ==
    /\ DoneBelow(s, i, w)
    /\ s.pieces[i].nextBegin <= w
    /\ Prefix(s, i) \/ (Stuck(s, i) /\ s.pieces[i].nextBegin < w)

\* Offsets are numbers.
LEMMA OffsetIs ==
    \A o \in Offset : o \in Nat /\ o < PieceLength
BY Numbers DEF Offset

(***************************************************************************)
(* The segments of the streams and the peers' requests.                    *)
(***************************************************************************)
SegRec == [index : Piece, written : 0 .. PieceLength]
SegMap == UNION {[D -> SegRec] : D \in SUBSET Stream}
MemoMap == UNION {[D -> 0 .. PieceLength] : D \in SUBSET Piece}
ManSet == [ps : Storage, segs : SegMap, memo : MemoMap, failed : BOOLEAN]

HeldBy(g, w, i) ==
    {c \in DOMAIN g : g[c].index = i} \cup {p \in Peer : i \in w[p].targets}
Asked(w, i) == {b \in Block : \E p \in Peer : <<i, b>> \in w[p].slots}

Books(s, g, w, J) ==
    \A i \in Piece : Booked(s, i, HeldBy(g, w, i), Asked(w, i), J)

\* A map of segments is made.
LEMMA MakeSegs ==
    ASSUME NEW D \in SUBSET Stream, NEW f \in [D -> SegRec]
    PROVE  f \in SegMap /\ DOMAIN f = D
BY DEF SegMap

\* A map of segments is used.
LEMMA UseSegs ==
    ASSUME NEW g \in SegMap
    PROVE  /\ DOMAIN g \in SUBSET Stream /\ g \in [DOMAIN g -> SegRec]
           /\ \A c \in DOMAIN g : /\ c \in Stream /\ g[c] \in SegRec /\ g[c].index \in Piece
                                  /\ g[c].written \in 0 .. PieceLength
<1>1. PICK D \in SUBSET Stream : g \in [D -> SegRec]
  BY DEF SegMap
<1>2. DOMAIN g = D /\ \A c \in D : g[c] \in SegRec
  BY <1>1
<1>3. \A r \in SegRec : r.index \in Piece /\ r.written \in 0 .. PieceLength
  BY DEF SegRec
<1> QED BY <1>1, <1>2, <1>3

\* A memo is made.
LEMMA MakeMemo ==
    ASSUME NEW D \in SUBSET Piece, NEW f \in [D -> 0 .. PieceLength]
    PROVE  f \in MemoMap /\ DOMAIN f = D
BY DEF MemoMap

\* A memo is used.
LEMMA UseMemo ==
    ASSUME NEW f \in MemoMap
    PROVE  /\ DOMAIN f \in SUBSET Piece /\ f \in [DOMAIN f -> 0 .. PieceLength]
           /\ \A i \in DOMAIN f : f[i] \in 0 .. PieceLength
<1>1. PICK D \in SUBSET Piece : f \in [D -> 0 .. PieceLength]
  BY DEF MemoMap
<1> QED BY <1>1

\* The fields of a segment manager.
LEMMA ManFields ==
    ASSUME NEW m \in ManSet
    PROVE  /\ m.ps \in Storage /\ m.segs \in SegMap /\ m.memo \in MemoMap
           /\ m.failed \in BOOLEAN
BY DEF ManSet

\* The storage of a segment manager is replaced.
LEMMA ManStorage ==
    ASSUME NEW m \in ManSet, NEW s \in Storage, NEW f, f = [m EXCEPT !.ps = s]
    PROVE  /\ f \in ManSet /\ f.ps = s /\ f.segs = m.segs /\ f.memo = m.memo
           /\ f.failed = m.failed
BY DEF ManSet

\* Stream c alone holds piece i.
HeldAlone(s, g, w, J, c, i) ==
    /\ c \in Stream /\ i \in Piece /\ i \in DOMAIN s.pieces /\ i \in s.use
    /\ i \notin s.have /\ HeldBy(g, w, i) = {c} /\ Asked(w, i) = {}
    /\ s.pieces[i].users = {c} /\ s.pieces[i].usedBySegment
    /\ i \in J \/ s.pieces[i].blocks # Block
    /\ \A d \in DOMAIN g : d # c => g[d].index # i

\* A stream has its piece for itself.
LEMMA StreamHolds ==
    ASSUME NEW s, NEW g \in SegMap, NEW w, NEW J, Books(s, g, w, J),
           NEW c \in DOMAIN g, NEW i, i = g[c].index
    PROVE  HeldAlone(s, g, w, J, c, i)
<1> DEFINE h == HeldBy(g, w, i)
<1>1. c \in Stream /\ i \in Piece /\ c \notin Peer
  BY UseSegs, TransferAssumption
<1>2. c \in h
  BY DEF HeldBy
<1>3. Booked(s, i, h, Asked(w, i), J)
  BY <1>1 DEF Books
<1>4. \A d \in DOMAIN g : g[d].index = i => d \in h
  BY DEF HeldBy
<1> HIDE DEF h
<1>5. h \cap Stream # {}
  BY <1>1, <1>2
<1>6. i \in s.use /\ s.pieces[i].usedBySegment /\ Single(h) /\ i \in DOMAIN s.pieces
  BY <1>3, <1>5 DEF Booked
<1>7. h = {c}
  BY <1>2, <1>6 DEF Single
<1>8. h \cap Peer = {}
  BY <1>1, <1>7
<1>9. /\ i \notin s.have /\ s.pieces[i].users = h
      /\ i \in J \/ s.pieces[i].blocks # Block
  BY <1>3, <1>6 DEF Booked
<1>10. Asked(w, i) = {}
  BY <1>3, <1>8 DEF Booked
<1>11. \A d \in DOMAIN g : d # c => g[d].index # i
  BY <1>4, <1>7
<1> QED BY <1>1, <1>6, <1>7, <1>9, <1>10, <1>11 DEF h, HeldAlone

\* The books of a storage with the same books.
LEMMA BooksData ==
    ASSUME NEW s, NEW t, NEW g, NEW w, NEW J, Books(s, g, w, J), SameBooks(s, t)
    PROVE  Books(t, g, w, J)
<1>1. ASSUME NEW i \in Piece PROVE Booked(t, i, HeldBy(g, w, i), Asked(w, i), J)
  <2>1. Booked(s, i, HeldBy(g, w, i), Asked(w, i), J)
    BY DEF Books
  <2> QED BY <2>1, BookedData
<1> QED BY <1>1 DEF Books

\* Books in order leave no piece in flight done or complete.
LEMMA BooksWeak ==
    ASSUME NEW s \in Storage, NEW g, NEW w, Books(s, g, w, {})
    PROVE  Weak(s)
<1>1. ASSUME NEW i \in DOMAIN s.pieces PROVE i \notin s.have /\ s.pieces[i].blocks # Block
  <2>1. i \in Piece
    BY StorageFields
  <2>2. Booked(s, i, HeldBy(g, w, i), Asked(w, i), {})
    BY <2>1 DEF Books
  <2> QED BY <2>2 DEF Booked
<1> QED BY <1>1 DEF Weak

\* A write of piece i has failed: the piece is empty.
FailOf(s, t, i) ==
    /\ t \in Storage /\ t.have = s.have /\ DOMAIN t.pieces = DOMAIN s.pieces
    /\ t.pieces[i].blocks = {} /\ t.pieces[i].cells = Nothing
    /\ t.pieces[i].entry
    /\ \A j \in DOMAIN s.pieces : j # i => t.pieces[j] = s.pieces[j]
    /\ \A j \in Piece : j # i => t.disk[j] = s.disk[j]

\* The piece is flushed and emptied.
LEMMA FailOfFlush ==
    ASSUME NEW s \in Storage, NEW i \in DOMAIN s.pieces, NEW u, FlushOf(s, u, {i}),
           u.pieces[i].entry, NEW t, t = clearAllBlock(u, i)
    PROVE  FailOf(s, t, i)
<1> DEFINE I == {i}
<1>1. FlushOf(s, u, I) /\ \A j : j # i => j \notin I
  OBVIOUS
<1> HIDE DEF I
<1>2. /\ u \in Storage /\ SameBooks(s, u)
      /\ \A j \in DOMAIN s.pieces : j \notin I => u.pieces[j] = s.pieces[j]
      /\ \A j \in Piece \ I : u.disk[j] = s.disk[j]
  BY <1>1 DEF FlushOf
<1>3. u.have = s.have /\ DOMAIN u.pieces = DOMAIN s.pieces
  BY <1>2 DEF SameBooks
<1>4. /\ t \in Storage /\ t.have = u.have /\ t.disk = u.disk
      /\ DOMAIN t.pieces = DOMAIN u.pieces
      /\ t.pieces[i].blocks = {} /\ t.pieces[i].cells = Nothing
      /\ t.pieces[i].entry = u.pieces[i].entry
      /\ \A j \in DOMAIN u.pieces : j # i => t.pieces[j] = u.pieces[j]
  <2>1. Emptied(u, t, i)
    BY <1>2, <1>3, ClearAllBlockIs
  <2> QED BY <2>1 DEF Emptied
<1>5. t.pieces[i].entry
  BY <1>4
<1>6. \A j \in DOMAIN s.pieces : j # i => t.pieces[j] = s.pieces[j]
  BY <1>1, <1>2, <1>3, <1>4
<1>7. \A j \in Piece : j # i => t.disk[j] = s.disk[j]
  BY <1>1, <1>2, <1>4
<1> QED BY <1>3, <1>4, <1>5, <1>6, <1>7 DEF FailOf

\* A failed write leaves no complete piece behind, if only that piece was complete.
LEMMA FailWeak ==
    ASSUME NEW s, NEW t, NEW i, FailOf(s, t, i), i \notin s.have,
           \A j \in DOMAIN s.pieces : j # i => j \notin s.have /\ s.pieces[j].blocks # Block
    PROVE  t \in Storage /\ Weak(t)
BY Numbers DEF FailOf, Weak

\* A flush of one piece.
LEMMA FlushOneIs ==
    ASSUME NEW s \in Storage, NEW i \in DOMAIN s.pieces, NEW ok \in Outcomes,
           NEW t, t = flushWrCache(s, i, ok)
    PROVE  /\ FlushOf(s, t, {i}) /\ t \in Storage /\ SameBooks(s, t)
           /\ i \in DOMAIN t.pieces /\ DOMAIN t.pieces = DOMAIN s.pieces
<1> DEFINE I == {i}
<1>1. I \in SUBSET (DOMAIN s.pieces) /\ t = Flushed(s, I, ok)
  BY DEF flushWrCache
<1> HIDE DEF I
<1>2. FlushOf(s, t, I)
  BY <1>1, FlushedIs DEF Outcomes
<1>3. t \in Storage /\ SameBooks(s, t)
  BY <1>2 DEF FlushOf
<1>4. DOMAIN t.pieces = DOMAIN s.pieces
  BY <1>3 DEF SameBooks
<1> QED BY <1>2, <1>3, <1>4 DEF I

\* Piece i has been flushed, or the download has failed.
FlushOutcome(m, f, i) ==
    /\ f \in ManSet /\ f.segs = m.segs /\ f.memo = m.memo
    /\ ~f.failed => FlushOf(m.ps, f.ps, {i}) /\ SameBooks(m.ps, f.ps)
                    /\ ~(f.ps.pieces[i].entry /\ f.ps.pieces[i].error)
    /\ f.failed => FailOf(m.ps, f.ps, i)

\* A flush succeeds or ends the download.
LEMMA FlushOrFailIs ==
    ASSUME NEW m \in ManSet, NEW i \in DOMAIN m.ps.pieces, NEW ok \in Outcomes, ~m.failed,
           NEW f, f = FlushOrFail(m, i, ok)
    PROVE  FlushOutcome(m, f, i)
<1> DEFINE s == flushWrCache(m.ps, i, ok)
           u == clearAllBlock(s, i)
<1>1. m.ps \in Storage /\ m.segs \in SegMap /\ m.memo \in MemoMap
  BY ManFields
<1>2. FlushOf(m.ps, s, {i}) /\ s \in Storage /\ SameBooks(m.ps, s) /\ i \in DOMAIN s.pieces
  BY <1>1, FlushOneIs
<1>3. u \in Storage
  <2>1. Emptied(s, u, i)
    BY <1>2, ClearAllBlockIs
  <2> QED BY <2>1 DEF Emptied
<1>4. s.pieces[i].entry => FailOf(m.ps, u, i)
  BY <1>1, <1>2, FailOfFlush
<1>5. \/ /\ s.pieces[i].entry /\ s.pieces[i].error
         /\ f = [m EXCEPT !.ps = u, !.failed = TRUE]
      \/ /\ ~(s.pieces[i].entry /\ s.pieces[i].error)
         /\ f = [m EXCEPT !.ps = s]
  BY DEF FlushOrFail
<1> HIDE DEF s, u
<1>6. CASE s.pieces[i].entry /\ s.pieces[i].error /\ f = [m EXCEPT !.ps = u, !.failed = TRUE]
  <2>1. f \in ManSet /\ f.ps = u /\ f.segs = m.segs /\ f.memo = m.memo /\ f.failed = TRUE
    BY <1>3, <1>6 DEF ManSet
  <2> QED BY <1>4, <1>6, <2>1 DEF FlushOutcome
<1>7. CASE ~(s.pieces[i].entry /\ s.pieces[i].error) /\ f = [m EXCEPT !.ps = s]
  <2>1. f \in ManSet /\ f.ps = s /\ f.segs = m.segs /\ f.memo = m.memo /\ f.failed = m.failed
    BY <1>2, <1>7, ManStorage
  <2>2. f.failed = FALSE
    BY <2>1, ManFields
  <2> QED BY <1>2, <1>7, <2>1, <2>2 DEF FlushOutcome
<1> QED BY <1>5, <1>6, <1>7

\* The first missing block of a piece.
LEMMA FirstMissingIs ==
    ASSUME NEW s \in Storage, NEW i \in DOMAIN s.pieces, s.pieces[i].blocks # Block,
           NEW b, b = FirstMissing(s, i)
    PROVE  /\ b \in Block /\ b \notin s.pieces[i].blocks
           /\ \A d \in Block : d \notin s.pieces[i].blocks => b <= d
<1> DEFINE S == MissingBlocks(s, i)
<1>1. \A d : d \in S <=> d \in Block /\ d \notin s.pieces[i].blocks
  BY DEF MissingBlocks, hasBlock
<1>2. s.pieces[i].blocks \in SUBSET Block
  BY StorageFields, Fields
<1>3. b = CHOOSE x \in S : \A d \in S : x <= d
  BY DEF FirstMissing
<1> HIDE DEF S
<1>4. S \in SUBSET Nat /\ S # {}
  BY <1>1, <1>2, BlockPositions
<1>5. \E x \in S : \A d \in S : x <= d
  BY <1>4, LeastNumber
<1>6. b \in S /\ \A d \in S : b <= d
  BY <1>3, <1>5
<1> QED BY <1>1, <1>6

\* The length a new segment starts with is within the first missing block.
LEMMA BelievedLengthIs ==
    ASSUME NEW m \in ManSet, NEW i \in DOMAIN m.ps.pieces, m.ps.pieces[i].blocks # Block,
           NEW b, b = FirstMissing(m.ps, i), NEW n, n = BelievedLength(m, i)
    PROVE  /\ b \in Block /\ n \in 0 .. PieceLength
           /\ n = At(b) \/ (i \in DOMAIN m.memo /\ n = m.memo[i] /\ Inside(n, b))
           /\ i \in DOMAIN m.memo /\ Inside(m.memo[i], b) => n = m.memo[i]
<1>1. m.ps \in Storage /\ m.memo \in MemoMap
  BY ManFields
<1>2. b \in Block
  BY <1>1, FirstMissingIs
<1>3. /\ At(b) \in Nat /\ At(b + 1) = At(b) + BlockLength /\ At(b + 1) <= PieceLength
  BY <1>2, BlockPositions
<1>4. i \in DOMAIN m.memo => m.memo[i] \in 0 .. PieceLength
  BY <1>1, UseMemo
<1>5. n = IF i \in DOMAIN m.memo /\ At(b) < m.memo[i] /\ m.memo[i] - At(b) < BlockLength
          THEN m.memo[i] ELSE At(b)
  BY DEF BelievedLength, At
<1> QED BY <1>2, <1>3, <1>4, <1>5, Numbers DEF Inside

\* Segment r has been added for c.
SegmentAdded(g, k, c, r) ==
    /\ k \in SegMap /\ DOMAIN k = (DOMAIN g) \cup {c} /\ k[c] = r
    /\ \A d \in DOMAIN g : k[d] = g[d]
    /\ \A w : HeldBy(k, w, r.index) = HeldBy(g, w, r.index) \cup {c}
    /\ \A w, i : i # r.index => HeldBy(k, w, i) = HeldBy(g, w, i)

\* A segment is added for c, which has none.
LEMMA AddSegment ==
    ASSUME NEW g \in SegMap, NEW c \in Stream, c \notin DOMAIN g, NEW r \in SegRec,
           NEW k, k = [d \in (DOMAIN g) \cup {c} |-> IF d = c THEN r ELSE g[d]]
    PROVE  SegmentAdded(g, k, c, r)
<1>1. DOMAIN g \in SUBSET Stream /\ \A d \in DOMAIN g : g[d] \in SegRec
  BY UseSegs
<1>2. DOMAIN k = (DOMAIN g) \cup {c} /\ k[c] = r /\ \A d \in DOMAIN g : k[d] = g[d]
  OBVIOUS
<1>3. k \in [(DOMAIN g) \cup {c} -> SegRec]
  BY <1>1, <1>2
<1>4. k \in SegMap
  BY <1>1, <1>3, MakeSegs
<1>5. ASSUME NEW w PROVE HeldBy(k, w, r.index) = HeldBy(g, w, r.index) \cup {c}
  BY <1>2 DEF HeldBy
<1>6. ASSUME NEW w, NEW i, i # r.index PROVE HeldBy(k, w, i) = HeldBy(g, w, i)
  BY <1>2, <1>6 DEF HeldBy
<1> QED BY <1>2, <1>4, <1>5, <1>6 DEF SegmentAdded

\* Segments are taken away.
LEMMA DropSegments ==
    ASSUME NEW g \in SegMap, NEW D, NEW k, k = [c \in (DOMAIN g) \ D |-> g[c]]
    PROVE  /\ k \in SegMap /\ DOMAIN k = (DOMAIN g) \ D
           /\ \A d \in DOMAIN k : k[d] = g[d]
           /\ \A w, i : D \in SUBSET Stream => HeldBy(k, w, i) = HeldBy(g, w, i) \ D
<1>1. DOMAIN g \in SUBSET Stream /\ \A d \in DOMAIN g : g[d] \in SegRec
  BY UseSegs
<1>2. DOMAIN k = (DOMAIN g) \ D /\ \A d \in DOMAIN k : k[d] = g[d]
  OBVIOUS
<1>3. k \in [(DOMAIN g) \ D -> SegRec]
  BY <1>1
<1>4. k \in SegMap
  BY <1>1, <1>3, MakeSegs
<1>5. ASSUME NEW w, NEW i, D \in SUBSET Stream
      PROVE  HeldBy(k, w, i) = HeldBy(g, w, i) \ D
  <2>1. D \cap Peer = {}
    BY <1>5, TransferAssumption
  <2> QED BY <1>2, <2>1 DEF HeldBy
<1> QED BY <1>2, <1>4, <1>5

MemoAfter(m, D, I) ==
    [i \in (DOMAIN m.memo) \cup I |->
       IF i \in I THEN m.segs[CHOOSE c \in D : m.segs[c].index = i].written
       ELSE m.memo[i]]

\* I are the pieces of the segments of D.
PiecesOf(m, D, I) == \A i : i \in I <=> \E c \in D : m.segs[c].index = i

\* The memo remembers the segments of D.
Remembered(m, k, D, I) ==
    /\ k \in MemoMap /\ I \in SUBSET Piece
    /\ DOMAIN k = (DOMAIN m.memo) \cup I
    /\ \A i \in I : \E c \in D : m.segs[c].index = i /\ k[i] = m.segs[c].written
    /\ \A i \in (DOMAIN m.memo) \ I : k[i] = m.memo[i]

\* The written lengths of given-back segments go to the memo.
LEMMA MemoIs ==
    ASSUME NEW m \in ManSet, NEW D \in SUBSET (DOMAIN m.segs), NEW I,
           PiecesOf(m, D, I),
           NEW k, k = MemoAfter(m, D, I)
    PROVE  Remembered(m, k, D, I)
<1>1. m.segs \in SegMap /\ m.memo \in MemoMap
  BY ManFields
<1>2. \A c \in D : m.segs[c].index \in Piece /\ m.segs[c].written \in 0 .. PieceLength
  BY <1>1, UseSegs
<1>3. DOMAIN m.memo \in SUBSET Piece /\ \A i \in DOMAIN m.memo : m.memo[i] \in 0 .. PieceLength
  BY <1>1, UseMemo
<1>4. I \in SUBSET Piece
  BY <1>2 DEF PiecesOf
<1>5. ASSUME NEW i \in I
      PROVE  \E c \in D : m.segs[c].index = i /\ k[i] = m.segs[c].written
  <2> DEFINE c == CHOOSE x \in D : m.segs[x].index = i
  <2>1. c \in D /\ m.segs[c].index = i
    BY <1>5 DEF PiecesOf
  <2>2. k[i] = m.segs[c].written
    BY DEF MemoAfter
  <2> HIDE DEF c
  <2> QED BY <2>1, <2>2
<1>6. \A i \in (DOMAIN m.memo) \ I : k[i] = m.memo[i]
  BY DEF MemoAfter
<1>7. DOMAIN k = (DOMAIN m.memo) \cup I /\ k = [i \in DOMAIN k |-> k[i]]
  BY DEF MemoAfter
<1>8. \A i \in DOMAIN k : k[i] \in 0 .. PieceLength
  BY <1>2, <1>3, <1>5, <1>6, <1>7
<1>9. k \in [DOMAIN k -> 0 .. PieceLength] /\ DOMAIN k \in SUBSET Piece
  BY <1>3, <1>4, <1>7, <1>8
<1>10. k \in MemoMap
  BY <1>9, MakeMemo
<1> QED BY <1>4, <1>5, <1>6, <1>7, <1>10 DEF Remembered

(***************************************************************************)
(* The data of the pieces.  What is known of it depends on the servers, on *)
(* the hashes and on failed writes that a restart has forgotten.           *)
(***************************************************************************)
\* Nobody sends wrong data.
Honest == ~P2P /\ BadStream = {}

\* No write has failed, or the process that saw it fail is still running.
Trusted(s) == s.failures = 0 \/ starts = 0

\* The pieces that are done are known to be right: their hashes have been
\* checked, or nobody sends wrong data and no failed write is forgotten.
Sure(s) == (HashKnown /\ (P2P \/ starts = 0)) \/ (Honest /\ Trusted(s))

\* Only pieces with a cache entry have data in the cache.
Tidy(s) == \A i \in DOMAIN s.pieces : s.pieces[i].entry \/ s.pieces[i].cells = Nothing

\* Errors are errors of cache entries, and have been counted.
Faults(s) ==
    \A i \in DOMAIN s.pieces : s.pieces[i].error => s.pieces[i].entry /\ s.failures # 0

\* With honest servers there is no wrong byte.
NoBad(s) ==
    Honest => /\ \A i \in Piece : \A o \in Offset : s.disk[i][o] # "bad"
              /\ \A i \in DOMAIN s.pieces : \A o \in Offset : s.pieces[i].cells[o] # "bad"

Clean(s) == Tidy(s) /\ Faults(s) /\ NoBad(s)

\* The blocks that have come are in the file or in the cache.
PieceThere(s, i) ==
    s.pieces[i].error \/
      \A b \in s.pieces[i].blocks : \A o \in OffsetsOf(b) : Seen(s, i, o) # "none"

There(s) == Trusted(s) => \A i \in DOMAIN s.pieces : PieceThere(s, i)

\* The pieces that are done are right.
Good(s) == Sure(s) => \A i \in s.have : \A o \in Offset : s.disk[i][o] = "good"

\* Without peers the blocks of a piece come in order.
DownTo(B) == \A b \in B : \A d \in Block : d < b => d \in B
InSequence(s) == Peer = {} => \A i \in DOMAIN s.pieces : DownTo(s.pieces[i].blocks)

\* What is written stays written, and failures are not forgotten.
Later(s, t) ==
    /\ t.failures = 0 => s.failures = 0
    /\ \A i \in Piece : \A o \in Offset : s.disk[i][o] # "none" => t.disk[i][o] # "none"

\* Since the beginning of the step.
Grown(s) == Later(ps, s) /\ (P2P => ps.have \subseteq s.have)

Sound(s) ==
    /\ Clean(s) /\ There(s) /\ Good(s) /\ (s.endGame => P2P) /\ Grown(s)
    /\ InSequence(s)

\* Piece i has its blocks, its data and its digest still.
Same(s, t, i) ==
    /\ i \in DOMAIN s.pieces /\ t.pieces[i].blocks = s.pieces[i].blocks
    /\ SameHash(s.pieces[i], t.pieces[i])
    /\ s.pieces[i].error => t.pieces[i].error
    /\ t.pieces[i].error \/ \A o \in Offset : Seen(t, i, o) = Seen(s, i, o)

\* Piece i has no blocks and no digest.
Fresh(t, i) == t.pieces[i].blocks = {} /\ t.pieces[i].nextBegin = 0

\* A change that writes no new data and completes no piece.
Calm(s, t) ==
    /\ t \in Storage /\ t.have = s.have /\ t.endGame = s.endGame
    /\ Later(s, t)
    /\ \A i \in Piece \ DOMAIN s.pieces : t.disk[i] = s.disk[i]
    /\ Clean(s) => Clean(t)
    /\ \A i \in DOMAIN t.pieces : Same(s, t, i) \/ t.pieces[i].blocks = {}

\* It keeps the digests, too.
Steady(s, t) == \A i \in DOMAIN t.pieces : Same(s, t, i) \/ Fresh(t, i)

\* No piece in flight is done.
Apart(s) == \A i \in DOMAIN s.pieces : i \notin s.have

\* A later storage is not trusted unless the earlier one was.
LEMMA LaterTrusted ==
    ASSUME NEW s, NEW t, Later(s, t)
    PROVE  (Trusted(t) => Trusted(s)) /\ (Sure(t) => Sure(s))
BY DEF Later, Trusted, Sure

\* Later is transitive.
LEMMA LaterGrown ==
    ASSUME NEW s, NEW t, Later(s, t), P2P => s.have \subseteq t.have, Grown(s)
    PROVE  Grown(t)
<1>1. P2P => ps.have \subseteq t.have
  BY DEF Grown
<1>2. Later(ps, t)
  BY DEF Grown, Later
<1> QED BY <1>1, <1>2 DEF Grown

\* A block of a piece that has its data still is there still.
LEMMA SameThere ==
    ASSUME NEW s, NEW t, NEW i, t.pieces[i] \in Rec, Same(s, t, i), PieceThere(s, i)
    PROVE  PieceThere(t, i)
<1>1. \A b \in t.pieces[i].blocks : OffsetsOf(b) \subseteq Offset
  BY Fields, BlockOffsets
<1> QED BY <1>1 DEF Same, PieceThere

\* Blocks stay in sequence.
LEMMA CalmInSequence ==
    ASSUME NEW s, NEW t, Calm(s, t), InSequence(s)
    PROVE  InSequence(t)
BY DEF Calm, Same, InSequence, DownTo

\* A calm change keeps what is known of the data.
LEMMA CalmSound ==
    ASSUME NEW s \in Storage, NEW t, Calm(s, t), Apart(s), Sound(s)
    PROVE  Sound(t)
<1>1. Clean(t) /\ t.endGame = s.endGame /\ t \in Storage /\ Later(s, t)
  BY DEF Calm, Sound
<1>2. Grown(t)
  BY <1>1, LaterGrown DEF Calm, Sound
<1>3. There(t)
  <2>1. SUFFICES ASSUME Trusted(t), NEW i \in DOMAIN t.pieces PROVE PieceThere(t, i)
    BY DEF There
  <2>2. CASE Same(s, t, i)
    <3>1. PieceThere(s, i)
      BY <1>1, <2>1, <2>2, LaterTrusted DEF Sound, There, Same
    <3>2. t.pieces[i] \in Rec
      BY <1>1, StorageFields
    <3> QED BY <2>2, <3>1, <3>2, SameThere
  <2>3. CASE t.pieces[i].blocks = {}
    BY <2>3 DEF PieceThere
  <2> QED BY <2>2, <2>3 DEF Calm
<1>4. Good(t)
  <2>1. SUFFICES ASSUME Sure(t), NEW i \in t.have, NEW o \in Offset PROVE t.disk[i][o] = "good"
    BY DEF Good
  <2>2. i \in s.have /\ i \in Piece /\ i \notin DOMAIN s.pieces
    BY StorageFields DEF Calm, Apart
  <2>3. t.disk[i] = s.disk[i]
    BY <2>2 DEF Calm
  <2> QED BY <1>1, <2>1, <2>2, <2>3, LaterTrusted DEF Sound, Good
<1>5. InSequence(t)
  BY CalmInSequence DEF Sound
<1> QED BY <1>1, <1>2, <1>3, <1>4, <1>5 DEF Sound

\* A piece with the same blocks whose data has been kept.
LEMMA KeptSame ==
    ASSUME NEW s, NEW t, NEW i \in DOMAIN s.pieces, Kept(s, t, i),
           t.pieces[i].blocks = s.pieces[i].blocks
    PROVE  Same(s, t, i)
BY DEF Kept, Same

\* The bytes of a flush come from the file and the cache.
LEMMA FlushedBytes ==
    ASSUME NEW s \in Storage, NEW I \in SUBSET (DOMAIN s.pieces), NEW ok \in BOOLEAN,
           NEW t, t = Flushed(s, I, ok)
    PROVE  (NoBad(s) => NoBad(t)) /\ (t.failures = 0 => s.failures = 0)
<1> DEFINE W == {i \in I : s.pieces[i].entry /\ Cached(s.pieces[i]) # {}}
           d == [i \in Piece |-> IF i \in W /\ ok THEN Overlay(s.disk[i], s.pieces[i].cells)
                                 ELSE s.disk[i]]
           n == IF W # {} /\ ~ok THEN OneMore(s.failures) ELSE s.failures
<1>1. t.disk = d /\ t.failures = n
  BY DEF Flushed, Storage
<1>2. n = 0 => s.failures = 0
  <2>1. s.failures \in Nat
    BY StorageFields, Numbers
  <2> QED BY <2>1 DEF OneMore
<1>3. FlushOf(s, t, I)
  BY FlushedIs
<1>4. ASSUME NoBad(s), Honest, NEW i \in Piece, NEW o \in Offset PROVE d[i][o] # "bad"
  <2>1. s.disk[i][o] # "bad"
    BY <1>4 DEF NoBad
  <2>2. CASE i \in W /\ ok
    <3>1. s.pieces[i].cells[o] # "bad"
      BY <1>4, <2>2 DEF NoBad
    <3>2. d[i] = Overlay(s.disk[i], s.pieces[i].cells)
      BY <2>2
    <3>3. d[i][o] = IF s.pieces[i].cells[o] = "none" THEN s.disk[i][o] ELSE s.pieces[i].cells[o]
      BY <3>2 DEF Overlay
    <3> QED BY <2>1, <3>1, <3>3
  <2>3. CASE ~(i \in W /\ ok)
    BY <2>1, <2>3
  <2> QED BY <2>2, <2>3
<1> HIDE DEF d, n
<1>5. ASSUME NoBad(s), Honest, NEW i \in DOMAIN t.pieces, NEW o \in Offset
      PROVE  t.pieces[i].cells[o] # "bad"
  <2>1. i \in DOMAIN s.pieces /\ s.pieces[i].cells[o] # "bad"
    BY <1>3, <1>5 DEF FlushOf, SameBooks, NoBad
  <2>2. t.pieces[i] = s.pieces[i] \/ t.pieces[i].cells = Nothing
    BY <1>3, <2>1 DEF FlushOf, Kept
  <2>3. Nothing[o] # "bad"
    BY DEF Nothing
  <2> QED BY <2>1, <2>2, <2>3
<1>6. NoBad(s) => NoBad(t)
  BY <1>1, <1>4, <1>5 DEF NoBad
<1> QED BY <1>1, <1>2, <1>6

\* A flush writes no new data.
LEMMA FlushCalm ==
    ASSUME NEW s \in Storage, NEW I \in SUBSET (DOMAIN s.pieces), NEW ok \in Outcomes,
           NEW t, t = Flushed(s, I, ok)
    PROVE  Calm(s, t) /\ Steady(s, t) /\ \A i \in DOMAIN s.pieces : Same(s, t, i)
<1>1. ok \in BOOLEAN /\ (ok \/ MaxDiskFailures > 0)
  BY DEF Outcomes
<1>2. FlushOf(s, t, I) /\ Counted(s, t)
  BY <1>1, FlushedIs
<1>3. (NoBad(s) => NoBad(t)) /\ (t.failures = 0 => s.failures = 0)
  BY <1>1, FlushedBytes
<1>4. Later(s, t)
  BY <1>2, <1>3 DEF Later, FlushOf
<1>5. DOMAIN t.pieces = DOMAIN s.pieces /\ \A i \in DOMAIN s.pieces : Same(s, t, i)
  BY <1>2, KeptSame DEF FlushOf, SameBooks, SameUse
<1>6. Tidy(s) => Tidy(t)
  BY <1>2 DEF Tidy, FlushOf, SameBooks, SameUse, Kept
<1>7. ASSUME Faults(s), NEW i \in DOMAIN t.pieces, t.pieces[i].error
      PROVE  t.pieces[i].entry /\ t.failures # 0
  <2>1. i \in DOMAIN s.pieces /\ t.pieces[i].entry = s.pieces[i].entry
    BY <1>2, <1>5 DEF FlushOf, SameBooks, SameUse
  <2>2. s.pieces[i].entry \/ t.pieces[i] = s.pieces[i]
    BY <1>2, <2>1 DEF FlushOf, Kept
  <2>3. s.pieces[i].entry
    BY <1>7, <2>1, <2>2 DEF Faults
  <2>4. ASSUME t.failures = 0 PROVE FALSE
    <3>1. s.pieces[i].error
      BY <1>2, <1>7, <2>1, <2>4 DEF Counted
    <3> QED BY <1>3, <1>7, <2>1, <2>4, <3>1 DEF Faults
  <2>5. s.pieces[i] \in Rec /\ t.pieces[i] \in Rec
    BY <1>2, <1>7, <2>1, StorageFields DEF FlushOf
  <2> QED BY <2>1, <2>3, <2>4
<1>8. Faults(s) => Faults(t)
  BY <1>7 DEF Faults
<1>9. t \in Storage /\ t.have = s.have /\ t.endGame = s.endGame
  BY <1>2 DEF FlushOf, SameBooks
<1>10. \A i \in Piece \ DOMAIN s.pieces : t.disk[i] = s.disk[i]
  BY <1>2 DEF FlushOf
<1>11. Clean(s) => Clean(t)
  BY <1>3, <1>6, <1>8 DEF Clean
<1>12. Steady(s, t)
  BY <1>5 DEF Steady
<1>13. Calm(s, t)
  BY <1>4, <1>5, <1>9, <1>10, <1>11 DEF Calm
<1> QED BY <1>5, <1>12, <1>13

\* Piece i has its blocks and its data, in the same places.
Carried(s, t, i) ==
    /\ i \in DOMAIN s.pieces /\ t.pieces[i].blocks = s.pieces[i].blocks
    /\ t.pieces[i].cells = s.pieces[i].cells /\ t.pieces[i].error = s.pieces[i].error
    /\ s.pieces[i].entry => t.pieces[i].entry
    /\ SameHash(s.pieces[i], t.pieces[i])

\* Piece i has no blocks and nothing in the cache.
Blank(s, t, i) ==
    /\ t.pieces[i].blocks = {} /\ t.pieces[i].cells = Nothing
    /\ t.pieces[i].error => /\ i \in DOMAIN s.pieces /\ s.pieces[i].error
                            /\ s.pieces[i].entry => t.pieces[i].entry

\* The file is the same, and every piece in flight is as it was or empty.
Quiet(s, t) ==
    /\ t \in Storage /\ t.have = s.have /\ t.endGame = s.endGame /\ t.disk = s.disk
    /\ t.failures = s.failures
    /\ \A i \in DOMAIN t.pieces : Carried(s, t, i) \/ Blank(s, t, i)

\* A piece with its data in the same places has its data still.
LEMMA CarriedSame ==
    ASSUME NEW s, NEW t, NEW i, Carried(s, t, i), t.disk = s.disk
    PROVE  Same(s, t, i)
BY DEF Carried, Same, Seen

\* A change of the books writes no new data.
LEMMA QuietCalm ==
    ASSUME NEW s \in Storage, NEW t, Quiet(s, t)
    PROVE  /\ Calm(s, t)
           /\ \A i \in DOMAIN t.pieces : Carried(s, t, i) => Same(s, t, i)
<1>1. /\ t \in Storage /\ t.have = s.have /\ t.endGame = s.endGame /\ t.disk = s.disk
      /\ t.failures = s.failures
      /\ \A i \in DOMAIN t.pieces : Carried(s, t, i) \/ Blank(s, t, i)
  BY DEF Quiet
<1>2. Later(s, t)
  BY <1>1 DEF Later
<1>3. \A i \in DOMAIN t.pieces : Carried(s, t, i) => Same(s, t, i)
  BY <1>1, CarriedSame
<1>4. ASSUME Tidy(s), NEW i \in DOMAIN t.pieces
      PROVE  t.pieces[i].entry \/ t.pieces[i].cells = Nothing
  BY <1>1, <1>4 DEF Tidy, Carried, Blank
<1>5. ASSUME Faults(s), NEW i \in DOMAIN t.pieces, t.pieces[i].error
      PROVE  t.pieces[i].entry /\ t.failures # 0
  <2>1. i \in DOMAIN s.pieces /\ s.pieces[i].error /\ (s.pieces[i].entry => t.pieces[i].entry)
    BY <1>1, <1>5 DEF Carried, Blank
  <2> QED BY <1>1, <1>5, <2>1 DEF Faults
<1>6. ASSUME NoBad(s), Honest, NEW i \in DOMAIN t.pieces, NEW o \in Offset
      PROVE  t.pieces[i].cells[o] # "bad"
  <2>1. Nothing[o] # "bad"
    BY DEF Nothing
  <2>2. CASE Carried(s, t, i)
    BY <1>6, <2>2 DEF Carried, NoBad
  <2>3. CASE Blank(s, t, i)
    BY <2>1, <2>3 DEF Blank
  <2> QED BY <1>1, <2>2, <2>3
<1>7. NoBad(s) => NoBad(t)
  BY <1>1, <1>6 DEF NoBad
<1>8. Clean(s) => Clean(t)
  BY <1>4, <1>5, <1>7 DEF Clean, Tidy, Faults
<1>9. \A i \in DOMAIN t.pieces : Same(s, t, i) \/ t.pieces[i].blocks = {}
  BY <1>1, <1>3 DEF Blank
<1>10. Calm(s, t)
  BY <1>1, <1>2, <1>8, <1>9 DEF Calm
<1> QED BY <1>3, <1>10

\* The pieces of a change that only concerns use bits, users or marks.
AllCarried(s, t) ==
    /\ t \in Storage /\ t.have = s.have /\ t.endGame = s.endGame /\ t.disk = s.disk
    /\ t.failures = s.failures
    /\ \A i \in DOMAIN t.pieces : Carried(s, t, i)

\* Such a change keeps all data and all digests of the pieces that stay.
LEMMA CarriedCalm ==
    ASSUME NEW s \in Storage, NEW t, AllCarried(s, t)
    PROVE  /\ Calm(s, t) /\ Steady(s, t) /\ \A i \in DOMAIN t.pieces : Same(s, t, i)
<1>1. Quiet(s, t) /\ \A i \in DOMAIN t.pieces : Carried(s, t, i)
  BY DEF AllCarried, Quiet
<1> QED BY <1>1, QuietCalm DEF Steady

\* Segments take pieces or give them back.
LEMMA MarkedCarried ==
    ASSUME NEW s \in Storage, NEW t, NEW I, Marked(s, t, I)
    PROVE  AllCarried(s, t)
BY DEF Marked, AllCarried, Carried, SameData

\* Requests are made.
LEMMA UseBlocksCarried ==
    ASSUME NEW s \in Storage, NEW X, NEW t, t = useBlocks(s, X)
    PROVE  AllCarried(s, t) /\ DOMAIN t.pieces = DOMAIN s.pieces
<1>1. /\ t \in Storage /\ t.have = s.have /\ t.use = s.use /\ t.endGame = s.endGame
      /\ t.disk = s.disk /\ t.failures = s.failures
      /\ DOMAIN t.pieces = DOMAIN s.pieces
      /\ \A i \in DOMAIN s.pieces :
           /\ t.pieces[i].blocks = s.pieces[i].blocks
           /\ SameData(s.pieces[i], t.pieces[i])
  BY UseBlocksIs
<1> QED BY <1>1 DEF AllCarried, Carried, SameData

\* Requests are given up.
LEMMA CancelBlocksCarried ==
    ASSUME NEW s \in Storage, NEW X, NEW t, t = cancelBlocks(s, X)
    PROVE  AllCarried(s, t) /\ DOMAIN t.pieces = DOMAIN s.pieces
<1>1. /\ t \in Storage /\ t.have = s.have /\ t.use = s.use /\ t.endGame = s.endGame
      /\ t.disk = s.disk /\ t.failures = s.failures
      /\ DOMAIN t.pieces = DOMAIN s.pieces
      /\ \A i \in DOMAIN s.pieces :
           /\ t.pieces[i].blocks = s.pieces[i].blocks
           /\ SameData(s.pieces[i], t.pieces[i])
  BY CancelBlocksIs
<1> QED BY <1>1 DEF AllCarried, Carried, SameData

\* Pieces are given back.
LEMMA GivenBackCarried ==
    ASSUME NEW s \in Storage, NEW t, NEW I, NEW C, GivenBack(s, t, I, C)
    PROVE  AllCarried(s, t) /\ \A i \in DOMAIN s.pieces : i \notin I => i \in DOMAIN t.pieces
BY DEF GivenBack, AllCarried, Carried, SameData

\* Pieces are handed out.
LEMMA HandedOutCalm ==
    ASSUME NEW s \in Storage, NEW t, NEW I, NEW c, HandedOut(s, t, I, c)
    PROVE  /\ Calm(s, t) /\ Steady(s, t) /\ \A i \in DOMAIN s.pieces : Same(s, t, i)
<1>1. ASSUME NEW i \in DOMAIN s.pieces PROVE Carried(s, t, i)
  BY DEF HandedOut, Carried
<1>2. ASSUME NEW i \in DOMAIN t.pieces, i \notin DOMAIN s.pieces PROVE Blank(s, t, i) /\ Fresh(t, i)
  BY <1>2 DEF HandedOut, Blank, Fresh
<1>3. Quiet(s, t) /\ \A i \in DOMAIN s.pieces : i \in DOMAIN t.pieces
  BY <1>1, <1>2 DEF HandedOut, Quiet
<1>4. Calm(s, t) /\ \A i \in DOMAIN s.pieces : Same(s, t, i)
  BY <1>1, <1>3, QuietCalm
<1> QED BY <1>2, <1>4 DEF Steady

\* A piece is emptied.
LEMMA EmptiedCalm ==
    ASSUME NEW s \in Storage, NEW t, NEW i \in DOMAIN s.pieces, Emptied(s, t, i)
    PROVE  Calm(s, t)
<1>1. ASSUME NEW j \in DOMAIN s.pieces, j # i PROVE Carried(s, t, j)
  BY <1>1 DEF Emptied, Carried, SameHash
<1>2. Blank(s, t, i)
  BY DEF Emptied, Blank
<1>3. Quiet(s, t)
  BY <1>1, <1>2 DEF Emptied, Quiet
<1> QED BY <1>3, QuietCalm

\* A piece is emptied and its digest thrown away.
LEMMA ClearedCalm ==
    ASSUME NEW s \in Storage, NEW u, NEW t, NEW i \in DOMAIN s.pieces, Emptied(s, u, i),
           HashGone(u, t, i)
    PROVE  /\ Calm(s, t) /\ Steady(s, t) /\ Fresh(t, i)
           /\ \A j \in DOMAIN s.pieces : j # i => Same(s, t, j)
<1>1. ASSUME NEW j \in DOMAIN s.pieces, j # i PROVE Carried(s, t, j)
  BY <1>1 DEF Emptied, HashGone, Carried, SameHash
<1>2. Blank(s, t, i) /\ Fresh(t, i)
  BY DEF Emptied, HashGone, SameBooks, SameUse, Blank, Fresh
<1>3. Quiet(s, t) /\ DOMAIN t.pieces = DOMAIN s.pieces
  BY <1>1, <1>2 DEF Emptied, HashGone, SameBooks, Quiet
<1>4. Calm(s, t) /\ \A j \in DOMAIN s.pieces : j # i => Same(s, t, j)
  BY <1>1, <1>3, QuietCalm
<1> QED BY <1>2, <1>3, <1>4 DEF Steady

(***************************************************************************)
(* What the segments and the memo say of the data while the download runs. *)
(***************************************************************************)
\* The memo counts what is in the file.
MemoThere(s, mm) ==
    Trusted(s) => \A i \in DOMAIN mm : \A o \in Offset : o < mm[i] => s.disk[i][o] # "none"

\* Up to position n piece i is in the file or in the cache.
WrittenTo(s, i, n) ==
    s.pieces[i].error \/ \A o \in Offset : o < n => Seen(s, i, o) # "none"

SegsThere(s, g) ==
    Trusted(s) => \A c \in DOMAIN g : WrittenTo(s, g[c].index, g[c].written)

HeldIn(g, i) == \E c \in DOMAIN g : g[c].index = i

\* The digests are those of the data, outside end game.
Digests(s, g, mm) ==
    ~s.endGame =>
      /\ \A i \in DOMAIN s.pieces : HeldIn(g, i) \/ Digested(s, i, mm)
      /\ \A c \in DOMAIN g : Streamed(s, g[c].index, g[c].written)

\* A segment has the blocks it has passed.
PassedBlocks(s, i, n) == \A b \in Block : b \in s.pieces[i].blocks <=> At(b + 1) <= n

Ordered(s, g) == Peer = {} => \A c \in DOMAIN g : PassedBlocks(s, g[c].index, g[c].written)

Tracked(s, g, mm) ==
    MemoThere(s, mm) /\ SegsThere(s, g) /\ Digests(s, g, mm) /\ Ordered(s, g)

\* A piece that has its data still is digested as before.
LEMMA SameDigested ==
    ASSUME NEW s, NEW t, NEW i, NEW mm, Same(s, t, i), Digested(s, i, mm)
    PROVE  Digested(t, i, mm)
<1>1. DoneBelow(t, i, t.pieces[i].nextBegin)
  BY DEF Same, SameHash, Digested, DoneBelow
<1>2. Prefix(s, i) => Prefix(t, i)
  BY DEF Same, SameHash, Prefix
<1>3. Stuck(s, i) => Stuck(t, i)
  BY DEF Same, SameHash, Stuck
<1> QED BY <1>1, <1>2, <1>3 DEF Same, SameHash, Digested

\* The same of a piece a stream holds.
LEMMA SameStreamed ==
    ASSUME NEW s, NEW t, NEW i, NEW n, Same(s, t, i), Streamed(s, i, n)
    PROVE  Streamed(t, i, n)
<1>1. DoneBelow(t, i, n) /\ t.pieces[i].nextBegin <= n
  BY DEF Same, SameHash, Streamed, DoneBelow
<1>2. Prefix(s, i) => Prefix(t, i)
  BY DEF Same, SameHash, Prefix
<1>3. Stuck(s, i) => Stuck(t, i)
  BY DEF Same, SameHash, Stuck
<1> QED BY <1>1, <1>2, <1>3 DEF Same, SameHash, Streamed

\* A piece without blocks and digest.
LEMMA FreshDigested ==
    ASSUME NEW t, NEW i, NEW mm, Fresh(t, i)
    PROVE  Digested(t, i, mm)
<1>1. \A o \in Offset : ~(o < 0)
  BY OffsetIs
<1>2. \A b \in Block : At(b) \in Nat /\ At(b + 1) \in Nat /\ At(b + 1) > 0
  BY BlockPositions, Numbers
<1>3. \A b \in Block : ~Inside(0, b)
  BY <1>2 DEF Inside
<1>4. Prefix(t, i) /\ DoneBelow(t, i, 0)
  BY <1>1, <1>2 DEF Prefix, DoneBelow, Fresh
<1> QED BY <1>3, <1>4 DEF Digested, Fresh

\* A piece that has its data still is written as far as before.
LEMMA SameWritten ==
    ASSUME NEW s, NEW t, NEW i, NEW n, Same(s, t, i), WrittenTo(s, i, n)
    PROVE  WrittenTo(t, i, n)
BY DEF Same, WrittenTo

\* A calm change keeps what segments, memo and digests say.
LEMMA CalmTracked ==
    ASSUME NEW s \in Storage, NEW t, Calm(s, t), Steady(s, t), NEW g \in SegMap, NEW mm \in MemoMap,
           \A c \in DOMAIN g : Same(s, t, g[c].index), Tracked(s, g, mm)
    PROVE  Tracked(t, g, mm)
<1>1. Later(s, t) /\ t.endGame = s.endGame
  BY DEF Calm
<1>2. MemoThere(t, mm)
  <2>1. \A i \in DOMAIN mm : i \in Piece
    BY UseMemo
  <2> QED BY <1>1, <2>1, LaterTrusted DEF Tracked, MemoThere, Later
<1>3. SegsThere(t, g)
  BY <1>1, LaterTrusted, SameWritten DEF Tracked, SegsThere
<1>4. ASSUME ~s.endGame, NEW i \in DOMAIN t.pieces PROVE HeldIn(g, i) \/ Digested(t, i, mm)
  <2>1. CASE Same(s, t, i)
    <3>1. HeldIn(g, i) \/ Digested(s, i, mm)
      BY <1>4, <2>1 DEF Tracked, Digests, Same
    <3> QED BY <2>1, <3>1, SameDigested
  <2>2. CASE Fresh(t, i)
    BY <2>2, FreshDigested
  <2> QED BY <2>1, <2>2 DEF Steady
<1>5. ASSUME ~s.endGame, NEW c \in DOMAIN g PROVE Streamed(t, g[c].index, g[c].written)
  <2>1. Streamed(s, g[c].index, g[c].written) /\ Same(s, t, g[c].index)
    BY <1>5 DEF Tracked, Digests
  <2> QED BY <2>1, SameStreamed
<1>6. Digests(t, g, mm)
  BY <1>1, <1>4, <1>5 DEF Digests
<1>7. Ordered(t, g)
  BY DEF Tracked, Ordered, PassedBlocks, Same
<1> QED BY <1>2, <1>3, <1>6, <1>7 DEF Tracked

\* A piece that a stream gives back with its length remembered.
LEMMA StreamedDigested ==
    ASSUME NEW s \in Storage, NEW i \in DOMAIN s.pieces, NEW n \in 0 .. PieceLength, Streamed(s, i, n),
           NEW mm \in MemoMap, i \in DOMAIN mm, mm[i] = n
    PROVE  Digested(s, i, mm)
<1>1. s.pieces[i].nextBegin \in Nat /\ n \in Nat
  BY StorageFields, Fields, Numbers
<1>2. \A b \in Block : At(b + 1) \in Nat
  BY BlockPositions, Numbers
<1>3. DoneBelow(s, i, s.pieces[i].nextBegin)
  BY <1>1, <1>2 DEF Streamed, DoneBelow
<1>4. ASSUME NEW f \in Block \ s.pieces[i].blocks PROVE n < At(f + 1)
  BY <1>1, <1>2 DEF Streamed, DoneBelow
<1> QED BY <1>3, <1>4 DEF Streamed, Digested

\* Everything of piece i is in the file.
Flat(s, i) == s.pieces[i].cells = Nothing /\ ~s.pieces[i].error

\* What is written of such a piece is in the file.
LEMMA FlatWritten ==
    ASSUME NEW s, NEW i, NEW n, Flat(s, i), WrittenTo(s, i, n), NEW o \in Offset, o < n
    PROVE  s.disk[i][o] # "none"
<1>1. Nothing[o] = "none"
  BY DEF Nothing
<1> QED BY <1>1 DEF Flat, WrittenTo, Seen

\* A piece is digested with another memo that says the same of it.
LEMMA MemoDigested ==
    ASSUME NEW s, NEW i, NEW mm, NEW k, Digested(s, i, mm), i \in DOMAIN mm => i \in DOMAIN k /\ k[i] = mm[i]
    PROVE  Digested(s, i, k)
BY DEF Digested

\* Segments are given back after their pieces have been flushed.
LEMMA GiveBackTracked ==
    ASSUME NEW m \in ManSet, NEW D \in SUBSET (DOMAIN m.segs), NEW I \in SUBSET Piece,
           PiecesOf(m, D, I), NEW k, Remembered(m, k, D, I),
           NEW g \in SegMap, DOMAIN g = (DOMAIN m.segs) \ D, \A c \in DOMAIN g : g[c] = m.segs[c],
           NEW t, AllCarried(m.ps, t), \A c \in DOMAIN g : g[c].index \in DOMAIN t.pieces,
           \A c \in DOMAIN m.segs : m.segs[c].index \in DOMAIN m.ps.pieces,
           \A c \in D : Flat(m.ps, m.segs[c].index),
           Tracked(m.ps, m.segs, m.memo)
    PROVE  Tracked(t, g, k)
<1> DEFINE s == m.ps
<1>1. s \in Storage /\ m.segs \in SegMap /\ m.memo \in MemoMap
  BY ManFields
<1>2. \A c \in DOMAIN m.segs : m.segs[c].index \in Piece /\ m.segs[c].written \in 0 .. PieceLength
  BY <1>1, UseSegs
<1> HIDE DEF s
<1>3. /\ s = m.ps /\ AllCarried(s, t) /\ Tracked(s, m.segs, m.memo)
      /\ \A c \in DOMAIN m.segs : m.segs[c].index \in DOMAIN s.pieces
      /\ \A c \in D : Flat(s, m.segs[c].index)
  BY DEF s
<1>4. Calm(s, t) /\ Steady(s, t) /\ \A i \in DOMAIN t.pieces : Same(s, t, i)
  BY <1>1, <1>3, CarriedCalm
<1>5. Later(s, t) /\ t.endGame = s.endGame /\ t.disk = s.disk
  BY <1>3, <1>4 DEF Calm, AllCarried
<1>6. ASSUME NEW i \in I, Trusted(t), NEW o \in Offset, o < k[i] PROVE t.disk[i][o] # "none"
  <2>1. PICK c \in D : m.segs[c].index = i /\ k[i] = m.segs[c].written
    BY <1>6 DEF Remembered
  <2>2. WrittenTo(s, i, k[i])
    BY <1>3, <1>5, <1>6, <2>1, LaterTrusted DEF Tracked, SegsThere
  <2>3. Flat(s, i)
    BY <1>3, <2>1
  <2> QED BY <1>5, <1>6, <2>2, <2>3, FlatWritten
<1>7. ASSUME NEW i \in (DOMAIN m.memo) \ I, Trusted(t), NEW o \in Offset, o < k[i]
      PROVE  t.disk[i][o] # "none"
  <2>1. k[i] = m.memo[i]
    BY <1>7 DEF Remembered
  <2> QED BY <1>3, <1>5, <1>7, <2>1, LaterTrusted DEF Tracked, MemoThere
<1>8. MemoThere(t, k)
  BY <1>6, <1>7 DEF MemoThere, Remembered
<1>9. SegsThere(t, g)
  <2>1. SUFFICES ASSUME Trusted(t), NEW c \in DOMAIN g PROVE WrittenTo(t, g[c].index, g[c].written)
    BY DEF SegsThere
  <2>2. WrittenTo(s, g[c].index, g[c].written)
    BY <1>3, <1>5, <2>1, LaterTrusted DEF Tracked, SegsThere
  <2>3. Same(s, t, g[c].index)
    BY <1>4, <2>1
  <2> QED BY <2>2, <2>3, SameWritten
<1>10. ASSUME ~s.endGame, NEW i \in DOMAIN t.pieces PROVE HeldIn(g, i) \/ Digested(t, i, k)
  <2>0. Same(s, t, i) /\ i \in DOMAIN s.pieces
    BY <1>4, <1>10 DEF Same
  <2>1. CASE i \in I
    <3>1. PICK c \in D : m.segs[c].index = i /\ k[i] = m.segs[c].written
      BY <2>1 DEF Remembered
    <3>2. Streamed(s, i, k[i]) /\ k[i] \in 0 .. PieceLength
      BY <1>2, <1>3, <1>10, <3>1 DEF Tracked, Digests
    <3>3. k \in MemoMap /\ i \in DOMAIN k
      BY <2>1 DEF Remembered
    <3>4. Digested(s, i, k)
      BY <1>1, <2>0, <3>2, <3>3, StreamedDigested
    <3> QED BY <2>0, <3>4, SameDigested
  <2>2. CASE i \notin I /\ HeldIn(m.segs, i)
    <3>1. PICK c \in DOMAIN m.segs : m.segs[c].index = i
      BY <2>2 DEF HeldIn
    <3>2. c \notin D
      BY <2>2, <3>1 DEF PiecesOf
    <3> QED BY <3>1, <3>2 DEF HeldIn
  <2>3. CASE i \notin I /\ ~HeldIn(m.segs, i)
    <3>1. Digested(s, i, m.memo)
      BY <1>3, <1>10, <2>0, <2>3 DEF Tracked, Digests
    <3>2. i \in DOMAIN m.memo => i \in DOMAIN k /\ k[i] = m.memo[i]
      BY <2>3 DEF Remembered
    <3>3. Digested(s, i, k)
      BY <3>1, <3>2, MemoDigested
    <3> QED BY <2>0, <3>3, SameDigested
  <2> QED BY <2>1, <2>2, <2>3
<1>11. ASSUME ~s.endGame, NEW c \in DOMAIN g PROVE Streamed(t, g[c].index, g[c].written)
  <2>1. Streamed(s, g[c].index, g[c].written)
    BY <1>3, <1>11 DEF Tracked, Digests
  <2>2. Same(s, t, g[c].index)
    BY <1>4, <1>11
  <2> QED BY <2>1, <2>2, SameStreamed
<1>12. Digests(t, g, k)
  BY <1>5, <1>10, <1>11 DEF Digests
<1>13. Ordered(t, g)
  BY <1>3, <1>4 DEF Tracked, Ordered, PassedBlocks, Same
<1> QED BY <1>8, <1>9, <1>12, <1>13 DEF Tracked

\* Every offset before the beginning of a block, or before the end of the
\* piece, is in an earlier block.
LEMMA EarlierBlock ==
    ASSUME NEW b \in Nat, b <= BlocksPerPiece, NEW o \in Offset, o < At(b)
    PROVE  \E d \in Block : d < b /\ o \in OffsetsOf(d)
<1> DEFINE d == o \div BlockLength
<1>1. At(b) \in Nat /\ o \in Nat /\ At(0) = 0 /\ BlocksPerPiece \in Nat
  BY OffsetIs, Positions, Numbers
<1>2. d \in Nat
  BY <1>1, Numbers
<1> HIDE DEF d
<1>3. o < At(d + 1)
  BY <1>1, <1>2, DivBlock DEF d
<1>4. At(d) <= o
  <2>1. CASE d = 0
    BY <1>1, <2>1
  <2>2. CASE d # 0
    <3>1. d - 1 \in Nat /\ (d - 1) + 1 = d /\ ~(d <= d - 1)
      BY <1>2, <2>2
    <3>2. ~(o < At((d - 1) + 1))
      BY <1>1, <3>1, DivBlock DEF d
    <3>3. At(d) \in Nat
      BY <1>2, Positions
    <3> QED BY <1>1, <3>1, <3>2, <3>3
  <2> QED BY <2>1, <2>2
<1>5. d < b
  <2>1. b # 0
    BY <1>1
  <2>2. b - 1 \in Nat /\ (b - 1) + 1 = b
    BY <1>1, <2>1
  <2>3. d <= b - 1
    BY <1>1, <2>2, DivBlock DEF d
  <2> QED BY <1>1, <1>2, <2>3
<1>6. d \in Block
  BY <1>1, <1>2, <1>5, Numbers DEF Block
<1>7. o \in OffsetsOf(d)
  <2>1. At(d) \in Nat /\ At(d + 1) \in Nat
    BY <1>2, Positions
  <2>2. o \in At(d) .. At(d + 1) - 1
    BY <1>1, <1>3, <1>4, <2>1
  <2> QED BY <2>2 DEF At, OffsetsOf
<1> QED BY <1>5, <1>6, <1>7

\* Every offset before a block is in an earlier block.
LEMMA BlockOf ==
    ASSUME NEW b \in Block, NEW o \in Offset, o < At(b)
    PROVE  \E d \in Block : d < b /\ o \in OffsetsOf(d)
<1>1. b \in Nat /\ b <= BlocksPerPiece
  BY Numbers DEF Block
<1> QED BY <1>1, EarlierBlock

\* Every offset of a piece is in a block.
LEMMA OffsetInBlock ==
    ASSUME NEW o \in Offset
    PROVE  \E d \in Block : o \in OffsetsOf(d)
<1>1. BlocksPerPiece \in Nat /\ BlocksPerPiece <= BlocksPerPiece /\ o < At(BlocksPerPiece)
  BY Numbers, Positions, OffsetIs
<1> QED BY <1>1, EarlierBlock

\* Block b is the first one missing of piece i.
First(s, i, b) ==
    /\ b \in Block /\ b \notin s.pieces[i].blocks
    /\ \A d \in Block : d \notin s.pieces[i].blocks => b <= d

\* A segment of piece i may start at n, in its first missing block.
MayStart(s, i, mm, b, n) ==
    /\ First(s, i, b) /\ n \in 0 .. PieceLength
    /\ n = At(b) \/ (i \in DOMAIN mm /\ n = mm[i] /\ Inside(n, b))
    /\ i \in DOMAIN mm /\ Inside(mm[i], b) => n = mm[i]

\* The blocks before the start of a segment are done.
LEMMA StartDone ==
    ASSUME NEW s, NEW i, NEW mm, NEW b, NEW n, MayStart(s, i, mm, b, n)
    PROVE  /\ DoneBelow(s, i, n) /\ At(b) <= n /\ n < At(b + 1)
           /\ DownTo(s.pieces[i].blocks) => PassedBlocks(s, i, n)
<1>1. b \in Block /\ n \in Nat /\ At(b) \in Nat /\ At(b + 1) \in Nat
  BY BlockPositions, Numbers DEF MayStart, First
<1>2. At(b) <= n /\ n < At(b + 1)
  BY <1>1, BlockPositions, Numbers DEF MayStart, Inside
<1>3. ASSUME NEW d \in Block, At(d + 1) <= n PROVE d < b
  <2>1. d # b
    BY <1>1, <1>2, <1>3
  <2>2. ASSUME b < d PROVE FALSE
    <3>1. At(b + 1) <= At(d) /\ At(d) \in Nat /\ At(d + 1) = At(d) + BlockLength
      BY <1>1, <2>2, BlockPositions
    <3> QED BY <1>1, <1>2, <1>3, <3>1, Numbers
  <2> QED BY <1>1, <2>1, <2>2, BlockPositions
<1>4. DoneBelow(s, i, n)
  <2>1. SUFFICES ASSUME NEW d \in Block, At(d + 1) <= n PROVE d \in s.pieces[i].blocks
    BY DEF DoneBelow
  <2>2. d < b /\ d \in Nat /\ b \in Nat
    BY <1>1, <1>3, <2>1, BlockPositions
  <2> QED BY <2>2 DEF MayStart, First
<1>5. ASSUME DownTo(s.pieces[i].blocks), NEW d \in Block, d \in s.pieces[i].blocks
      PROVE  At(d + 1) <= n
  <2>1. d # b /\ ~(b < d)
    BY <1>1, <1>5 DEF DownTo, MayStart, First
  <2>2. d < b
    BY <1>1, <2>1, BlockPositions
  <2>3. At(d + 1) <= At(b) /\ At(d + 1) \in Nat
    BY <1>1, <2>2, BlockPositions, Numbers
  <2> QED BY <1>1, <1>2, <2>3
<1>6. DownTo(s.pieces[i].blocks) => PassedBlocks(s, i, n)
  BY <1>4, <1>5 DEF PassedBlocks, DoneBelow
<1> QED BY <1>2, <1>4, <1>6

\* A stream that takes a piece goes on where its data ends.
LEMMA StartStreamed ==
    ASSUME NEW s \in Storage, NEW i \in DOMAIN s.pieces, NEW mm \in MemoMap, NEW b, NEW n,
           MayStart(s, i, mm, b, n), Digested(s, i, mm)
    PROVE  Streamed(s, i, n)
<1> DEFINE nb == s.pieces[i].nextBegin
<1>1. nb \in Nat /\ n \in Nat /\ b \in Block /\ At(b) \in Nat /\ At(b + 1) \in Nat
  BY StorageFields, Fields, Numbers, BlockPositions DEF MayStart, First
<1>2. DoneBelow(s, i, n) /\ At(b) <= n /\ n < At(b + 1)
  BY StartDone
<1> HIDE DEF nb
<1>3. nb < At(b + 1)
  BY <1>1 DEF Digested, DoneBelow, MayStart, First, nb
<1>4. nb <= n
  <2>1. CASE nb <= At(b)
    BY <1>1, <1>2, <2>1
  <2>2. CASE Inside(nb, b)
    <3>1. i \in DOMAIN mm /\ nb <= mm[i] /\ mm[i] < At(b + 1)
      BY <1>1, <2>2 DEF Digested, MayStart, First, nb
    <3>2. mm[i] \in Nat
      BY <3>1, UseMemo, Numbers
    <3>3. Inside(mm[i], b)
      BY <1>1, <2>2, <3>1, <3>2 DEF Inside
    <3>4. n = mm[i]
      BY <3>1, <3>3 DEF MayStart
    <3> QED BY <3>1, <3>4
  <2> QED BY <1>1, <1>3, <2>1, <2>2 DEF Inside
<1>5. ASSUME Stuck(s, i) PROVE nb < n
  <2>1. PICK d \in s.pieces[i].blocks : Inside(nb, d)
    BY <1>5 DEF Stuck, nb
  <2>2. d \in Block /\ d # b /\ b \in Nat
    BY <1>1, StorageFields, Fields, BlockPositions DEF MayStart, First
  <2>3. nb # At(b)
    BY <2>1, <2>2, InsideOne
  <2>4. ~Inside(nb, b)
    BY <1>1, <2>1, <2>2, InsideOne
  <2>5. nb # n
    BY <2>3, <2>4 DEF MayStart
  <2> QED BY <1>1, <1>4, <2>5
<1>6. Prefix(s, i) \/ Stuck(s, i)
  BY DEF Digested
<1> QED BY <1>2, <1>4, <1>5, <1>6 DEF Streamed, nb

\* What is believed to be written when a segment starts is there.
LEMMA StartWritten ==
    ASSUME NEW s \in Storage, NEW i \in DOMAIN s.pieces, NEW mm \in MemoMap, NEW b, NEW n,
           MayStart(s, i, mm, b, n), PieceThere(s, i), Trusted(s), MemoThere(s, mm)
    PROVE  WrittenTo(s, i, n)
<1>1. b \in Block /\ n \in Nat /\ At(b) \in Nat
  BY BlockPositions, Numbers DEF MayStart, First
<1>2. SUFFICES ASSUME ~s.pieces[i].error, NEW o \in Offset, o < n PROVE Seen(s, i, o) # "none"
  BY DEF WrittenTo
<1>3. CASE n = At(b)
  <2>1. PICK d \in Block : d < b /\ o \in OffsetsOf(d)
    BY <1>1, <1>2, <1>3, BlockOf
  <2>2. d \in s.pieces[i].blocks
    <3>1. d \in Nat /\ b \in Nat /\ ~(b <= d)
      BY <1>1, <2>1, BlockPositions
    <3> QED BY <3>1 DEF MayStart, First
  <2> QED BY <1>2, <2>1, <2>2 DEF PieceThere
<1>4. CASE i \in DOMAIN mm /\ n = mm[i]
  <2>1. s.disk[i][o] # "none"
    BY <1>2, <1>4 DEF MemoThere
  <2> QED BY <2>1 DEF Seen
<1> QED BY <1>3, <1>4 DEF MayStart

\* A segment starts.
LEMMA StartTracked ==
    ASSUME NEW s \in Storage, NEW i \in DOMAIN s.pieces, NEW g \in SegMap, NEW mm \in MemoMap,
           NEW b, NEW n, MayStart(s, i, mm, b, n), There(s), InSequence(s), ~HeldIn(g, i),
           Tracked(s, g, mm), NEW c, NEW r, r.index = i, r.written = n, NEW h, SegmentAdded(g, h, c, r)
    PROVE  Tracked(s, h, mm)
<1>1. ASSUME NEW d \in DOMAIN h PROVE h[d] = r \/ (d \in DOMAIN g /\ h[d] = g[d])
  BY DEF SegmentAdded
<1>2. MemoThere(s, mm)
  BY DEF Tracked
<1>3. SegsThere(s, h)
  <2>1. Trusted(s) => WrittenTo(s, i, n)
    BY <1>2, StartWritten DEF There
  <2> QED BY <1>1, <2>1 DEF SegsThere, Tracked
<1>4. ASSUME ~s.endGame PROVE Streamed(s, i, n)
  <2>1. Digested(s, i, mm)
    BY <1>4 DEF Tracked, Digests
  <2> QED BY <2>1, StartStreamed
<1>5. \A j : HeldIn(g, j) => HeldIn(h, j)
  BY DEF HeldIn, SegmentAdded
<1>6. Digests(s, h, mm)
  BY <1>1, <1>4, <1>5 DEF Digests, Tracked
<1>7. ASSUME Peer = {} PROVE PassedBlocks(s, i, n)
  BY <1>7, StartDone DEF InSequence
<1>8. Ordered(s, h)
  BY <1>1, <1>7 DEF Ordered, Tracked
<1> QED BY <1>2, <1>3, <1>6, <1>8 DEF Tracked

\* The cache is kept within its limit without new data.
LEMMA EnsureLimitCalm ==
    ASSUME NEW s \in Storage, NEW ok \in Outcomes, NEW t \in ensureLimit(s, ok)
    PROVE  Later(s, t) /\ (Clean(s) => Clean(t))
<1>1. CASE t = s
  BY <1>1 DEF Later
<1>2. ASSUME NEW j \in DOMAIN s.pieces, t = flushWrCache(s, j, ok)
      PROVE  Later(s, t) /\ (Clean(s) => Clean(t))
  <2>1. {j} \in SUBSET (DOMAIN s.pieces) /\ t = Flushed(s, {j}, ok)
    BY <1>2 DEF flushWrCache
  <2>2. Calm(s, t)
    BY <2>1, FlushCalm
  <2> QED BY <2>2 DEF Calm
<1>3. t = s \/ \E j \in DOMAIN s.pieces : t = flushWrCache(s, j, ok)
  BY DEF ensureLimit
<1> QED BY <1>1, <1>2, <1>3

\* Data is written, wrong data not by honest servers.
LEMMA WriteClean ==
    ASSUME NEW s \in Storage, NEW i \in DOMAIN s.pieces, NEW O \in SUBSET Offset,
           NEW q \in {"good", "bad"}, NEW ok \in Outcomes, NEW t \in writeData(s, i, O, q, ok),
           Clean(s), Honest => q = "good"
    PROVE  Clean(t) /\ Later(s, t)
<1> DEFINE Laid(data) == [o \in Offset |-> IF o \in O THEN q ELSE data[o]]
           p == s.pieces[i]
           w == [p EXCEPT !.cells = Laid(@)]
           m == [s EXCEPT !.pieces[i] = w]
           e == [s EXCEPT !.disk[i] = Laid(@)]
<1>1. /\ p \in Rec /\ p.cells \in [Offset -> Byte] /\ i \in Piece
      /\ s.disk \in [Piece -> [Offset -> Byte]] /\ s.disk[i] \in [Offset -> Byte]
      /\ p.entry \in BOOLEAN /\ p.error \in BOOLEAN
  BY StorageFields, Fields
<1>2. ASSUME NEW data \in [Offset -> Byte]
      PROVE  /\ Laid(data) \in [Offset -> Byte]
             /\ \A o \in Offset : Laid(data)[o] = IF o \in O THEN q ELSE data[o]
  BY DEF Byte
<1>3. CASE p.entry
  <2>1. t \in ensureLimit(m, ok)
    BY <1>3 DEF writeData
  <2>2. w \in Rec /\ w.cells = Laid(p.cells) /\ w.error = p.error /\ w.entry = p.entry
    <3>1. Laid(p.cells) \in [Offset -> Byte]
      BY <1>1, <1>2
    <3> HIDE DEF p, Laid
    <3> QED BY <1>1, <3>1 DEF Rec, PieceRecord
  <2> HIDE DEF w
  <2>3. /\ m \in Storage /\ m.disk = s.disk /\ m.failures = s.failures
        /\ DOMAIN m.pieces = DOMAIN s.pieces /\ m.pieces[i] = w
        /\ \A j \in DOMAIN s.pieces : j # i => m.pieces[j] = s.pieces[j]
    BY <2>2, OnePiece
  <2> HIDE DEF m
  <2>4. Later(m, t) /\ (Clean(m) => Clean(t))
    BY <2>1, <2>3, EnsureLimitCalm
  <2>5. Tidy(m)
    BY <1>3, <2>2, <2>3 DEF Clean, Tidy
  <2>6. Faults(m)
    <3>1. ASSUME NEW j \in DOMAIN m.pieces, m.pieces[j].error
          PROVE  m.pieces[j].entry /\ m.failures # 0
      <4>1. CASE j = i
        BY <1>3, <2>2, <2>3, <3>1, <4>1 DEF Clean, Faults
      <4>2. CASE j # i
        BY <2>3, <3>1, <4>2 DEF Clean, Faults
      <4> QED BY <4>1, <4>2
    <3> QED BY <3>1 DEF Faults
  <2>7. NoBad(m)
    <3>1. ASSUME Honest, NEW j \in DOMAIN m.pieces, NEW o \in Offset
          PROVE  m.pieces[j].cells[o] # "bad"
      <4>1. s.pieces[j].cells[o] # "bad"
        BY <2>3, <3>1 DEF Clean, NoBad
      <4>2. CASE j = i
        <5>1. m.pieces[j].cells[o] = IF o \in O THEN q ELSE p.cells[o]
          BY <1>1, <1>2, <2>2, <2>3, <4>2
        <5> QED BY <3>1, <4>1, <4>2, <5>1
      <4>3. CASE j # i
        BY <2>3, <3>1, <4>1, <4>3
      <4> QED BY <4>2, <4>3
    <3> QED BY <2>3, <3>1 DEF Clean, NoBad
  <2>8. Later(s, t)
    BY <2>3, <2>4 DEF Later
  <2> QED BY <2>4, <2>5, <2>6, <2>7, <2>8 DEF Clean
<1>4. CASE ~p.entry
  <2>1. t = e
    BY <1>4 DEF writeData
  <2>2. /\ t.pieces = s.pieces /\ t.failures = s.failures
        /\ t.disk = [s.disk EXCEPT ![i] = Laid(s.disk[i])]
    BY <2>1 DEF Storage
  <2>3. t.disk[i] = Laid(s.disk[i]) /\ \A j \in Piece : j # i => t.disk[j] = s.disk[j]
    BY <1>1, <2>2
  <2>4. ASSUME NEW j \in Piece, NEW o \in Offset
        PROVE  t.disk[j][o] = s.disk[j][o] \/ t.disk[j][o] = q
    BY <1>1, <1>2, <2>3, <2>4
  <2>5. Later(s, t)
    BY <2>2, <2>4 DEF Later
  <2>6. Tidy(t) /\ Faults(t)
    BY <2>2 DEF Clean, Tidy, Faults
  <2>7. NoBad(t)
    BY <2>2, <2>4 DEF Clean, NoBad
  <2> QED BY <2>5, <2>6, <2>7 DEF Clean
<1> QED BY <1>3, <1>4

\* The cells, entries and errors of all pieces and the file are the same.
SameCells(s, t) ==
    /\ t.disk = s.disk /\ t.failures = s.failures /\ DOMAIN t.pieces = DOMAIN s.pieces
    /\ \A j \in DOMAIN s.pieces :
         /\ t.pieces[j].cells = s.pieces[j].cells /\ t.pieces[j].entry = s.pieces[j].entry
         /\ t.pieces[j].error = s.pieces[j].error

\* Then the storage is as clean as before.
LEMMA SameCellsClean ==
    ASSUME NEW s, NEW t, SameCells(s, t)
    PROVE  /\ Clean(s) => Clean(t)
           /\ \A j \in DOMAIN s.pieces : \A o \in Offset : Seen(t, j, o) = Seen(s, j, o)
           /\ \A r : Later(r, s) => Later(r, t)
<1>1. Tidy(s) => Tidy(t)
  BY DEF SameCells, Tidy
<1>2. Faults(s) => Faults(t)
  BY DEF SameCells, Faults
<1>3. NoBad(s) => NoBad(t)
  BY DEF SameCells, NoBad
<1>4. \A j \in DOMAIN s.pieces : \A o \in Offset : Seen(t, j, o) = Seen(s, j, o)
  BY DEF SameCells, Seen
<1>5. \A r : Later(r, s) => Later(r, t)
  BY DEF SameCells, Later
<1> QED BY <1>1, <1>2, <1>3, <1>4, <1>5 DEF Clean

\* Data of quality q has been put at the offsets O of piece i, which has the
\* blocks B now.
Put(s, x, i, O, q, B) ==
    /\ x \in Storage /\ x.have = s.have /\ x.endGame = s.endGame
    /\ DOMAIN x.pieces = DOMAIN s.pieces /\ Later(s, x) /\ Clean(x)
    /\ \A j \in Piece \ DOMAIN s.pieces : x.disk[j] = s.disk[j]
    /\ \A j \in DOMAIN s.pieces : j # i => Same(s, x, j)
    /\ x.pieces[i].blocks = s.pieces[i].blocks \cup B
    /\ s.pieces[i].error => x.pieces[i].error
    /\ x.pieces[i].error \/ \A o \in Offset :
          Seen(x, i, o) = IF o \in O THEN q ELSE Seen(s, i, o)

\* Its digest has gone on with n bytes at b, or could not.
HashedOn(s, x, i, b, n, q) ==
    \/ SameHash(s.pieces[i], x.pieces[i]) /\ (HashKnown /\ n > 0 =>
             b # s.pieces[i].nextBegin \/ b + n > PieceLength)
    \/ /\ b = s.pieces[i].nextBegin
       /\ x.pieces[i].nextBegin = b + n
       /\ x.pieces[i].hashOk => s.pieces[i].hashOk /\ q = "good"

\* The blocks of piece i have become those and B.
MoreBlocks(u, x, i, B) ==
    /\ x \in Storage /\ x.have = u.have /\ x.endGame = u.endGame /\ SameCells(u, x)
    /\ x.pieces[i].blocks = u.pieces[i].blocks \cup B
    /\ \A j \in DOMAIN u.pieces : j # i => x.pieces[j] = u.pieces[j]

\* The blocks and the digest of a piece after a write of a stream.
LEMMA HashThenBlocks ==
    ASSUME NEW u \in Storage, NEW i \in DOMAIN u.pieces, NEW B, NEW b, NEW n, NEW q,
           NEW v, HashGoes(u, v, i, b, n, q), NEW x, BlocksDone(v, x, i, B)
    PROVE  MoreBlocks(u, x, i, B) /\ HashedOn(u, x, i, b, n, q)
<1>1. SameCells(u, x)
  BY DEF HashGoes, SameBooks, SameUse, BlocksDone, SameCells
<1>2. MoreBlocks(u, x, i, B)
  BY <1>1 DEF HashGoes, SameBooks, SameUse, BlocksDone, MoreBlocks
<1>3. HashedOn(u, x, i, b, n, q)
  BY DEF HashGoes, BlocksDone, SameHash, HashedOn
<1> QED BY <1>2, <1>3

\* The same when a block of a peer has come.
LEMMA BlocksThenHash ==
    ASSUME NEW u \in Storage, NEW i \in DOMAIN u.pieces, NEW B, NEW b, NEW n, NEW q,
           NEW v, BlocksDone(u, v, i, B), NEW x, HashGoes(v, x, i, b, n, q)
    PROVE  MoreBlocks(u, x, i, B) /\ HashedOn(u, x, i, b, n, q)
<1>1. SameCells(u, x)
  BY DEF HashGoes, SameBooks, SameUse, BlocksDone, SameCells
<1>2. MoreBlocks(u, x, i, B)
  BY <1>1 DEF HashGoes, SameBooks, SameUse, BlocksDone, MoreBlocks
<1>3. HashedOn(u, x, i, b, n, q)
  BY DEF HashGoes, BlocksDone, SameHash, HashedOn
<1> QED BY <1>2, <1>3

\* Data is written and its blocks are completed.
LEMMA PutIs ==
    ASSUME NEW s \in Storage, NEW i \in DOMAIN s.pieces, NEW O \in SUBSET Offset,
           NEW q \in {"good", "bad"}, NEW ok \in Outcomes, NEW u \in writeData(s, i, O, q, ok),
           Clean(s), Honest => q = "good", NEW B, NEW x, MoreBlocks(u, x, i, B),
           NEW b, NEW n, HashedOn(u, x, i, b, n, q)
    PROVE  Put(s, x, i, O, q, B) /\ HashedOn(s, x, i, b, n, q)
<1>1. Clean(u) /\ Later(s, u)
  BY WriteClean
<1>2. Wrote(s, u, i, O, q)
  BY WriteDataIs DEF Outcomes
<1>3. SameCells(u, x) /\ u \in Storage /\ DOMAIN u.pieces = DOMAIN s.pieces
  BY <1>2 DEF MoreBlocks, Wrote, SameBooks
<1>4. /\ Clean(x) /\ Later(s, x)
      /\ \A j \in DOMAIN s.pieces : \A o \in Offset : Seen(x, j, o) = Seen(u, j, o)
  BY <1>1, <1>3, SameCellsClean
<1>5. x \in Storage /\ x.have = s.have /\ x.endGame = s.endGame /\ DOMAIN x.pieces = DOMAIN s.pieces
  BY <1>2, <1>3 DEF Wrote, SameBooks, MoreBlocks, SameCells
<1>6. \A j \in Piece \ DOMAIN s.pieces : x.disk[j] = s.disk[j]
  BY <1>2, <1>3 DEF Wrote, SameCells
<1>7. ASSUME NEW j \in DOMAIN s.pieces, j # i PROVE Same(s, x, j)
  <2>1. Same(s, u, j)
    BY <1>2, <1>7, KeptSame DEF Wrote, SameBooks, SameUse
  <2>2. x.pieces[j] = u.pieces[j]
    BY <1>3, <1>7 DEF MoreBlocks
  <2> QED BY <1>4, <2>1, <2>2 DEF Same
<1>8. x.pieces[i].blocks = s.pieces[i].blocks \cup B
  BY <1>2 DEF Wrote, SameBooks, SameUse, MoreBlocks
<1>9. s.pieces[i].entry \/ s.pieces[i].cells = Nothing
  BY DEF Clean, Tidy
<1>10. x.pieces[i].error = u.pieces[i].error /\ (s.pieces[i].error => u.pieces[i].error)
  BY <1>2, <1>3 DEF Wrote, SameCells
<1>11. u.pieces[i].error \/ \A o \in Offset : Seen(u, i, o) = IF o \in O THEN q ELSE Seen(s, i, o)
  BY <1>2, <1>9 DEF Wrote
<1>12. x.pieces[i].error \/ \A o \in Offset : Seen(x, i, o) = IF o \in O THEN q ELSE Seen(s, i, o)
  BY <1>4, <1>10, <1>11
<1>13. Put(s, x, i, O, q, B)
  BY <1>4, <1>5, <1>6, <1>7, <1>8, <1>10, <1>12 DEF Put
<1>14. HashedOn(s, x, i, b, n, q)
  BY <1>2 DEF Wrote, SameHash, HashedOn
<1> QED BY <1>13, <1>14

\* New data keeps what is known of the data, if its own blocks are there.
LEMMA PutSound ==
    ASSUME NEW s \in Storage, Apart(s), Sound(s), NEW i \in DOMAIN s.pieces,
           NEW x, NEW O, NEW q, NEW B, Put(s, x, i, O, q, B),
           Trusted(x) => PieceThere(x, i), Peer = {} => DownTo(x.pieces[i].blocks)
    PROVE  Sound(x)
<1>1. x \in Storage /\ Clean(x) /\ Later(s, x) /\ x.have = s.have /\ x.endGame = s.endGame
      /\ DOMAIN x.pieces = DOMAIN s.pieces
  BY DEF Put
<1>2. Grown(x)
  BY <1>1, LaterGrown DEF Sound
<1>3. There(x)
  <2>1. SUFFICES ASSUME Trusted(x), NEW j \in DOMAIN x.pieces, j # i PROVE PieceThere(x, j)
    BY DEF There
  <2>2. Same(s, x, j) /\ PieceThere(s, j) /\ x.pieces[j] \in Rec
    BY <1>1, <2>1, LaterTrusted, StorageFields DEF Put, Sound, There
  <2> QED BY <2>2, SameThere
<1>4. Good(x)
  <2>1. SUFFICES ASSUME Sure(x), NEW j \in x.have, NEW o \in Offset PROVE x.disk[j][o] = "good"
    BY DEF Good
  <2>2. j \in s.have /\ j \in Piece /\ j \notin DOMAIN s.pieces
    BY <1>1, StorageFields DEF Apart
  <2>3. x.disk[j] = s.disk[j]
    BY <2>2 DEF Put
  <2> QED BY <1>1, <2>1, <2>2, <2>3, LaterTrusted DEF Sound, Good
<1>5. InSequence(x)
  <2>1. SUFFICES ASSUME Peer = {}, NEW j \in DOMAIN x.pieces, j # i PROVE DownTo(x.pieces[j].blocks)
    BY DEF InSequence
  <2>2. x.pieces[j].blocks = s.pieces[j].blocks /\ j \in DOMAIN s.pieces
    BY <1>1, <2>1 DEF Put, Same
  <2> QED BY <2>1, <2>2 DEF Sound, InSequence
<1> QED BY <1>1, <1>2, <1>3, <1>4, <1>5 DEF Sound

\* The digest of a piece a stream has written n more bytes of.
LEMMA PutStreamed ==
    ASSUME NEW s \in Storage, NEW i \in DOMAIN s.pieces, NEW w \in Nat, NEW n \in Nat, n > 0,
           w + n <= PieceLength, NEW q, NEW x, Put(s, x, i, w .. w + n - 1, q, Passed(w, n)),
           HashedOn(s, x, i, w, n, q), Streamed(s, i, w)
    PROVE  Streamed(x, i, w + n)
<1> DEFINE nb == s.pieces[i].nextBegin
           O == w .. w + n - 1
<1>1. nb \in Nat /\ nb <= w
  BY StorageFields, Fields, Numbers DEF Streamed
<1>2. \A b \in Block : b \in Nat /\ At(b) \in Nat /\ At(b + 1) \in Nat
  BY SMTT(60), BlockPositions, Numbers
<1>3. \A o \in Offset : o \in Nat
  BY OffsetIs
<1> HIDE DEF nb
<1>4. DoneBelow(x, i, w + n)
  <2>1. SUFFICES ASSUME NEW b \in Block, At(b + 1) <= w + n PROVE b \in x.pieces[i].blocks
    BY DEF DoneBelow
  <2>2. CASE At(b + 1) <= w
    BY <2>2 DEF Streamed, DoneBelow, Put
  <2>3. CASE ~(At(b + 1) <= w)
    <3>1. w < At(b + 1)
      BY <1>2, <2>3
    <3>2. w \div BlockLength <= b
      BY <1>2, <3>1, DivBlock
    <3>3. b \in Passed(w, n)
      BY <2>1, <3>2 DEF Passed, At
    <3> QED BY <3>3 DEF Put
  <2> QED BY <2>2, <2>3
<1>5. CASE SameHash(s.pieces[i], x.pieces[i]) /\ (nb < w \/ Prefix(s, i))
  <2>1. x.pieces[i].nextBegin = nb
    BY <1>5 DEF SameHash, nb
  <2>2. ASSUME Prefix(s, i) PROVE Prefix(x, i)
    <3>1. SUFFICES ASSUME ~x.pieces[i].error, x.pieces[i].hashOk, NEW o \in Offset, o < nb
                   PROVE  Seen(x, i, o) = "good"
      BY <2>1 DEF Prefix
    <3>2. o \notin O
      BY <1>1, <1>3, <3>1
    <3>3. Seen(x, i, o) = Seen(s, i, o)
      BY <3>1, <3>2 DEF Put
    <3>4. ~s.pieces[i].error /\ s.pieces[i].hashOk
      BY <1>5, <3>1 DEF Put, SameHash
    <3> QED BY <2>2, <3>1, <3>3, <3>4 DEF Prefix, nb
  <2>3. ASSUME Stuck(s, i) PROVE Stuck(x, i)
    BY <2>1, <2>3 DEF Stuck, Put, nb
  <2>4. nb < w + n
    BY <1>1
  <2>5. Prefix(x, i) \/ Stuck(x, i)
    BY <2>2, <2>3 DEF Streamed
  <2>6. x.pieces[i].nextBegin <= w + n /\ x.pieces[i].nextBegin < w + n
    BY <1>1, <2>1, <2>4
  <2> QED BY <1>4, <2>5, <2>6 DEF Streamed
<1>6. CASE /\ w = nb /\ x.pieces[i].nextBegin = w + n
           /\ x.pieces[i].hashOk => s.pieces[i].hashOk /\ q = "good"
  <2>1. Prefix(s, i)
    BY <1>1, <1>6 DEF Streamed, nb
  <2>2. Prefix(x, i)
    <3>1. SUFFICES ASSUME ~x.pieces[i].error, x.pieces[i].hashOk, NEW o \in Offset, o < w + n
                   PROVE  Seen(x, i, o) = "good"
      BY <1>6 DEF Prefix
    <3>2. ~s.pieces[i].error /\ s.pieces[i].hashOk /\ q = "good"
      BY <1>6, <3>1 DEF Put
    <3>3. CASE o \in O
      BY <3>1, <3>2, <3>3 DEF Put
    <3>4. CASE o \notin O
      <4>1. o < nb
        BY <1>1, <1>3, <1>6, <3>1, <3>4
      <4>2. Seen(s, i, o) = "good"
        BY <2>1, <3>2, <4>1 DEF Prefix, nb
      <4> QED BY <3>1, <3>4, <4>2 DEF Put
    <3> QED BY <3>3, <3>4
  <2>3. x.pieces[i].nextBegin <= w + n
    BY <1>6
  <2> QED BY <1>4, <2>2, <2>3 DEF Streamed
<1>7. nb < w \/ Prefix(s, i)
  BY DEF Streamed, nb
<1> QED BY <1>5, <1>6, <1>7 DEF HashedOn, nb

\* The data a stream has written is there.
LEMMA PutThere ==
    ASSUME NEW s \in Storage, NEW i \in DOMAIN s.pieces, NEW w \in Nat, NEW n \in Nat,
           NEW q \in {"good", "bad"}, NEW x, Put(s, x, i, w .. w + n - 1, q, Passed(w, n))
    PROVE  /\ WrittenTo(s, i, w) => WrittenTo(x, i, w + n)
           /\ WrittenTo(s, i, w) /\ PieceThere(s, i) => PieceThere(x, i)
<1>1. \A o \in Offset : o \in Nat
  BY OffsetIs
<1>4. \A b \in Block : At(b) \in Nat /\ At(b + 1) \in Nat
  BY SMTT(60), BlockPositions, Numbers
<1>2. ASSUME WrittenTo(s, i, w) PROVE WrittenTo(x, i, w + n)
  <2>1. SUFFICES ASSUME ~x.pieces[i].error, NEW o \in Offset, o < w + n PROVE Seen(x, i, o) # "none"
    BY DEF WrittenTo
  <2>2. CASE o \in w .. w + n - 1
    BY <2>1, <2>2 DEF Put
  <2>3. CASE o \notin w .. w + n - 1
    <3>1. o < w
      BY <1>1, <2>1, <2>3
    <3>2. Seen(s, i, o) # "none"
      BY <1>2, <2>1, <3>1 DEF WrittenTo, Put
    <3> QED BY <2>1, <2>3, <3>2 DEF Put
  <2> QED BY <2>2, <2>3
<1>3. ASSUME WrittenTo(s, i, w), PieceThere(s, i) PROVE PieceThere(x, i)
  <2>1. SUFFICES ASSUME ~x.pieces[i].error, NEW b \in x.pieces[i].blocks, NEW o \in OffsetsOf(b)
                 PROVE  Seen(x, i, o) # "none"
    BY DEF PieceThere
  <2>2. b \in Block /\ o \in Offset
    BY <2>1, StorageFields, Fields, BlockOffsets DEF Put
  <2>3. CASE b \in s.pieces[i].blocks
    <3>1. Seen(s, i, o) # "none"
      BY <1>3, <2>1, <2>3 DEF PieceThere, Put
    <3> QED BY <2>1, <2>2, <3>1 DEF Put
  <2>4. CASE b \in Passed(w, n)
    <3>1. At(b + 1) <= w + n
      BY <2>4 DEF Passed, At
    <3>2. o < At(b + 1)
      <4>1. At(b) \in Nat /\ At(b + 1) \in Nat
        BY <1>4, <2>2
      <4>2. o \in At(b) .. At(b + 1) - 1
        BY <2>1 DEF OffsetsOf, At
      <4> QED BY <4>1, <4>2
    <3>3. o < w + n
      <4>1. At(b + 1) \in Nat /\ o \in Nat
        BY <1>1, <1>4, <2>2
      <4> QED BY <3>1, <3>2, <4>1
    <3> QED BY <1>2, <1>3, <2>1, <2>2, <3>3 DEF WrittenTo
  <2> QED BY <2>3, <2>4 DEF Put
<1> QED BY <1>2, <1>3

\* The blocks a stream has passed.
LEMMA PutPassed ==
    ASSUME NEW s \in Storage, NEW i \in DOMAIN s.pieces, NEW w \in Nat, NEW n \in Nat,
           NEW q, NEW O, NEW x, Put(s, x, i, O, q, Passed(w, n)), PassedBlocks(s, i, w)
    PROVE  PassedBlocks(x, i, w + n) /\ DownTo(x.pieces[i].blocks)
<1>1. \A b \in Block : b \in Nat /\ At(b) \in Nat /\ At(b + 1) \in Nat
  BY BlockPositions, Numbers
<1>2. ASSUME NEW b \in Block PROVE b \in x.pieces[i].blocks <=> At(b + 1) <= w + n
  <2>1. b \in Passed(w, n) <=> w < At(b + 1) /\ At(b + 1) <= w + n
    <3>1. w \div BlockLength <= b <=> w < At(b + 1)
      BY <1>1, DivBlock
    <3> QED BY <3>1 DEF Passed, At
  <2>2. b \in s.pieces[i].blocks <=> At(b + 1) <= w
    BY DEF PassedBlocks
  <2>3. b \in x.pieces[i].blocks <=> b \in s.pieces[i].blocks \/ b \in Passed(w, n)
    BY DEF Put
  <2> QED BY <1>1, <2>1, <2>2, <2>3
<1>3. ASSUME NEW b \in x.pieces[i].blocks, NEW d \in Block, d < b PROVE d \in x.pieces[i].blocks
  <2>1. b \in Block
    BY StorageFields, Fields DEF Put
  <2>2. At(b + 1) <= w + n
    BY <1>2, <1>3, <2>1
  <2>3. At(d + 1) <= At(b) /\ At(b + 1) = At(b) + BlockLength
    BY <1>3, <2>1, BlockPositions
  <2>4. At(d + 1) <= w + n
    BY <1>1, <2>1, <2>2, <2>3, Numbers
  <2> QED BY <1>2, <2>4
<1> QED BY <1>2, <1>3 DEF PassedBlocks, DownTo

\* The segment of c has gone on to n, the others have stayed.
SegmentAt(g, h, c, n) ==
    /\ DOMAIN h = DOMAIN g /\ h[c].index = g[c].index /\ h[c].written = n
    /\ \A d \in DOMAIN g : d # c => h[d] = g[d]

\* No other segment is of the piece of c.
OnlyOf(g, c) == \A d \in DOMAIN g : d # c => g[d].index # g[c].index

\* A stream has written n more bytes.
LEMMA PutStreamTracked ==
    ASSUME NEW s \in Storage, Sound(s), NEW g \in SegMap, NEW mm \in MemoMap, Tracked(s, g, mm),
           NEW c \in DOMAIN g, NEW i, i = g[c].index, i \in DOMAIN s.pieces,
           \A d \in DOMAIN g : g[d].index \in DOMAIN s.pieces, OnlyOf(g, c),
           NEW w \in Nat, w = g[c].written, NEW n \in Nat, n > 0, w + n <= PieceLength,
           NEW q \in {"good", "bad"}, NEW x, Put(s, x, i, w .. w + n - 1, q, Passed(w, n)),
           HashedOn(s, x, i, w, n, q), NEW h, SegmentAt(g, h, c, w + n)
    PROVE  /\ Tracked(x, h, mm) /\ (Trusted(x) => PieceThere(x, i))
           /\ Peer = {} => DownTo(x.pieces[i].blocks) /\ PassedBlocks(x, i, w + n)
<1>1. Later(s, x) /\ x.endGame = s.endGame /\ DOMAIN x.pieces = DOMAIN s.pieces
  BY DEF Put
<1>2. ASSUME NEW d \in DOMAIN h, d # c
      PROVE  d \in DOMAIN g /\ h[d] = g[d] /\ h[d].index # i /\ Same(s, x, h[d].index)
  <2>1. d \in DOMAIN g /\ h[d] = g[d] /\ h[d].index # i /\ h[d].index \in DOMAIN s.pieces
    BY <1>2 DEF SegmentAt, OnlyOf
  <2> QED BY <2>1 DEF Put
<1>3. c \in DOMAIN h /\ h[c].index = i /\ h[c].written = w + n
  BY DEF SegmentAt
<1>4. MemoThere(x, mm)
  <2>1. \A j \in DOMAIN mm : j \in Piece
    BY UseMemo
  <2> QED BY <1>1, <2>1, LaterTrusted DEF Tracked, MemoThere, Later
<1>5. ASSUME Trusted(x) PROVE WrittenTo(x, i, w + n) /\ PieceThere(x, i)
  <2>1. WrittenTo(s, i, w) /\ PieceThere(s, i)
    BY <1>1, <1>5, LaterTrusted DEF Tracked, SegsThere, Sound, There
  <2> QED BY <2>1, PutThere
<1>6. SegsThere(x, h)
  <2>1. SUFFICES ASSUME Trusted(x), NEW d \in DOMAIN h, d # c
                 PROVE  WrittenTo(x, h[d].index, h[d].written)
    BY <1>3, <1>5 DEF SegsThere
  <2>2. WrittenTo(s, h[d].index, h[d].written)
    BY <1>1, <1>2, <2>1, LaterTrusted DEF Tracked, SegsThere
  <2> QED BY <1>2, <2>1, <2>2, SameWritten
<1>7. ASSUME ~s.endGame, NEW d \in DOMAIN h PROVE Streamed(x, h[d].index, h[d].written)
  <2>1. CASE d = c
    <3>1. Streamed(s, i, w)
      BY <1>7 DEF Tracked, Digests
    <3>2. Streamed(x, i, w + n)
      BY <3>1, PutStreamed
    <3> QED BY <1>3, <2>1, <3>2
  <2>2. CASE d # c
    <3>1. Streamed(s, h[d].index, h[d].written)
      BY <1>2, <1>7, <2>2 DEF Tracked, Digests
    <3> QED BY <1>2, <1>7, <2>2, <3>1, SameStreamed
  <2> QED BY <2>1, <2>2
<1>8. ASSUME ~s.endGame, NEW j \in DOMAIN x.pieces PROVE HeldIn(h, j) \/ Digested(x, j, mm)
  <2>1. CASE j = i
    BY <1>3, <2>1 DEF HeldIn
  <2>2. CASE j # i
    <3>1. HeldIn(g, j) \/ Digested(s, j, mm)
      BY <1>1, <1>8 DEF Tracked, Digests
    <3>2. HeldIn(g, j) => HeldIn(h, j)
      BY <2>2 DEF HeldIn, SegmentAt
    <3>3. Same(s, x, j)
      BY <1>1, <1>8, <2>2 DEF Put
    <3> QED BY <3>1, <3>2, <3>3, SameDigested
  <2> QED BY <2>1, <2>2
<1>9. Digests(x, h, mm)
  BY <1>1, <1>7, <1>8 DEF Digests
<1>10. ASSUME Peer = {} PROVE PassedBlocks(x, i, w + n) /\ DownTo(x.pieces[i].blocks)
  <2>1. PassedBlocks(s, i, w)
    BY <1>10 DEF Tracked, Ordered
  <2> QED BY <2>1, PutPassed
<1>11. Ordered(x, h)
  <2>1. SUFFICES ASSUME Peer = {}, NEW d \in DOMAIN h, d # c
                 PROVE  PassedBlocks(x, h[d].index, h[d].written)
    BY <1>3, <1>10 DEF Ordered
  <2>2. PassedBlocks(s, h[d].index, h[d].written)
    BY <1>2, <2>1 DEF Tracked, Ordered
  <2> QED BY <1>2, <2>1, <2>2 DEF PassedBlocks, Same
<1>12. Tracked(x, h, mm)
  BY <1>4, <1>6, <1>9, <1>11 DEF Tracked
<1> QED BY <1>5, <1>10, <1>12

\* The digest of a piece of which a block has come from a peer.
LEMMA PutDigested ==
    ASSUME NEW s \in Storage, NEW i \in DOMAIN s.pieces, NEW b \in Block, b \notin s.pieces[i].blocks,
           NEW q, NEW x, Put(s, x, i, OffsetsOf(b), q, {b}),
           HashedOn(s, x, i, At(b), BlockLength, q), NEW mm, Digested(s, i, mm)
    PROVE  Digested(x, i, mm)
<1> DEFINE nb == s.pieces[i].nextBegin
<1>0. \A d \in Block : d \in Nat /\ At(d) \in Nat /\ At(d + 1) \in Nat /\ At(d + 1) = At(d) + BlockLength
  BY BlockPositions, Numbers
<1>1. nb \in Nat /\ x.pieces[i].blocks = s.pieces[i].blocks \cup {b} /\ b \in Nat
  BY <1>0, StorageFields, Fields, Numbers DEF Put
<1>2. \A o \in Offset : o \in Nat
  BY OffsetIs
<1>3. \A o \in Offset : o \in OffsetsOf(b) <=> At(b) <= o /\ o < At(b + 1)
  <2>1. OffsetsOf(b) = At(b) .. At(b + 1) - 1
    BY DEF OffsetsOf, At
  <2> QED BY <1>0, <1>2, <2>1
<1>4. x.pieces[i].error \/ \A o \in Offset :
          Seen(x, i, o) = IF o \in OffsetsOf(b) THEN q ELSE Seen(s, i, o)
  BY DEF Put
<1>5. s.pieces[i].error => x.pieces[i].error
  BY DEF Put
<1>6. nb < At(b + 1)
  BY <1>0, <1>1 DEF Digested, DoneBelow
<1> HIDE DEF nb
<1>7. CASE SameHash(s.pieces[i], x.pieces[i])
  <2>1. x.pieces[i].nextBegin = nb /\ x.pieces[i].hashOk = s.pieces[i].hashOk
    BY <1>7 DEF SameHash, nb
  <2>2. DoneBelow(x, i, nb)
    BY <1>1 DEF Digested, DoneBelow, nb
  <2>3. Stuck(s, i) => Stuck(x, i)
    BY <1>1, <2>1 DEF Stuck, nb
  <2>4. Inside(nb, b) => Stuck(x, i)
    BY <1>1, <2>1 DEF Stuck
  <2>5. ASSUME Prefix(s, i), ~Inside(nb, b) PROVE Prefix(x, i)
    <3>1. nb <= At(b)
      BY <1>0, <1>1, <1>6, <2>5 DEF Inside
    <3>2. SUFFICES ASSUME ~x.pieces[i].error, x.pieces[i].hashOk, NEW o \in Offset, o < nb
                   PROVE  Seen(x, i, o) = "good"
      BY <2>1 DEF Prefix
    <3>3. o \notin OffsetsOf(b)
      BY <1>0, <1>1, <1>2, <1>3, <3>1, <3>2
    <3>4. Seen(s, i, o) = "good"
      BY <1>5, <2>1, <2>5, <3>2 DEF Prefix, nb
    <3> QED BY <1>4, <3>2, <3>3, <3>4
  <2>6. Prefix(x, i) \/ Stuck(x, i)
    BY <2>3, <2>4, <2>5 DEF Digested
  <2>7. \A f \in Block \ x.pieces[i].blocks : Inside(nb, f) =>
          i \in DOMAIN mm /\ nb <= mm[i] /\ mm[i] < At(f + 1)
    BY <1>1 DEF Digested, nb
  <2> QED BY <2>1, <2>2, <2>6, <2>7 DEF Digested
<1>8. CASE /\ At(b) = nb /\ x.pieces[i].nextBegin = At(b) + BlockLength
           /\ x.pieces[i].hashOk => s.pieces[i].hashOk /\ q = "good"
  <2>1. x.pieces[i].nextBegin = At(b + 1)
    BY <1>0, <1>8
  <2>2. DoneBelow(x, i, At(b + 1))
    <3>1. SUFFICES ASSUME NEW d \in Block, At(d + 1) <= At(b + 1), d # b PROVE d \in x.pieces[i].blocks
      BY <1>1 DEF DoneBelow
    <3>2. d < b
      <4>1. ASSUME b < d PROVE FALSE
        <5>1. At(b + 1) <= At(d)
          BY <4>1, BlockPositions
        <5> QED BY <1>0, <3>1, <5>1, Numbers
      <4> QED BY <3>1, <4>1, BlockPositions
    <3>3. At(d + 1) <= nb
      BY <1>8, <3>2, BlockPositions
    <3> QED BY <1>1, <3>3 DEF Digested, DoneBelow, nb
  <2>3. ~Stuck(s, i)
    <3>1. \A d \in s.pieces[i].blocks : d \in Block
      BY StorageFields, Fields
    <3> QED BY <1>1, <1>8, <3>1, InsideOne DEF Stuck, nb
  <2>4. Prefix(x, i)
    <3>1. SUFFICES ASSUME ~x.pieces[i].error, x.pieces[i].hashOk, NEW o \in Offset, o < At(b + 1)
                   PROVE  Seen(x, i, o) = "good"
      BY <2>1 DEF Prefix
    <3>2. ~s.pieces[i].error /\ s.pieces[i].hashOk /\ q = "good"
      BY <1>5, <1>8, <3>1
    <3>3. CASE o \in OffsetsOf(b)
      BY <1>4, <3>1, <3>2, <3>3
    <3>4. CASE o \notin OffsetsOf(b)
      <4>1. o < nb
        BY <1>0, <1>1, <1>2, <1>3, <1>8, <3>1, <3>4
      <4>2. Seen(s, i, o) = "good"
        BY <2>3, <3>2, <4>1 DEF Prefix, Digested, nb
      <4> QED BY <1>4, <3>1, <3>4, <4>2
    <3> QED BY <3>3, <3>4
  <2>5. \A f \in Block : ~Inside(At(b + 1), f)
    <3>1. b + 1 \in Nat
      BY <1>1
    <3> QED BY <3>1, InsideOne
  <2> QED BY <2>1, <2>2, <2>4, <2>5 DEF Digested
<1> QED BY <1>7, <1>8 DEF HashedOn, nb

\* A block has come from a peer.
LEMMA PutPeerTracked ==
    ASSUME NEW s \in Storage, Sound(s), NEW g \in SegMap, NEW mm \in MemoMap, Tracked(s, g, mm),
           NEW i \in DOMAIN s.pieces, ~HeldIn(g, i), Peer # {},
           \A d \in DOMAIN g : g[d].index \in DOMAIN s.pieces,
           NEW b \in Block, b \notin s.pieces[i].blocks,
           NEW q \in {"good", "bad"}, NEW x, Put(s, x, i, OffsetsOf(b), q, {b}),
           HashedOn(s, x, i, At(b), BlockLength, q)
    PROVE  Tracked(x, g, mm) /\ (Trusted(x) => PieceThere(x, i))
<1>1. Later(s, x) /\ x.endGame = s.endGame /\ DOMAIN x.pieces = DOMAIN s.pieces
  BY DEF Put
<1>2. ASSUME NEW d \in DOMAIN g PROVE g[d].index # i /\ Same(s, x, g[d].index)
  <2>1. g[d].index # i
    BY DEF HeldIn
  <2> QED BY <2>1 DEF Put
<1>3. MemoThere(x, mm)
  <2>1. \A j \in DOMAIN mm : j \in Piece
    BY UseMemo
  <2> QED BY <1>1, <2>1, LaterTrusted DEF Tracked, MemoThere, Later
<1>4. SegsThere(x, g)
  <2>1. SUFFICES ASSUME Trusted(x), NEW d \in DOMAIN g PROVE WrittenTo(x, g[d].index, g[d].written)
    BY DEF SegsThere
  <2>2. WrittenTo(s, g[d].index, g[d].written)
    BY <1>1, <2>1, LaterTrusted DEF Tracked, SegsThere
  <2> QED BY <1>2, <2>2, SameWritten
<1>5. ASSUME ~s.endGame, NEW j \in DOMAIN x.pieces PROVE HeldIn(g, j) \/ Digested(x, j, mm)
  <2>1. HeldIn(g, j) \/ Digested(s, j, mm)
    BY <1>1, <1>5 DEF Tracked, Digests
  <2>2. CASE j = i
    BY <2>1, <2>2, PutDigested
  <2>3. CASE j # i
    <3>1. Same(s, x, j)
      BY <1>1, <1>5, <2>3 DEF Put
    <3> QED BY <2>1, <3>1, SameDigested
  <2> QED BY <2>2, <2>3
<1>6. ASSUME ~s.endGame, NEW d \in DOMAIN g PROVE Streamed(x, g[d].index, g[d].written)
  <2>1. Streamed(s, g[d].index, g[d].written)
    BY <1>6 DEF Tracked, Digests
  <2> QED BY <1>2, <1>6, <2>1, SameStreamed
<1>7. Digests(x, g, mm)
  BY <1>1, <1>5, <1>6 DEF Digests
<1>8. Tracked(x, g, mm)
  BY <1>3, <1>4, <1>7 DEF Tracked, Ordered
<1>9. ASSUME Trusted(x), NEW d \in x.pieces[i].blocks, NEW o \in OffsetsOf(d), ~x.pieces[i].error
      PROVE  Seen(x, i, o) # "none"
  <2>1. d \in Block /\ o \in Offset
    BY <1>9, StorageFields, Fields, BlockOffsets DEF Put
  <2>2. CASE o \in OffsetsOf(b)
    BY <1>9, <2>1, <2>2 DEF Put
  <2>3. CASE o \notin OffsetsOf(b)
    <3>1. d \in s.pieces[i].blocks
      BY <1>9, <2>3 DEF Put
    <3>2. PieceThere(s, i)
      BY <1>1, <1>9, LaterTrusted DEF Sound, There
    <3>3. Seen(s, i, o) # "none"
      BY <1>9, <3>1, <3>2 DEF PieceThere, Put
    <3> QED BY <1>9, <2>1, <2>3, <3>3 DEF Put
  <2> QED BY <2>2, <2>3
<1> QED BY <1>8, <1>9 DEF PieceThere


(***************************************************************************)
(* Pieces that are complete.                                               *)
(***************************************************************************)
\* The data of piece i is right, unless an error will end the download.
Right(s, i) == s.pieces[i].error \/ \A o \in Offset : Seen(s, i, o) = "good"

\* The digest computed on the fly has seen the whole piece.
LEMMA DigestRight ==
    ASSUME NEW s \in Storage, NEW i \in DOMAIN s.pieces, isHashCalculated(s, i), s.pieces[i].hashOk,
           Prefix(s, i) \/ Stuck(s, i)
    PROVE  Right(s, i)
<1>1. s.pieces[i].nextBegin = PieceLength
  BY DEF isHashCalculated
<1>2. s.pieces[i].blocks \in SUBSET Block
  BY StorageFields, Fields
<1>3. ~Stuck(s, i)
  <2>1. \A b \in Block : At(b + 1) \in Nat /\ At(b + 1) <= PieceLength
    BY BlockPositions, Numbers
  <2>2. \A b \in Block : ~(PieceLength < At(b + 1))
    BY <2>1, Numbers
  <2> QED BY <1>1, <1>2, <2>2 DEF Stuck, Inside
<1>4. \A o \in Offset : o < s.pieces[i].nextBegin
  BY <1>1, OffsetIs
<1> QED BY <1>3, <1>4 DEF Prefix, Right

\* The piece has been read back.
LEMMA ReadRight ==
    ASSUME NEW s, NEW i, DigestWithCacheOk(s, i)
    PROVE  Right(s, i)
BY DEF DigestWithCacheOk, Overlay, Right, Seen

\* With honest servers a complete piece that is there is right.
LEMMA HonestRight ==
    ASSUME NEW s \in Storage, NEW i \in DOMAIN s.pieces, Honest, NoBad(s), PieceThere(s, i),
           s.pieces[i].blocks = Block
    PROVE  Right(s, i)
<1>1. SUFFICES ASSUME ~s.pieces[i].error, NEW o \in Offset PROVE Seen(s, i, o) = "good"
  BY DEF Right
<1>2. \E b \in Block : o \in OffsetsOf(b)
  BY OffsetInBlock
<1>3. Seen(s, i, o) # "none"
  BY <1>1, <1>2 DEF PieceThere
<1>4. s.disk[i][o] \in Byte /\ s.pieces[i].cells[o] \in Byte /\ i \in Piece
  BY StorageFields, Fields
<1>5. s.disk[i][o] # "bad" /\ s.pieces[i].cells[o] # "bad"
  BY <1>4 DEF NoBad
<1> QED BY <1>3, <1>4, <1>5 DEF Seen, Byte

\* A right piece whose data is all in the file is right in the file.
LEMMA FlatRight ==
    ASSUME NEW s, NEW t, NEW i, Right(s, i), Same(s, t, i), Flat(t, i)
    PROVE  \A o \in Offset : t.disk[i][o] = "good"
<1>1. SUFFICES ASSUME NEW o \in Offset PROVE t.disk[i][o] = "good"
  OBVIOUS
<1>2. Nothing[o] = "none"
  BY DEF Nothing
<1>3. Seen(t, i, o) = t.disk[i][o] /\ ~t.pieces[i].error
  BY <1>2 DEF Flat, Seen
<1> QED BY <1>3 DEF Right, Same

\* A piece that could be flushed is all in the file.
LEMMA FlushFlat ==
    ASSUME NEW s \in Storage, Clean(s), NEW I \in SUBSET (DOMAIN s.pieces), NEW t, Clean(t),
           FlushOf(s, t, I), NEW i \in I, ~(t.pieces[i].entry /\ t.pieces[i].error)
    PROVE  Flat(t, i)
<1>1. i \in DOMAIN t.pieces /\ i \in DOMAIN s.pieces /\ t.pieces[i].entry = s.pieces[i].entry
  BY DEF FlushOf, SameBooks, SameUse
<1>2. t.pieces[i].cells = Nothing
  BY <1>1 DEF FlushOf, Clean, Tidy
<1>3. ~t.pieces[i].error
  BY <1>1 DEF Clean, Faults
<1> QED BY <1>2, <1>3 DEF Flat

\* Piece i is done.
LEMMA DoneSound ==
    ASSUME NEW s \in Storage, Sound(s), NEW i \in DOMAIN s.pieces, i \notin s.have,
           NEW t, t = completePiece(s, i), Sure(s) => \A o \in Offset : s.disk[i][o] = "good"
    PROVE  Sound(t)
<1>1. /\ t \in Storage /\ t.have = s.have \cup {i} /\ DOMAIN t.pieces = (DOMAIN s.pieces) \ {i}
      /\ t.endGame = s.endGame /\ t.disk = s.disk /\ t.failures = s.failures
      /\ \A j \in (DOMAIN s.pieces) \ {i} : t.pieces[j] = s.pieces[j]
  <2>1. i \in Piece \ s.have
    BY StorageFields
  <2> QED BY <2>1, CompletePieceIs
<1>2. (Trusted(t) <=> Trusted(s)) /\ (Sure(t) <=> Sure(s))
  BY <1>1 DEF Trusted, Sure
<1>3. Clean(t)
  BY <1>1 DEF Sound, Clean, Tidy, Faults, NoBad
<1>4. \A j \in DOMAIN t.pieces : \A o : Seen(t, j, o) = Seen(s, j, o)
  BY <1>1 DEF Seen
<1>5. There(t)
  BY <1>1, <1>2, <1>4 DEF Sound, There, PieceThere
<1>6. Good(t)
  BY <1>1, <1>2 DEF Sound, Good
<1>7. Grown(t)
  BY <1>1 DEF Sound, Grown, Later
<1>8. InSequence(t)
  BY <1>1 DEF Sound, InSequence
<1> QED BY <1>1, <1>3, <1>5, <1>6, <1>7, <1>8 DEF Sound

\* The segments of the other pieces.
LEMMA DoneTracked ==
    ASSUME NEW s \in Storage, NEW i \in DOMAIN s.pieces, i \notin s.have,
           NEW t, t = completePiece(s, i), NEW g \in SegMap, NEW mm \in MemoMap, Tracked(s, g, mm),
           NEW h, \A c \in DOMAIN h : c \in DOMAIN g /\ h[c] = g[c] /\ h[c].index # i,
           \A c \in DOMAIN g : g[c].index = i \/ c \in DOMAIN h,
           \A c \in DOMAIN g : g[c].index \in DOMAIN s.pieces
    PROVE  Tracked(t, h, mm)
<1>1. /\ DOMAIN t.pieces = (DOMAIN s.pieces) \ {i}
      /\ t.endGame = s.endGame /\ t.disk = s.disk /\ t.failures = s.failures
      /\ \A j \in (DOMAIN s.pieces) \ {i} : t.pieces[j] = s.pieces[j]
  <2>1. i \in Piece \ s.have
    BY StorageFields
  <2> QED BY <2>1, CompletePieceIs
<1>2. Trusted(t) <=> Trusted(s)
  BY <1>1 DEF Trusted
<1>3. \A j \in DOMAIN t.pieces : Same(s, t, j)
  BY <1>1 DEF Same, Seen, SameHash
<1>4. \A c \in DOMAIN h : h[c].index \in DOMAIN t.pieces
  BY <1>1
<1>5. MemoThere(t, mm)
  BY <1>1, <1>2 DEF MemoThere, Tracked
<1>6. SegsThere(t, h)
  BY <1>2, <1>3, <1>4, SameWritten DEF SegsThere, Tracked
<1>7. Digests(t, h, mm)
  <2>1. \A j \in DOMAIN t.pieces : HeldIn(g, j) => HeldIn(h, j)
    BY <1>1 DEF HeldIn
  <2>2. \A j \in DOMAIN t.pieces : Digested(s, j, mm) => Digested(t, j, mm)
    BY <1>3, SameDigested
  <2>3. \A c \in DOMAIN h : Streamed(s, h[c].index, h[c].written) => Streamed(t, h[c].index, h[c].written)
    BY <1>3, <1>4, SameStreamed
  <2> QED BY <1>1, <2>1, <2>2, <2>3 DEF Digests, Tracked
<1>8. Ordered(t, h)
  BY <1>3, <1>4 DEF Ordered, Tracked, PassedBlocks, Same
<1> QED BY <1>5, <1>6, <1>7, <1>8 DEF Tracked

\* Only the end game flag differs.
EndGameOnly(s, t) ==
    /\ t \in Storage /\ t.have = s.have /\ t.pieces = s.pieces /\ t.disk = s.disk
    /\ t.failures = s.failures /\ (s.endGame => t.endGame)

\* Peers enter end game.
LEMMA EndGameSound ==
    ASSUME NEW s \in Storage, NEW t, EndGameOnly(s, t), P2P
    PROVE  /\ Sound(s) => Sound(t)
           /\ \A g, mm : Tracked(s, g, mm) => Tracked(t, g, mm)
<1>1. /\ t \in Storage /\ t.have = s.have /\ t.pieces = s.pieces /\ t.disk = s.disk
      /\ t.failures = s.failures /\ (s.endGame => t.endGame)
  BY DEF EndGameOnly
<1>2. (Trusted(t) <=> Trusted(s)) /\ (Sure(t) <=> Sure(s))
  BY <1>1 DEF Trusted, Sure
<1>3. Clean(s) => Clean(t)
  BY <1>1 DEF Clean, Tidy, Faults, NoBad
<1>4. \A i, o : Seen(t, i, o) = Seen(s, i, o)
  BY <1>1 DEF Seen
<1>5. There(s) => There(t)
  BY <1>1, <1>2, <1>4 DEF There, PieceThere
<1>6. Good(s) => Good(t)
  BY <1>1, <1>2 DEF Good
<1>7. Grown(s) => Grown(t)
  BY <1>1 DEF Grown, Later
<1>8. InSequence(s) => InSequence(t)
  BY <1>1 DEF InSequence
<1>9. Sound(s) => Sound(t)
  BY <1>3, <1>5, <1>6, <1>7, <1>8 DEF Sound
<1>10. ASSUME NEW g, NEW mm, Tracked(s, g, mm) PROVE Tracked(t, g, mm)
  <2>1. MemoThere(t, mm)
    BY <1>1, <1>2, <1>10 DEF MemoThere, Tracked
  <2>2. SegsThere(t, g)
    BY <1>1, <1>2, <1>4, <1>10 DEF SegsThere, Tracked, WrittenTo
  <2>3. \A i : i \in DOMAIN s.pieces => Same(s, t, i)
    BY <1>1, <1>4 DEF Same, SameHash
  <2>4. \A i, n : Streamed(s, i, n) => Streamed(t, i, n)
    BY <1>1, <1>4 DEF Streamed, Prefix, Stuck, DoneBelow
  <2>5. Digests(t, g, mm)
    BY <1>1, <1>10, <2>3, <2>4, SameDigested DEF Digests, Tracked
  <2>6. Ordered(t, g)
    BY <1>1, <1>10 DEF Ordered, Tracked, PassedBlocks
  <2> QED BY <2>1, <2>2, <2>5, <2>6 DEF Tracked
<1> QED BY <1>9, <1>10

\* A download without peers forgets its pieces.
LEMMA ForgottenSound ==
    ASSUME NEW s \in Storage, NEW t \in Storage, ~P2P, t.have = {}, DOMAIN t.pieces = {},
           t.endGame = s.endGame, t.disk = s.disk, t.failures = s.failures, Sound(s),
           NEW g, DOMAIN g = {}, NEW mm, DOMAIN mm = {}
    PROVE  Sound(t) /\ Tracked(t, g, mm)
<1>1. Clean(t)
  BY DEF Sound, Clean, Tidy, Faults, NoBad
<1>2. There(t) /\ Good(t) /\ InSequence(t)
  BY DEF There, Good, InSequence
<1>3. Grown(t)
  BY DEF Sound, Grown, Later
<1>4. Sound(t)
  BY <1>1, <1>2, <1>3 DEF Sound
<1>5. Tracked(t, g, mm)
  BY DEF Tracked, MemoThere, SegsThere, Digests, Ordered
<1> QED BY <1>4, <1>5

(***************************************************************************)
(* The operations of SegmentMan keep the books, or end the download.       *)
(***************************************************************************)
\* The pieces of the segments are in flight.
InFlight(s, g) == \A c \in DOMAIN g : g[c].index \in DOMAIN s.pieces

\* What the books say of the pieces in flight.
LEMMA BooksFacts ==
    ASSUME NEW s \in Storage, NEW g \in SegMap, NEW w, NEW J, Books(s, g, w, J)
    PROVE  Apart(s) /\ InFlight(s, g) /\ \A c \in DOMAIN g : OnlyOf(g, c)
<1>1. Apart(s)
  <2>1. DOMAIN s.pieces \in SUBSET Piece
    BY StorageFields
  <2> QED BY <2>1 DEF Books, Booked, Apart
<1>2. ASSUME NEW c \in DOMAIN g PROVE g[c].index \in DOMAIN s.pieces /\ OnlyOf(g, c)
  <2>1. HeldAlone(s, g, w, J, c, g[c].index)
    BY StreamHolds
  <2> QED BY <2>1 DEF HeldAlone, OnlyOf
<1> QED BY <1>1, <1>2 DEF InFlight

\* Segments and memo that were right about s are right about t.
StillTracked(s, t) ==
    \A g \in SegMap, mm \in MemoMap : InFlight(s, g) /\ Tracked(s, g, mm) => Tracked(t, g, mm)

\* A calm change that keeps all pieces.
LEMMA CalmKnown ==
    ASSUME NEW s \in Storage, Apart(s), Sound(s), NEW t, Calm(s, t), Steady(s, t),
           \A i \in DOMAIN s.pieces : Same(s, t, i)
    PROVE  Sound(t) /\ StillTracked(s, t)
<1>1. Sound(t)
  BY CalmSound
<1>2. ASSUME NEW g \in SegMap, NEW mm \in MemoMap, InFlight(s, g), Tracked(s, g, mm)
      PROVE  Tracked(t, g, mm)
  <2>1. \A c \in DOMAIN g : Same(s, t, g[c].index)
    BY <1>2 DEF InFlight
  <2> QED BY <1>2, <2>1, CalmTracked
<1>3. StillTracked(s, t)
  BY <1>2 DEF StillTracked
<1> QED BY <1>1, <1>3

\* What is known after the pieces in I have been flushed.
FlushedKept(s, t, I) ==
    /\ Sound(t) /\ StillTracked(s, t) /\ \A i \in DOMAIN s.pieces : Same(s, t, i)
    /\ \A i \in I : ~(t.pieces[i].entry /\ t.pieces[i].error) => Flat(t, i)

\* A flush keeps what is known of the data, the segments and the digests.
LEMMA FlushKnown ==
    ASSUME NEW s \in Storage, NEW I \in SUBSET (DOMAIN s.pieces), NEW ok \in Outcomes,
           NEW t, t = Flushed(s, I, ok), Apart(s), Sound(s)
    PROVE  FlushedKept(s, t, I)
<1>1. Calm(s, t) /\ Steady(s, t) /\ \A i \in DOMAIN s.pieces : Same(s, t, i)
  BY FlushCalm
<1>2. Sound(t) /\ StillTracked(s, t)
  BY <1>1, CalmKnown
<1>3. FlushOf(s, t, I)
  BY FlushedIs DEF Outcomes
<1>4. Clean(s) /\ Clean(t)
  BY <1>2 DEF Sound
<1>5. \A i \in I : ~(t.pieces[i].entry /\ t.pieces[i].error) => Flat(t, i)
  BY <1>3, <1>4, FlushFlat
<1> QED BY <1>1, <1>2, <1>5 DEF FlushedKept

\* What is known after piece i of m has been flushed, or could not be.
FlushKept(m, f, i) ==
    /\ Sound(f.ps)
    /\ ~f.failed => /\ Flat(f.ps, i) /\ StillTracked(m.ps, f.ps)
                    /\ \A j \in DOMAIN m.ps.pieces : Same(m.ps, f.ps, j)

\* A flush keeps what is known of the data, or ends the download.
LEMMA FlushOrFailKnown ==
    ASSUME NEW m \in ManSet, NEW i \in DOMAIN m.ps.pieces, NEW ok \in Outcomes, ~m.failed,
           Apart(m.ps), Sound(m.ps), NEW f, f = FlushOrFail(m, i, ok)
    PROVE  FlushKept(m, f, i)
<1> DEFINE I == {i}
           s == Flushed(m.ps, I, ok)
           z == clearAllBlock(s, i)
<1>1. m.ps \in Storage /\ I \in SUBSET (DOMAIN m.ps.pieces) /\ i \in I
  BY ManFields
<1>2. f = IF s.pieces[i].entry /\ s.pieces[i].error
          THEN [m EXCEPT !.ps = z, !.failed = TRUE] ELSE [m EXCEPT !.ps = s]
  BY DEF FlushOrFail, flushWrCache
<1> HIDE DEF I
<1>3. FlushedKept(m.ps, s, I)
  BY <1>1, FlushKnown
<1>4. FlushOf(m.ps, s, I)
  BY <1>1, FlushedIs DEF Outcomes
<1>5. s \in Storage /\ DOMAIN s.pieces = DOMAIN m.ps.pieces /\ s.have = m.ps.have
  BY <1>4 DEF FlushOf, SameBooks
<1> HIDE DEF s
<1>6. CASE s.pieces[i].entry /\ s.pieces[i].error
  <2>1. f.ps = z /\ f.failed = TRUE
    BY <1>2, <1>6 DEF ManSet
  <2>2. Emptied(s, z, i)
    BY <1>5, ClearAllBlockIs
  <2>3. Calm(s, z)
    BY <1>5, <2>2, EmptiedCalm
  <2>4. Apart(s)
    BY <1>5 DEF Apart
  <2>5. Sound(z)
    BY <1>3, <1>5, <2>3, <2>4, CalmSound DEF FlushedKept
  <2> QED BY <2>1, <2>5 DEF FlushKept
<1>7. CASE ~(s.pieces[i].entry /\ s.pieces[i].error)
  <2>1. f.ps = s
    BY <1>2, <1>7 DEF ManSet
  <2> QED BY <1>1, <1>3, <1>7, <2>1 DEF FlushKept, FlushedKept
<1> QED BY <1>6, <1>7

\* A segment starts in a piece that has been flushed.
LEMMA SegmentStarts ==
    ASSUME NEW e \in ManSet, NEW i \in DOMAIN e.ps.pieces, e.ps.pieces[i].blocks # Block,
           Apart(e.ps), Sound(e.ps), Tracked(e.ps, e.segs, e.memo), InFlight(e.ps, e.segs),
           ~HeldIn(e.segs, i), NEW v, NEW I, Marked(e.ps, v, I),
           NEW c, NEW r, r.index = i, r.written = BelievedLength(e, i),
           NEW k, SegmentAdded(e.segs, k, c, r)
    PROVE  Sound(v) /\ Tracked(v, k, e.memo)
<1> DEFINE b == FirstMissing(e.ps, i)
           n == BelievedLength(e, i)
<1>1. e.ps \in Storage /\ e.segs \in SegMap /\ e.memo \in MemoMap
  BY ManFields
<1>2. DOMAIN v.pieces = DOMAIN e.ps.pieces /\ v \in Storage
      /\ v.pieces[i].blocks = e.ps.pieces[i].blocks
  BY DEF Marked
<1>3. AllCarried(e.ps, v)
  BY <1>1, MarkedCarried
<1>4. Calm(e.ps, v) /\ Steady(e.ps, v) /\ \A j \in DOMAIN v.pieces : Same(e.ps, v, j)
  BY <1>1, <1>3, CarriedCalm
<1>5. Sound(v) /\ StillTracked(e.ps, v)
  BY <1>1, <1>2, <1>4, CalmKnown
<1>6. Tracked(v, e.segs, e.memo)
  BY <1>1, <1>5 DEF StillTracked
<1>7. /\ n \in 0 .. PieceLength
      /\ n = At(b) \/ (i \in DOMAIN e.memo /\ n = e.memo[i] /\ Inside(n, b))
      /\ i \in DOMAIN e.memo /\ Inside(e.memo[i], b) => n = e.memo[i]
  BY BelievedLengthIs
<1>8. /\ b \in Block /\ b \notin e.ps.pieces[i].blocks
      /\ \A d \in Block : d \notin e.ps.pieces[i].blocks => b <= d
  BY <1>1, FirstMissingIs
<1> HIDE DEF b
<1>9. MayStart(v, i, e.memo, b, n)
  <2>1. First(v, i, b)
    BY <1>2, <1>8 DEF First
  <2> HIDE DEF n
  <2> QED BY <1>7, <2>1 DEF MayStart
<1>10. n = r.written
  OBVIOUS
<1> HIDE DEF n
<1>11. There(v) /\ InSequence(v)
  BY <1>5 DEF Sound
<1> QED BY <1>1, <1>2, <1>5, <1>6, <1>9, <1>10, <1>11, StartTracked

\* What is known of the data that the segments are of.
Known(m) == Sound(m.ps) /\ (~m.failed => Tracked(m.ps, m.segs, m.memo))

Sane(m, w) ==
    /\ m \in ManSet
    /\ m.failed => Weak(m.ps)
    /\ ~m.failed => Books(m.ps, m.segs, w, {})
    /\ Known(m)

\* A stream takes a piece.
LEMMA CheckoutIs ==
    ASSUME NEW m, NEW w, Sane(m, w), ~m.failed, NEW c \in Stream, c \notin DOMAIN m.segs,
           NEW i \in Piece \ (m.ps.have \cup m.ps.use), NEW ok \in Outcomes,
           NEW f, f = checkoutSegment(m, c, i, ok)
    PROVE  /\ Sane(f, w)
           /\ ~f.failed => DOMAIN f.segs = (DOMAIN m.segs) \cup {c} /\ f.segs[c].index = i
                           /\ \A d \in DOMAIN m.segs : f.segs[d] = m.segs[d]
<1> DEFINE I == {i}
           t == checkOutPieces(m.ps, I, c)
           m1 == [m EXCEPT !.ps = t]
           e == FlushOrFail(m1, i, ok)
           v == setUsedBySegment(e.ps, I, TRUE)
           r == [index |-> i, written |-> BelievedLength(e, i)]
           k == [d \in (DOMAIN e.segs) \cup {c} |-> IF d = c THEN r ELSE e.segs[d]]
<1>1. /\ m \in ManSet /\ m.ps \in Storage /\ m.segs \in SegMap /\ m.memo \in MemoMap
      /\ Books(m.ps, m.segs, w, {}) /\ Weak(m.ps)
  BY ManFields, BooksWeak DEF Sane
<1>10. Sound(m.ps) /\ Tracked(m.ps, m.segs, m.memo)
  BY DEF Sane, Known
<1>11. Apart(m.ps) /\ InFlight(m.ps, m.segs)
  BY <1>1, BooksFacts
<1>2. HandedOut(m.ps, t, I, c)
  <2>1. I \in SUBSET Piece /\ c \in Cuid
    BY DEF Cuid
  <2> HIDE DEF I
  <2> QED BY <1>1, <2>1, CheckOutPiecesIs
<1>3. /\ t \in Storage /\ t.have = m.ps.have /\ DOMAIN t.pieces = (DOMAIN m.ps.pieces) \cup I
      /\ \A j \in DOMAIN m.ps.pieces : t.pieces[j].blocks = m.ps.pieces[j].blocks
      /\ \A j \in I \ DOMAIN m.ps.pieces : t.pieces[j].blocks = {}
      /\ i \in I /\ i \in DOMAIN t.pieces
  <2>1. i \in I
    OBVIOUS
  <2> HIDE DEF I
  <2> QED BY <1>2, <2>1 DEF HandedOut
<1>4. Weak(t)
  <2>1. \A j \in I : j \notin m.ps.have
    OBVIOUS
  <2> HIDE DEF I, t
  <2> QED BY <1>1, <1>3, <2>1, Numbers DEF Weak
<1>12. Sound(t) /\ Tracked(t, m.segs, m.memo) /\ Apart(t)
  <2> HIDE DEF I, t
  <2>1. Calm(m.ps, t) /\ Steady(m.ps, t) /\ \A j \in DOMAIN m.ps.pieces : Same(m.ps, t, j)
    BY <1>1, <1>2, HandedOutCalm
  <2>2. Sound(t) /\ StillTracked(m.ps, t)
    BY <1>1, <1>10, <1>11, <2>1, CalmKnown
  <2> QED BY <1>1, <1>4, <1>10, <1>11, <2>2 DEF StillTracked, Weak, Apart
<1>13. InFlight(t, m.segs)
  <2> HIDE DEF I, t
  <2> QED BY <1>3, <1>11 DEF InFlight
<1>5. m1 \in ManSet /\ m1.ps = t /\ m1.segs = m.segs /\ m1.memo = m.memo /\ ~m1.failed
  <2> HIDE DEF t
  <2> QED BY <1>1, <1>3, ManStorage
<1>6. f = IF e.failed THEN e
          ELSE [e EXCEPT !.ps = v, !.segs = k]
  BY DEF checkoutSegment
<1> HIDE DEF t, m1
<1>7. /\ e \in ManSet /\ e.segs = m.segs /\ e.memo = m.memo
      /\ ~e.failed => FlushOf(t, e.ps, {i}) /\ SameBooks(t, e.ps)
      /\ e.failed => FailOf(t, e.ps, i)
  <2>1. FlushOutcome(m1, e, i)
    BY <1>3, <1>5, FlushOrFailIs
  <2> HIDE DEF e
  <2> QED BY <1>5, <2>1 DEF FlushOutcome
<1>14. FlushKept(m1, e, i)
  BY <1>3, <1>5, <1>12, FlushOrFailKnown
<1> HIDE DEF e
<1>15. Sound(e.ps) /\ (~e.failed => Tracked(e.ps, e.segs, e.memo))
  BY <1>1, <1>5, <1>7, <1>12, <1>13, <1>14 DEF FlushKept, StillTracked
<1>8. CASE e.failed
  <2>1. Weak(e.ps)
    BY <1>3, <1>4, <1>7, <1>8, FailWeak DEF Weak
  <2>2. f = e
    BY <1>6, <1>8
  <2> QED BY <1>7, <1>8, <1>15, <2>1, <2>2 DEF Sane, Known
<1>9. CASE ~e.failed
  <2>1. e.ps \in Storage /\ SameBooks(t, e.ps)
    BY <1>7, <1>9, ManFields
  <2>2. i \in DOMAIN e.ps.pieces /\ e.ps.pieces[i].blocks # Block
    BY <1>3, <1>4, <2>1 DEF SameBooks, SameUse, Weak
  <2>3. Marked(e.ps, v, I) /\ v.pieces[i].usedBySegment
    <3> DEFINE tr == TRUE
    <3>1. tr \in BOOLEAN /\ v = setUsedBySegment(e.ps, I, tr) /\ tr
      OBVIOUS
    <3> HIDE DEF tr, v, I
    <3>2. Marked(e.ps, v, I) /\ (tr => \A j \in I \cap DOMAIN e.ps.pieces : v.pieces[j].usedBySegment)
      BY <2>1, <3>1, SetUsedBySegmentIs
    <3>3. i \in I \cap DOMAIN e.ps.pieces
      BY <1>3, <2>2
    <3> QED BY <3>1, <3>2, <3>3
  <2> HIDE DEF v
  <2>4. v \in Storage
    BY <2>3 DEF Marked
  <2>5. BelievedLength(e, i) \in 0 .. PieceLength
    BY <1>7, <2>2, BelievedLengthIs
  <2>6. r \in SegRec /\ r.index = i /\ r.written = BelievedLength(e, i)
    BY <2>5 DEF SegRec
  <2> HIDE DEF r
  <2>7. /\ k \in SegMap /\ DOMAIN k = (DOMAIN m.segs) \cup {c} /\ k[c] = r
        /\ \A d \in DOMAIN m.segs : k[d] = m.segs[d]
        /\ \A x : HeldBy(k, x, r.index) = HeldBy(m.segs, x, r.index) \cup {c}
        /\ \A x, j : j # r.index => HeldBy(k, x, j) = HeldBy(m.segs, x, j)
        /\ SegmentAdded(m.segs, k, c, r)
    <3>1. k = [d \in (DOMAIN m.segs) \cup {c} |-> IF d = c THEN r ELSE m.segs[d]]
      BY <1>7
    <3> HIDE DEF k
    <3>2. SegmentAdded(m.segs, k, c, r)
      BY <1>1, <2>6, <3>1, AddSegment
    <3> QED BY <3>2 DEF SegmentAdded
  <2> HIDE DEF k
  <2>8. f \in ManSet /\ f.ps = v /\ f.segs = k /\ f.memo = e.memo /\ f.failed = e.failed
    BY <1>6, <1>7, <1>9, <2>4, <2>7 DEF ManSet
  <2>9. /\ \A a : Booked(m.ps, i, {}, a, {}) => Booked(v, i, {c}, a, {})
        /\ \A j, h, a : j # i /\ Booked(m.ps, j, h, a, {}) => Booked(v, j, h, a, {})
    <3>1. Marked(e.ps, v, {i}) /\ t = checkOutPieces(m.ps, {i}, c)
      BY <2>3 DEF t, I
    <3>2. StreamTook(m.ps, v, i, c)
      BY <1>1, <2>1, <2>3, <3>1, BookedStreamTakes
    <3> QED BY <3>2 DEF StreamTook
  <2>10. HeldBy(m.segs, w, i) = {}
    <3>1. Booked(m.ps, i, HeldBy(m.segs, w, i), Asked(w, i), {})
      BY <1>1 DEF Books
    <3> QED BY <3>1 DEF Booked
  <2>11. ASSUME NEW j \in Piece PROVE Booked(v, j, HeldBy(k, w, j), Asked(w, j), {})
    <3>1. Booked(m.ps, j, HeldBy(m.segs, w, j), Asked(w, j), {})
      BY <1>1 DEF Books
    <3>2. CASE j = i
      <4>1. HeldBy(k, w, j) = {c}
        <5>1. HeldBy(k, w, i) = HeldBy(m.segs, w, i) \cup {c}
          BY <2>6, <2>7
        <5>2. {} \cup {c} = {c}
          OBVIOUS
        <5> QED BY <2>10, <3>2, <5>1, <5>2
      <4> QED BY <2>9, <2>10, <3>1, <3>2, <4>1
    <3>3. CASE j # i
      <4>1. HeldBy(k, w, j) = HeldBy(m.segs, w, j)
        BY <2>6, <2>7, <3>3
      <4> QED BY <2>9, <3>1, <3>3, <4>1
    <3> QED BY <3>2, <3>3
  <2>12. Books(f.ps, f.segs, w, {})
    BY <2>8, <2>11 DEF Books
  <2>15. Sound(v) /\ Tracked(v, k, e.memo)
    <3>1. ~HeldIn(e.segs, i)
      BY <1>7, <2>10 DEF HeldBy, HeldIn
    <3>2. Apart(e.ps) /\ InFlight(e.ps, e.segs)
      BY <1>7, <1>12, <1>13, <2>1 DEF Apart, InFlight, SameBooks
    <3>3. SegmentAdded(e.segs, k, c, r)
      BY <1>7, <2>7
    <3> QED BY <1>7, <1>9, <1>15, <2>2, <2>3, <2>6, <3>1, <3>2, <3>3, SegmentStarts
  <2>13. Sane(f, w)
    BY <1>9, <2>8, <2>12, <2>15 DEF Sane, Known
  <2>14. f.segs[c].index = i
    BY <2>6, <2>7, <2>8
  <2> QED BY <2>7, <2>8, <2>13, <2>14
<1> QED BY <1>8, <1>9

\* A piece of a segment that is given back is free.
LEMMA BookedGivenBack ==
    ASSUME NEW s \in Storage, NEW I \in SUBSET Piece, NEW D, NEW u, Marked(s, u, I),
           NEW t, t = cancelPieces(u, I, D)
    PROVE  /\ \A j, h, a : j \notin I /\ Booked(s, j, h, a, {}) => Booked(t, j, h, a, {})
           /\ \A j, c : j \in I /\ c \in D /\ Booked(s, j, {c}, {}, {}) => Booked(t, j, {}, {}, {})
<1>1. /\ u \in Storage /\ u.have = s.have /\ u.use = s.use /\ u.endGame = s.endGame
      /\ DOMAIN u.pieces = DOMAIN s.pieces
      /\ \A i \in DOMAIN s.pieces :
           /\ u.pieces[i].blocks = s.pieces[i].blocks
           /\ u.pieces[i].useBlocks = s.pieces[i].useBlocks
           /\ u.pieces[i].users = s.pieces[i].users
           /\ i \notin I => u.pieces[i].usedBySegment = s.pieces[i].usedBySegment
  BY DEF Marked
<1>2. GivenBack(u, t, I, D)
  BY <1>1, CancelPiecesIs
<1>3. ASSUME NEW j, NEW h, NEW a, j \notin I, Booked(s, j, h, a, {}) PROVE Booked(t, j, h, a, {})
  <2>1. /\ j \in u.have <=> j \in s.have
        /\ j \in u.use <=> j \in s.use
        /\ j \in DOMAIN u.pieces <=> j \in DOMAIN s.pieces
        /\ j \in DOMAIN s.pieces =>
             /\ u.pieces[j].blocks = s.pieces[j].blocks
             /\ u.pieces[j].useBlocks = s.pieces[j].useBlocks
             /\ u.pieces[j].users = s.pieces[j].users
             /\ u.pieces[j].usedBySegment = s.pieces[j].usedBySegment
    BY <1>1, <1>3
  <2>2. Booked(u, j, h, a, {})
    BY <1>1, <1>3, <2>1, BookedSame
  <2> QED BY <1>1, <1>3, <2>2, BookedCancelPieces
<1>4. ASSUME NEW j, NEW c, j \in I, c \in D, Booked(s, j, {c}, {}, {})
      PROVE  Booked(t, j, {}, {}, {})
  <2>1. /\ t.have = u.have /\ t.endGame = u.endGame
        /\ j \in t.use <=> j \in u.use /\ (j \in DOMAIN u.pieces => ~(u.pieces[j].users \subseteq D))
        /\ j \in DOMAIN t.pieces => j \in DOMAIN u.pieces
        /\ j \in DOMAIN t.pieces =>
             /\ t.pieces[j].blocks = u.pieces[j].blocks
             /\ t.pieces[j].useBlocks = u.pieces[j].useBlocks
             /\ t.pieces[j].users = u.pieces[j].users \ D
    BY <1>2, <1>4 DEF GivenBack
  <2>2. j \in s.use => j \in DOMAIN s.pieces
    BY <1>4 DEF Booked
  <2>3. j \in DOMAIN s.pieces => /\ j \notin s.have /\ s.pieces[j].users = {c}
                                 /\ s.pieces[j].blocks # Block
                                 /\ s.endGame \/ s.pieces[j].useBlocks = {}
    BY <1>4 DEF Booked
  <2>4. j \notin t.use
    BY <1>1, <1>4, <2>1, <2>2, <2>3
  <2>5. j \in DOMAIN t.pieces => /\ j \notin t.have /\ t.pieces[j].users = {}
                                 /\ t.pieces[j].blocks # Block
                                 /\ t.endGame \/ t.pieces[j].useBlocks = {}
    BY <1>1, <1>4, <2>1, <2>3
  <2> QED BY <2>4, <2>5 DEF Booked, Single
<1> QED BY <1>3, <1>4

\* The commands in D have given their segments back.
GaveBack(m, f, w, D) ==
    /\ f \in ManSet /\ f.failed = m.failed /\ Books(f.ps, f.segs, w, {})
    /\ DOMAIN f.segs = (DOMAIN m.segs) \ D
    /\ \A d \in DOMAIN f.segs : f.segs[d] = m.segs[d]

\* Carried twice.
LEMMA CarriedOn ==
    ASSUME NEW s, NEW u, NEW t, AllCarried(s, u), AllCarried(u, t)
    PROVE  AllCarried(s, t)
BY DEF AllCarried, Carried, SameHash

\* The pieces of the segments of D are all in the file.
AllFlat(m, D) == \A c \in D : Flat(m.ps, m.segs[c].index)

\* Segments are given back.
LEMMA GiveBackIs ==
    ASSUME NEW m \in ManSet, NEW w, Books(m.ps, m.segs, w, {}),
           NEW D \in SUBSET (DOMAIN m.segs), NEW f, f = GiveBack(m, D)
    PROVE  /\ GaveBack(m, f, w, D)
           /\ AllFlat(m, D) /\ Known(m) /\ ~m.failed => Known(f)
<1> DEFINE I == {m.segs[c].index : c \in D}
           fa == FALSE
           u == setUsedBySegment(m.ps, I, fa)
           t == cancelPieces(u, I, D)
           g == [c \in (DOMAIN m.segs) \ D |-> m.segs[c]]
           k == MemoAfter(m, D, I)
<1>1. m.ps \in Storage /\ m.segs \in SegMap /\ m.memo \in MemoMap
  BY ManFields
<1>2. f = [m EXCEPT !.ps = t, !.segs = g, !.memo = k]
  BY DEF GiveBack, MemoAfter
<1>4. \A i : i \in I <=> \E c \in D : m.segs[c].index = i
  OBVIOUS
<1> HIDE DEF I
<1>13. PiecesOf(m, D, I)
  BY <1>4 DEF PiecesOf
<1>14. Remembered(m, k, D, I)
  BY <1>13, MemoIs
<1> HIDE DEF k
<1>3. k \in MemoMap /\ I \in SUBSET Piece
  BY <1>14 DEF Remembered
<1>5. Marked(m.ps, u, I)
  <2>1. fa \in BOOLEAN
    OBVIOUS
  <2> HIDE DEF fa
  <2> QED BY <1>1, <2>1, SetUsedBySegmentIs
<1> HIDE DEF u
<1>6. /\ \A j, h, a : j \notin I /\ Booked(m.ps, j, h, a, {}) => Booked(t, j, h, a, {})
      /\ \A j, c : j \in I /\ c \in D /\ Booked(m.ps, j, {c}, {}, {}) => Booked(t, j, {}, {}, {})
  BY <1>1, <1>3, <1>5, BookedGivenBack
<1>7. /\ t \in Storage /\ AllCarried(m.ps, t)
      /\ \A j \in DOMAIN m.ps.pieces : j \notin I => j \in DOMAIN t.pieces
  <2>1. u \in Storage /\ DOMAIN u.pieces = DOMAIN m.ps.pieces
    BY <1>5 DEF Marked
  <2>2. GivenBack(u, t, I, D)
    BY <1>3, <2>1, CancelPiecesIs
  <2>3. AllCarried(m.ps, u)
    BY <1>1, <1>5, MarkedCarried
  <2> HIDE DEF t
  <2>4. AllCarried(u, t) /\ \A j \in DOMAIN u.pieces : j \notin I => j \in DOMAIN t.pieces
    BY <2>1, <2>2, GivenBackCarried
  <2> QED BY <2>1, <2>2, <2>3, <2>4, CarriedOn DEF GivenBack
<1> HIDE DEF t
<1>8. DOMAIN m.segs \in SUBSET Stream /\ D \in SUBSET Stream
  BY <1>1, UseSegs
<1>9. /\ g \in SegMap /\ DOMAIN g = (DOMAIN m.segs) \ D
      /\ \A d \in DOMAIN g : g[d] = m.segs[d]
      /\ \A x, i : HeldBy(g, x, i) = HeldBy(m.segs, x, i) \ D
  BY <1>1, <1>8, DropSegments
<1> HIDE DEF g
<1>10. f \in ManSet /\ f.ps = t /\ f.segs = g /\ f.memo = k /\ f.failed = m.failed
  BY <1>2, <1>3, <1>7, <1>9 DEF ManSet
<1>11. ASSUME NEW j \in Piece PROVE Booked(t, j, HeldBy(g, w, j), Asked(w, j), {})
  <2>1. Booked(m.ps, j, HeldBy(m.segs, w, j), Asked(w, j), {})
    BY DEF Books
  <2>2. CASE j \notin I
    <3>1. HeldBy(m.segs, w, j) \cap D = {}
      <4>1. \A c \in D : m.segs[c].index # j /\ c \notin Peer
        BY <1>4, <1>8, <2>2, TransferAssumption
      <4> QED BY <4>1 DEF HeldBy
    <3>2. HeldBy(g, w, j) = HeldBy(m.segs, w, j)
      BY <1>9, <3>1
    <3> QED BY <1>6, <2>1, <2>2, <3>2
  <2>3. CASE j \in I
    <3>1. PICK c \in D : m.segs[c].index = j
      BY <1>4, <2>3
    <3>2. HeldBy(m.segs, w, j) = {c} /\ Asked(w, j) = {}
      <4>1. HeldAlone(m.ps, m.segs, w, {}, c, j)
        BY <1>1, <3>1, StreamHolds
      <4> QED BY <4>1 DEF HeldAlone
    <3>3. HeldBy(g, w, j) = {}
      BY <1>9, <3>2
    <3>4. Booked(t, j, {}, {}, {})
      BY <1>6, <2>1, <2>3, <3>2
    <3> QED BY <3>2, <3>3, <3>4
  <2> QED BY <2>2, <2>3
<1>12. Books(f.ps, f.segs, w, {})
  BY <1>10, <1>11 DEF Books
<1>15. ASSUME AllFlat(m, D), Known(m), ~m.failed PROVE Known(f)
  <2>1. Sound(m.ps) /\ Tracked(m.ps, m.segs, m.memo)
    BY <1>15 DEF Known
  <2>2. Apart(m.ps) /\ InFlight(m.ps, m.segs) /\ \A c \in DOMAIN m.segs : OnlyOf(m.segs, c)
    BY <1>1, BooksFacts
  <2>3. Sound(t)
    BY <1>1, <1>7, <2>1, <2>2, CarriedCalm, CalmSound
  <2>4. \A c \in DOMAIN g : g[c].index \in DOMAIN t.pieces
    <3>1. \A c \in DOMAIN g : g[c].index \notin I
      BY <1>4, <1>9, <2>2 DEF OnlyOf
    <3> QED BY <1>7, <1>9, <2>2, <3>1 DEF InFlight
  <2>5. \A c \in DOMAIN m.segs : m.segs[c].index \in DOMAIN m.ps.pieces
    BY <2>2 DEF InFlight
  <2>6. \A c \in D : Flat(m.ps, m.segs[c].index)
    BY <1>15 DEF AllFlat
  <2>7. Tracked(t, g, k)
    BY <1>3, <1>7, <1>9, <1>13, <1>14, <2>1, <2>4, <2>5, <2>6, GiveBackTracked
  <2> QED BY <1>10, <2>3, <2>7 DEF Known
<1> QED BY <1>9, <1>10, <1>12, <1>15 DEF GaveBack

\* Command c gives its segment back, or the download fails.
LEMMA CancelSegmentIs ==
    ASSUME NEW m, NEW w, Sane(m, w), NEW c, NEW ok \in Outcomes,
           NEW f, f = cancelSegment(m, c, ok)
    PROVE  /\ Sane(f, w)
           /\ m.failed => f.failed
           /\ ~f.failed => GaveBack(m, f, w, {c})
<1> DEFINE i == m.segs[c].index
           e == FlushOrFail(m, i, ok)
           D == {c}
           b == GiveBack(e, D)
<1>1. m \in ManSet /\ m.ps \in Storage /\ m.segs \in SegMap
  BY ManFields DEF Sane
<1>2. CASE m.failed
  BY <1>2 DEF cancelSegment
<1>3. CASE ~m.failed /\ c \notin DOMAIN m.segs
  <2>1. f = m
    BY <1>3 DEF cancelSegment
  <2>2. (DOMAIN m.segs) \ {c} = DOMAIN m.segs
    BY <1>3
  <2> QED BY <1>1, <1>3, <2>1, <2>2 DEF GaveBack, Sane
<1>4. CASE ~m.failed /\ c \in DOMAIN m.segs
  <2>1. f = IF e.failed THEN e ELSE b
    BY <1>4 DEF cancelSegment
  <2>2. Books(m.ps, m.segs, w, {})
    BY <1>4 DEF Sane
  <2>3. i \in DOMAIN m.ps.pieces /\ i \notin m.ps.have
    <3>1. HeldAlone(m.ps, m.segs, w, {}, c, i)
      BY <1>1, <1>4, <2>2, StreamHolds
    <3> QED BY <3>1 DEF HeldAlone
  <2>4. FlushOutcome(m, e, i)
    BY <1>1, <1>4, <2>3, FlushOrFailIs
  <2>7. Apart(m.ps) /\ InFlight(m.ps, m.segs)
    BY <1>1, <2>2, BooksFacts
  <2>8. Sound(m.ps) /\ Tracked(m.ps, m.segs, m.memo) /\ m.memo \in MemoMap
    BY <1>1, <1>4, ManFields DEF Sane, Known
  <2>9. FlushKept(m, e, i)
    BY <1>1, <1>4, <2>3, <2>7, <2>8, FlushOrFailKnown
  <2> HIDE DEF e, i
  <2>5. CASE e.failed
    <3>1. e \in ManSet /\ FailOf(m.ps, e.ps, i)
      BY <2>4, <2>5 DEF FlushOutcome
    <3>2. Weak(m.ps)
      BY <1>1, <2>2, BooksWeak
    <3>3. Weak(e.ps)
      BY <2>3, <3>1, <3>2, FailWeak DEF Weak
    <3> QED BY <2>1, <2>5, <2>9, <3>1, <3>3 DEF Sane, Known, FlushKept
  <2>6. CASE ~e.failed
    <3>1. e \in ManSet /\ e.segs = m.segs /\ e.memo = m.memo /\ SameBooks(m.ps, e.ps)
      BY <2>4, <2>6 DEF FlushOutcome
    <3>9. Known(e) /\ Flat(e.ps, i)
      BY <1>1, <2>6, <2>7, <2>8, <2>9, <3>1 DEF FlushKept, StillTracked, Known
    <3>10. AllFlat(e, D)
      BY <3>1, <3>9 DEF AllFlat, i
    <3>2. Books(e.ps, e.segs, w, {})
      BY <2>2, <3>1, BooksData
    <3>3. D \in SUBSET (DOMAIN e.segs)
      BY <1>4, <3>1
    <3>4. f = b
      BY <2>1, <2>6
    <3> HIDE DEF D
    <3>5. GaveBack(e, b, w, D) /\ Known(b)
      BY <2>6, <3>1, <3>2, <3>3, <3>9, <3>10, GiveBackIs
    <3> HIDE DEF b
    <3>6. /\ f \in ManSet /\ f.failed = e.failed /\ Books(f.ps, f.segs, w, {})
          /\ DOMAIN f.segs = (DOMAIN m.segs) \ D
          /\ \A d \in DOMAIN f.segs : f.segs[d] = m.segs[d]
      BY <3>1, <3>4, <3>5 DEF GaveBack
    <3>7. f.failed = m.failed
      BY <1>1, <1>4, <2>6, <3>1, <3>6, ManFields
    <3>8. GaveBack(m, f, w, D)
      BY <3>6, <3>7 DEF GaveBack
    <3> QED BY <1>4, <2>6, <3>4, <3>5, <3>6, <3>7, <3>8 DEF Sane, D
  <2> QED BY <2>5, <2>6
<1> QED BY <1>1, <1>2, <1>3, <1>4

\* Books in order, except that piece i may be complete.
BooksBut(s, g, w, i) == Books(s, g, w, {i})

\* Of the other pieces none is complete.
LEMMA BooksOther ==
    ASSUME NEW s, NEW g, NEW w, NEW i, BooksBut(s, g, w, i), NEW j \in Piece, j # i
    PROVE  Booked(s, j, HeldBy(g, w, j), Asked(w, j), {})
<1>1. Booked(s, j, HeldBy(g, w, j), Asked(w, j), {i})
  BY DEF Books, BooksBut
<1>2. j \in DOMAIN s.pieces => s.pieces[j].blocks # Block
  BY <1>1 DEF Booked
<1> QED BY <1>1, <1>2, BookedIncomplete

\* The books with one piece that might have been complete.
LEMMA BooksOne ==
    ASSUME NEW s, NEW g, NEW w, NEW i, BooksBut(s, g, w, i),
           i \in DOMAIN s.pieces => s.pieces[i].blocks # Block
    PROVE  Books(s, g, w, {})
<1>1. ASSUME NEW j \in Piece PROVE Booked(s, j, HeldBy(g, w, j), Asked(w, j), {})
  <2>1. CASE j = i
    <3>1. Booked(s, j, HeldBy(g, w, j), Asked(w, j), {i})
      BY DEF Books, BooksBut
    <3> QED BY <2>1, <3>1, BookedIncomplete
  <2>2. CASE j # i
    BY <2>2, BooksOther
  <2> QED BY <2>1, <2>2
<1> QED BY <1>1 DEF Books

\* The written length of a segment is changed.
LEMMA SetWritten ==
    ASSUME NEW g \in SegMap, NEW c \in DOMAIN g, NEW n \in 0 .. PieceLength,
           NEW k, k = [g EXCEPT ![c].written = n]
    PROVE  /\ k \in SegMap /\ DOMAIN k = DOMAIN g
           /\ k[c].index = g[c].index /\ k[c].written = n
           /\ \A d \in DOMAIN g : d # c => k[d] = g[d]
           /\ \A d \in DOMAIN g : k[d].index = g[d].index
           /\ \A w, i : HeldBy(k, w, i) = HeldBy(g, w, i)
<1> DEFINE r == [g[c] EXCEPT !.written = n]
<1>1. DOMAIN g \in SUBSET Stream /\ g \in [DOMAIN g -> SegRec] /\ g[c] \in SegRec
  BY UseSegs
<1>2. r \in SegRec /\ r.index = g[c].index /\ r.written = n
  BY <1>1 DEF SegRec
<1>3. k = [g EXCEPT ![c] = r]
  OBVIOUS
<1> HIDE DEF r
<1>4. /\ k \in [DOMAIN g -> SegRec] /\ k[c] = r
      /\ \A d \in DOMAIN g : d # c => k[d] = g[d]
  BY <1>1, <1>2, <1>3
<1>5. k \in SegMap /\ DOMAIN k = DOMAIN g
  BY <1>1, <1>4, MakeSegs
<1>6. \A d \in DOMAIN g : k[d].index = g[d].index
  BY <1>2, <1>4
<1>7. \A w, i : HeldBy(k, w, i) = HeldBy(g, w, i)
  BY <1>5, <1>6 DEF HeldBy
<1> QED BY <1>2, <1>4, <1>5, <1>6, <1>7

\* The segment of c has been written up to n, piece i of storage t has changed.
Rewritten(m, f, c, t, n) ==
    /\ f \in ManSet /\ f.ps = t /\ f.memo = m.memo /\ f.failed = m.failed
    /\ DOMAIN f.segs = DOMAIN m.segs
    /\ f.segs[c].index = m.segs[c].index /\ f.segs[c].written = n
    /\ \A d \in DOMAIN m.segs : d # c => f.segs[d] = m.segs[d]
    /\ \A w, i : HeldBy(f.segs, w, i) = HeldBy(m.segs, w, i)

\* The storage and the written length of a segment are replaced.
LEMMA RewrittenIs ==
    ASSUME NEW m \in ManSet, NEW c \in DOMAIN m.segs, NEW t \in Storage,
           NEW n \in 0 .. PieceLength,
           NEW f, f = [m EXCEPT !.ps = t, !.segs[c].written = n]
    PROVE  Rewritten(m, f, c, t, n)
<1> DEFINE k == [m.segs EXCEPT ![c].written = n]
<1>1. m.segs \in SegMap
  BY ManFields
<1>2. /\ k \in SegMap /\ DOMAIN k = DOMAIN m.segs
      /\ k[c].index = m.segs[c].index /\ k[c].written = n
      /\ \A d \in DOMAIN m.segs : d # c => k[d] = m.segs[d]
      /\ \A w, i : HeldBy(k, w, i) = HeldBy(m.segs, w, i)
  BY <1>1, SetWritten
<1>3. f = [m EXCEPT !.ps = t, !.segs = k]
  OBVIOUS
<1> HIDE DEF k
<1>4. /\ f \in ManSet /\ f.ps = t /\ f.memo = m.memo /\ f.failed = m.failed /\ f.segs = k
  BY <1>2, <1>3 DEF ManSet
<1> QED BY <1>2, <1>4 DEF Rewritten

\* The beginning of a piece without blocks and digest.
LEMMA FreshStart ==
    ASSUME NEW t, NEW i, Fresh(t, i)
    PROVE  Streamed(t, i, 0) /\ WrittenTo(t, i, 0) /\ PassedBlocks(t, i, 0)
<1>1. \A b \in Block : At(b + 1) \in Nat /\ At(b + 1) > 0
  BY BlockPositions, Numbers
<1>2. \A b \in Block : ~(At(b + 1) <= 0)
  BY <1>1
<1>3. \A o \in Offset : ~(o < 0)
  BY OffsetIs
<1>4. DoneBelow(t, i, 0) /\ WrittenTo(t, i, 0) /\ PassedBlocks(t, i, 0)
  BY <1>2, <1>3 DEF DoneBelow, WrittenTo, PassedBlocks, Fresh
<1>5. Prefix(t, i) /\ t.pieces[i].nextBegin <= 0
  BY <1>3 DEF Prefix, Fresh
<1> QED BY <1>4, <1>5 DEF Streamed

\* A segment starts its piece again.
LEMMA ClearedTracked ==
    ASSUME NEW s \in Storage, NEW t, Calm(s, t), Steady(s, t), NEW g \in SegMap, NEW mm \in MemoMap,
           NEW c \in DOMAIN g, NEW i, i = g[c].index, Fresh(t, i),
           \A j \in DOMAIN s.pieces : j # i => Same(s, t, j), OnlyOf(g, c), InFlight(s, g),
           Tracked(s, g, mm), NEW h, SegmentAt(g, h, c, 0)
    PROVE  Tracked(t, h, mm)
<1>1. /\ DOMAIN h = DOMAIN g /\ h[c].index = i /\ h[c].written = 0
      /\ \A d \in DOMAIN g : d # c => h[d] = g[d] /\ g[d].index # i
  BY DEF SegmentAt, OnlyOf
<1>2. \A d \in DOMAIN g : d # c => Same(s, t, g[d].index)
  BY <1>1 DEF InFlight
<1>3. Streamed(t, i, 0) /\ WrittenTo(t, i, 0) /\ PassedBlocks(t, i, 0)
  BY FreshStart
<1>4. /\ Later(s, t) /\ t.endGame = s.endGame /\ t \in Storage
  BY DEF Calm
<1>5. Trusted(t) => Trusted(s)
  BY <1>4, LaterTrusted
<1>6. MemoThere(t, mm)
  <2>1. DOMAIN mm \in SUBSET Piece
    BY UseMemo
  <2> QED BY <1>4, <1>5, <2>1 DEF MemoThere, Tracked, Later
<1>7. SegsThere(t, h)
  <2>1. \A d \in DOMAIN g : d # c => (Trusted(t) => WrittenTo(t, g[d].index, g[d].written))
    BY <1>2, <1>5, SameWritten DEF SegsThere, Tracked
  <2> QED BY <1>1, <1>3, <2>1 DEF SegsThere
<1>8. Digests(t, h, mm)
  <2>1. SUFFICES ASSUME ~t.endGame
                 PROVE  /\ \A j \in DOMAIN t.pieces : HeldIn(h, j) \/ Digested(t, j, mm)
                        /\ \A d \in DOMAIN h : Streamed(t, h[d].index, h[d].written)
    BY DEF Digests
  <2>2. \A j \in DOMAIN s.pieces : HeldIn(g, j) \/ Digested(s, j, mm)
    BY <1>4, <2>1 DEF Digests, Tracked
  <2>3. \A j : HeldIn(g, j) => HeldIn(h, j)
    BY <1>1 DEF HeldIn
  <2>4. ASSUME NEW j \in DOMAIN t.pieces PROVE HeldIn(h, j) \/ Digested(t, j, mm)
    <3>1. CASE Same(s, t, j)
      BY <2>2, <2>3, <3>1, SameDigested DEF Same
    <3>2. CASE Fresh(t, j)
      BY <3>2, FreshDigested
    <3> QED BY <3>1, <3>2 DEF Steady
  <2>5. \A d \in DOMAIN g : Streamed(s, g[d].index, g[d].written)
    BY <1>4, <2>1 DEF Digests, Tracked
  <2>6. \A d \in DOMAIN g : d # c => Streamed(t, g[d].index, g[d].written)
    BY <1>2, <2>5, SameStreamed
  <2> QED BY <1>1, <1>3, <2>4, <2>6
<1>9. Ordered(t, h)
  <2>1. SUFFICES ASSUME Peer = {}, NEW d \in DOMAIN h PROVE PassedBlocks(t, h[d].index, h[d].written)
    BY DEF Ordered
  <2>2. CASE d = c
    BY <1>1, <1>3, <2>2
  <2>3. CASE d # c
    <3>1. PassedBlocks(s, g[d].index, g[d].written) /\ Same(s, t, g[d].index) /\ h[d] = g[d]
      BY <1>1, <1>2, <2>1, <2>3 DEF Ordered, Tracked
    <3> QED BY <3>1 DEF PassedBlocks, Same
  <2> QED BY <2>2, <2>3
<1> QED BY <1>6, <1>7, <1>8, <1>9 DEF Tracked

\* A segment is cleared.
LEMMA ClearSegmentIs ==
    ASSUME NEW m \in ManSet, NEW w, NEW c \in DOMAIN m.segs, NEW i, i = m.segs[c].index,
           BooksBut(m.ps, m.segs, w, i), NEW f, f = clearSegment(m, c)
    PROVE  /\ Rewritten(m, f, c, destroyHashContext(clearAllBlock(m.ps, i), i), 0)
           /\ Books(f.ps, f.segs, w, {}) /\ f.ps \in Storage
           /\ Sound(m.ps) => Sound(f.ps)
           /\ Known(m) /\ ~m.failed => Known(f)
<1> DEFINE t == clearAllBlock(m.ps, i)
           u == destroyHashContext(t, i)
<1>1. m.ps \in Storage /\ m.segs \in SegMap
  BY ManFields
<1>2. /\ i \in Piece /\ i \in DOMAIN m.ps.pieces /\ Asked(w, i) = {}
  <2>1. HeldAlone(m.ps, m.segs, w, {i}, c, i)
    BY SMTT(60), <1>1, StreamHolds DEF BooksBut
  <2> QED BY <2>1 DEF HeldAlone
<1>3. t \in Storage /\ DOMAIN t.pieces = DOMAIN m.ps.pieces /\ i \in DOMAIN t.pieces
      /\ Emptied(m.ps, t, i)
  <2>1. Emptied(m.ps, t, i)
    BY <1>1, <1>2, ClearAllBlockIs
  <2> HIDE DEF t
  <2> QED BY <1>2, <2>1 DEF Emptied
<1>4. \A h, a, J : /\ Booked(m.ps, i, h, a, J) /\ (m.ps.endGame \/ a = {}) => Booked(t, i, h, a, {})
                   /\ \A j : j # i /\ Booked(m.ps, j, h, a, J) => Booked(t, j, h, a, J)
  BY <1>1, <1>2, BookedClear
<1>5. u \in Storage /\ SameBooks(t, u) /\ HashGone(t, u, i)
  <2> HIDE DEF t
  <2>1. HashGone(t, u, i)
    BY <1>3, DestroyHashIs
  <2> HIDE DEF u
  <2> QED BY <2>1 DEF HashGone
<1>6. f = [m EXCEPT !.ps = u, !.segs[c].written = 0]
  BY DEF clearSegment
<1> HIDE DEF t, u
<1>7. Rewritten(m, f, c, u, 0)
  <2>1. PICK n : n = 0
    OBVIOUS
  <2>2. u \in Storage /\ n \in 0 .. PieceLength
    BY <1>5, <2>1, Numbers
  <2>3. f = [m EXCEPT !.ps = u, !.segs[c].written = n]
    BY <1>6, <2>1
  <2>4. Rewritten(m, f, c, u, n)
    BY ZenonT(60), <2>2, <2>3, RewrittenIs
  <2> QED BY <2>1, <2>4
<1>8. Books(t, m.segs, w, {})
  <2>1. ASSUME NEW j \in Piece PROVE Booked(t, j, HeldBy(m.segs, w, j), Asked(w, j), {})
    <3>1. CASE j = i
      <4>1. Booked(m.ps, i, HeldBy(m.segs, w, i), Asked(w, i), {i})
        BY <1>2 DEF Books, BooksBut
      <4> QED BY <1>2, <1>4, <3>1, <4>1
    <3>2. CASE j # i
      <4>1. Booked(m.ps, j, HeldBy(m.segs, w, j), Asked(w, j), {})
        BY <3>2, BooksOther
      <4> QED BY <1>4, <3>2, <4>1
    <3> QED BY <3>1, <3>2
  <2> QED BY <2>1 DEF Books
<1>9. Books(u, m.segs, w, {})
  BY <1>5, <1>8, BooksData
<1>10. Books(f.ps, f.segs, w, {})
  BY <1>7, <1>9 DEF Books, Rewritten
<1>11. f.ps \in Storage
  BY <1>5, <1>7 DEF Rewritten
<1>12. /\ Calm(m.ps, u) /\ Steady(m.ps, u) /\ Fresh(u, i)
       /\ \A j \in DOMAIN m.ps.pieces : j # i => Same(m.ps, u, j)
  BY <1>1, <1>2, <1>3, <1>5, ClearedCalm
<1>13. Apart(m.ps) /\ InFlight(m.ps, m.segs) /\ OnlyOf(m.segs, c)
  BY <1>1, BooksFacts DEF BooksBut
<1>14. f.ps = u /\ f.memo = m.memo /\ SegmentAt(m.segs, f.segs, c, 0)
  BY <1>7 DEF Rewritten, SegmentAt
<1>15. Sound(m.ps) => Sound(f.ps)
  BY <1>1, <1>12, <1>13, <1>14, CalmSound
<1>16. ASSUME Known(m), ~m.failed PROVE Known(f)
  <2>1. Tracked(m.ps, m.segs, m.memo) /\ m.memo \in MemoMap
    BY <1>16, ManFields DEF Known
  <2>2. Tracked(u, f.segs, m.memo)
    BY <1>1, <1>12, <1>13, <1>14, <2>1, ClearedTracked
  <2> QED BY <1>14, <1>15, <1>16, <2>2 DEF Known
<1> QED BY <1>7, <1>10, <1>11, <1>15, <1>16 DEF t, u

\* A segment has received n bytes.
LEMMA UpdateWrittenIs ==
    ASSUME NEW m \in ManSet, NEW w, NEW c \in DOMAIN m.segs, NEW i, i = m.segs[c].index,
           NEW n \in Nat, m.segs[c].written + n <= PieceLength,
           Books(m.ps, m.segs, w, {}), NEW f, f = updateWrittenLength(m, c, n)
    PROVE  /\ Rewritten(m, f, c, f.ps, m.segs[c].written + n)
           /\ BlocksDone(m.ps, f.ps, i, Passed(m.segs[c].written, n))
           /\ BooksBut(f.ps, f.segs, w, i)
<1> DEFINE B == Passed(m.segs[c].written, n)
           t == completeBlocks(m.ps, i, B)
<1>1. m.ps \in Storage /\ m.segs \in SegMap
  BY ManFields
<1>2. /\ i \in Piece /\ i \in DOMAIN m.ps.pieces /\ Asked(w, i) = {}
  <2>1. HeldAlone(m.ps, m.segs, w, {}, c, i)
    BY <1>1, StreamHolds
  <2> QED BY <2>1 DEF HeldAlone
<1>3. f = [m EXCEPT !.ps = t, !.segs[c].written = m.segs[c].written + n]
  BY DEF updateWrittenLength, Passed
<1>4. B \in SUBSET Block
  BY DEF Passed
<1> HIDE DEF B
<1>5. BlocksDone(m.ps, t, i, B)
  BY <1>1, <1>2, <1>4, CompleteBlocksIs
<1>6. ASSUME NEW h, NEW a, NEW J
      PROVE  /\ Booked(m.ps, i, h, a, J) => Booked(t, i, h, a \ B, {i})
             /\ \A j : j # i /\ Booked(m.ps, j, h, a, J) => Booked(t, j, h, a, J)
  <2> HIDE DEF t
  <2>1. t = completeBlocks(m.ps, i, B)
    BY SMTT(60) DEF t
  <2> QED BY <1>1, <1>2, <1>4, <2>1, BookedComplete
<1> HIDE DEF t
<1>7. t \in Storage
  BY <1>5 DEF BlocksDone
<1>8. m.segs[c].written + n \in 0 .. PieceLength
  <2>1. m.segs[c].written \in 0 .. PieceLength
    BY <1>1, UseSegs
  <2> QED BY <2>1, Numbers
<1>9. Rewritten(m, f, c, t, m.segs[c].written + n)
  BY ZenonT(60), <1>3, <1>7, <1>8, RewrittenIs
<1>10. ASSUME NEW j \in Piece PROVE Booked(t, j, HeldBy(m.segs, w, j), Asked(w, j), {i})
  <2>1. Booked(m.ps, j, HeldBy(m.segs, w, j), Asked(w, j), {})
    BY DEF Books
  <2>2. CASE j = i
    <3>1. Asked(w, i) \ B = Asked(w, i)
      BY <1>2
    <3> QED BY <1>6, <2>1, <2>2, <3>1
  <2>3. CASE j # i
    <3>1. Booked(t, j, HeldBy(m.segs, w, j), Asked(w, j), {})
      BY <1>6, <2>1, <2>3
    <3> QED BY <3>1 DEF Booked
  <2> QED BY <2>2, <2>3
<1>11. f.ps = t /\ \A j : HeldBy(f.segs, w, j) = HeldBy(m.segs, w, j)
  BY <1>9 DEF Rewritten
<1>12. BooksBut(f.ps, f.segs, w, i)
  BY <1>10, <1>11 DEF Books, BooksBut
<1> QED BY <1>5, <1>9, <1>11, <1>12 DEF B

\* The segment of c is done, or the download has failed.
SegmentDone(m, f, w, c) ==
    /\ Sane(f, w)
    /\ ~f.failed => DOMAIN f.segs = (DOMAIN m.segs) \ {c}
                    /\ \A d \in DOMAIN f.segs : f.segs[d] = m.segs[d]

\* A complete piece has been flushed.
LEMMA CompletedKnown ==
    ASSUME NEW s \in Storage, Apart(s), NEW i \in DOMAIN s.pieces, Sound(s), Sure(s) => Right(s, i),
           NEW ok \in Outcomes, NEW u, u = flushWrCache(s, i, ok)
    PROVE  /\ Sound(u) /\ StillTracked(s, u)
           /\ ~(u.pieces[i].entry /\ u.pieces[i].error) =>
                 (Sure(u) => \A o \in Offset : u.disk[i][o] = "good")
<1>1. PICK I : I = {i}
  OBVIOUS
<1>2. I \in SUBSET (DOMAIN s.pieces) /\ u = Flushed(s, I, ok)
  BY <1>1 DEF flushWrCache
<1>3. FlushedKept(s, u, I)
  BY <1>2, FlushKnown
<1>4. Calm(s, u)
  BY <1>2, FlushCalm
<1>5. Sound(u) /\ StillTracked(s, u) /\ Same(s, u, i)
      /\ (~(u.pieces[i].entry /\ u.pieces[i].error) => Flat(u, i))
  BY <1>1, <1>3 DEF FlushedKept
<1>6. Sure(u) => Sure(s)
  BY <1>4, LaterTrusted DEF Calm
<1>7. ASSUME Flat(u, i), Sure(u) PROVE \A o \in Offset : u.disk[i][o] = "good"
  BY <1>5, <1>6, <1>7, FlatRight
<1> QED BY <1>5, <1>7

\* A segment is complete, or the download fails.
LEMMA CompleteSegmentIs ==
    ASSUME NEW m \in ManSet, ~m.failed, NEW w, NEW c \in DOMAIN m.segs,
           NEW i, i = m.segs[c].index, NEW ok \in Outcomes,
           BooksBut(m.ps, m.segs, w, i), Known(m), Sure(m.ps) => Right(m.ps, i),
           NEW f, f = completeSegment(m, c, ok)
    PROVE  SegmentDone(m, f, w, c)
<1> DEFINE s == flushWrCache(m.ps, i, ok)
           e == [m EXCEPT !.ps = s]
           z == clearSegment(e, c)
           t == completePiece(s, i)
           D == {c}
           g == [d \in (DOMAIN m.segs) \ D |-> m.segs[d]]
<1>1. m.ps \in Storage /\ m.segs \in SegMap
  BY ManFields
<1>2. /\ i \in Piece /\ i \in DOMAIN m.ps.pieces /\ Asked(w, i) = {} /\ i \notin m.ps.have
      /\ HeldBy(m.segs, w, i) = {c} /\ c \in Stream
  <2>1. HeldAlone(m.ps, m.segs, w, {i}, c, i)
    BY <1>1, StreamHolds DEF BooksBut
  <2> QED BY <2>1 DEF HeldAlone
<1>3. s \in Storage /\ SameBooks(m.ps, s)
  BY <1>1, <1>2, FlushOneIs
<1>4. f = IF s.pieces[i].entry /\ s.pieces[i].error THEN [z EXCEPT !.failed = TRUE]
          ELSE [e EXCEPT !.ps = t, !.segs = g]
  <2>1. Without(e.segs, c) = [d \in (DOMAIN e.segs) \ {c} |-> e.segs[d]]
    BY DEF Without
  <2>2. e.segs = m.segs /\ e.ps = s
    BY DEF ManSet
  <2> QED BY <2>1, <2>2 DEF completeSegment
<1>9. /\ Sound(s) /\ StillTracked(m.ps, s)
      /\ ~(s.pieces[i].entry /\ s.pieces[i].error) =>
            (Sure(s) => \A o \in Offset : s.disk[i][o] = "good")
  <2>1. Apart(m.ps) /\ Sound(m.ps)
    BY <1>1, BooksFacts DEF BooksBut, Known
  <2> QED BY <1>1, <1>2, <2>1, CompletedKnown
<1>10. InFlight(m.ps, m.segs) /\ OnlyOf(m.segs, c) /\ Tracked(m.ps, m.segs, m.memo) /\ m.memo \in MemoMap
  BY <1>1, BooksFacts, ManFields DEF BooksBut, Known
<1> HIDE DEF s
<1>5. e \in ManSet /\ e.ps = s /\ e.segs = m.segs /\ e.failed = m.failed /\ e.memo = m.memo
  BY <1>3, ManStorage
<1>6. BooksBut(s, m.segs, w, i)
  BY <1>3, BooksData DEF BooksBut
<1> HIDE DEF e
<1>7. CASE s.pieces[i].entry /\ s.pieces[i].error
  <2>1. Rewritten(e, z, c, destroyHashContext(clearAllBlock(e.ps, i), i), 0)
        /\ Books(z.ps, z.segs, w, {}) /\ z.ps \in Storage
        /\ Sound(z.ps)
    BY <1>5, <1>6, <1>9, ClearSegmentIs
  <2> HIDE DEF z
  <2>2. Weak(z.ps) /\ z \in ManSet
    BY <2>1, BooksWeak DEF Rewritten
  <2>3. f = [z EXCEPT !.failed = TRUE]
    BY <1>4, <1>7
  <2>4. f \in ManSet /\ f.ps = z.ps /\ f.failed = TRUE
    BY <2>2, <2>3 DEF ManSet
  <2>5. Known(f)
    BY <2>1, <2>4 DEF Known
  <2> QED BY <2>2, <2>4, <2>5 DEF Sane, SegmentDone
<1>8. CASE ~(s.pieces[i].entry /\ s.pieces[i].error)
  <2>1. f = [e EXCEPT !.ps = t, !.segs = g]
    BY <1>4, <1>8
  <2>2. i \notin s.have
    BY <1>2, <1>3 DEF SameBooks
  <2>3. t \in Storage
    BY <1>2, <1>3, <2>2, CompletePieceIs
  <2>4. /\ g \in SegMap /\ DOMAIN g = (DOMAIN m.segs) \ D
        /\ \A d \in DOMAIN g : g[d] = m.segs[d]
        /\ \A x, j : D \in SUBSET Stream => HeldBy(g, x, j) = HeldBy(m.segs, x, j) \ D
    <3> HIDE DEF D
    <3>1. g = [d \in (DOMAIN m.segs) \ D |-> m.segs[d]]
      OBVIOUS
    <3> HIDE DEF g, t, z
    <3> QED BY <1>1, <3>1, DropSegments
  <2> HIDE DEF t, g
  <2>5. f \in ManSet /\ f.ps = t /\ f.segs = g /\ f.failed = m.failed /\ f.memo = m.memo
    BY <1>5, <2>1, <2>3, <2>4 DEF ManSet
  <2>6. /\ \A k, a : Single(k) \/ s.endGame => (k \cap Stream = {} =>
                ((k \cap Peer = {} => a = {}) => Booked(t, i, k, a, {})))
        /\ \A j, h, a : j # i /\ Booked(s, j, h, a, {}) => Booked(t, j, h, a, {})
    BY <1>2, <1>3, <2>2, BookedDone DEF t
  <2>7. ASSUME NEW j \in Piece PROVE Booked(t, j, HeldBy(g, w, j), Asked(w, j), {})
    <3>1. HeldBy(g, w, j) = HeldBy(m.segs, w, j) \ {c}
      BY <1>2, <2>4
    <3>2. CASE j = i
      <4>1. HeldBy(g, w, j) = {} /\ Asked(w, j) = {}
        BY <1>2, <3>1, <3>2
      <4>2. Single({}) /\ {} \cap Stream = {}
        BY DEF Single
      <4> QED BY <2>6, <3>2, <4>1, <4>2
    <3>3. CASE j # i
      <4>1. HeldBy(g, w, j) = HeldBy(m.segs, w, j)
        <5>1. c \notin HeldBy(m.segs, w, j)
          BY <1>2, <3>3, TransferAssumption DEF HeldBy
        <5> QED BY <3>1, <5>1
      <4>2. Booked(s, j, HeldBy(m.segs, w, j), Asked(w, j), {})
        BY <1>6, <3>3, BooksOther
      <4> QED BY <2>6, <3>3, <4>1, <4>2
    <3> QED BY <3>2, <3>3
  <2>8. Books(f.ps, f.segs, w, {})
    BY <2>5, <2>7 DEF Books
  <2>9. i \in DOMAIN s.pieces /\ DOMAIN s.pieces = DOMAIN m.ps.pieces
    BY <1>2, <1>3 DEF SameBooks
  <2>10. t = completePiece(s, i)
    BY DEF t
  <2>11. Sound(t)
    BY <1>3, <1>8, <1>9, <2>2, <2>9, <2>10, DoneSound
  <2>12. Tracked(s, m.segs, m.memo)
    BY <1>1, <1>9, <1>10 DEF StillTracked
  <2>13. /\ \A d \in DOMAIN g : d \in DOMAIN m.segs /\ g[d] = m.segs[d] /\ g[d].index # i
         /\ \A d \in DOMAIN m.segs : m.segs[d].index = i \/ d \in DOMAIN g
         /\ \A d \in DOMAIN m.segs : m.segs[d].index \in DOMAIN s.pieces
    BY <1>10, <2>4, <2>9 DEF InFlight, OnlyOf
  <2>14. Tracked(t, g, m.memo)
    BY <1>1, <1>3, <1>10, <2>2, <2>9, <2>10, <2>12, <2>13, DoneTracked
  <2>15. Known(f)
    BY <2>5, <2>11, <2>14 DEF Known
  <2> QED BY <2>4, <2>5, <2>8, <2>15 DEF Sane, SegmentDone
<1> QED BY <1>7, <1>8

\* The empty map.
LEMMA EmptyMaps ==
    /\ <<>> \in PieceMap /\ <<>> \in SegMap /\ <<>> \in MemoMap /\ DOMAIN <<>> = {}
<1>1. DOMAIN <<>> = {}
  OBVIOUS
<1>2. \A S : <<>> \in [{} -> S]
  OBVIOUS
<1>3. {} \in SUBSET Piece /\ {} \in SUBSET Stream
  OBVIOUS
<1> QED BY <1>1, <1>2, <1>3, MakeMap, MakeSegs, MakeMemo

\* The streams other than c have the segments of h that they had in g.
RestOf(g, h, c) == \A d \in DOMAIN h : d # c => d \in DOMAIN g /\ h[d] = g[d]

\* A stream takes the piece with index i if it is free.
LEMMA GetSegmentIs ==
    ASSUME NEW m, NEW w, Sane(m, w), ~m.failed, NEW c \in Stream, c \notin DOMAIN m.segs,
           NEW i, NEW ok \in Outcomes, NEW f, f = getSegmentWithIndex(m, c, i, ok)
    PROVE  /\ Sane(f, w)
           /\ ~f.failed => /\ RestOf(m.segs, f.segs, c)
                           /\ c \in DOMAIN f.segs => f.segs[c].index = i
<1>1. CASE i \in Piece /\ i \notin m.ps.have \cup m.ps.use
  <2>1. i \in Piece \ (m.ps.have \cup m.ps.use) /\ f = checkoutSegment(m, c, i, ok)
    BY <1>1 DEF getSegmentWithIndex
  <2>2. /\ Sane(f, w)
        /\ ~f.failed => DOMAIN f.segs = (DOMAIN m.segs) \cup {c} /\ f.segs[c].index = i
                        /\ \A d \in DOMAIN m.segs : f.segs[d] = m.segs[d]
    BY <2>1, CheckoutIs
  <2> QED BY <2>2 DEF RestOf
<1>2. CASE ~(i \in Piece /\ i \notin m.ps.have \cup m.ps.use)
  <2>1. f = m
    BY <1>2 DEF getSegmentWithIndex
  <2> QED BY <2>1 DEF RestOf
<1> QED BY <1>1, <1>2

\* A stream takes the piece with index i from an idle owner.
LEMMA GetCleanIs ==
    ASSUME NEW m, NEW w, Sane(m, w), ~m.failed, NEW c \in Stream, c \notin DOMAIN m.segs,
           NEW i, NEW ok \in Outcomes, NEW f,
           f = getCleanSegmentIfOwnerIsIdle(m, c, i, ok)
    PROVE  /\ Sane(f, w)
           /\ ~f.failed => /\ RestOf(m.segs, f.segs, c)
                           /\ c \in DOMAIN f.segs => f.segs[c].index = i
<1> DEFINE O == {d \in (DOMAIN m.segs) \ {c} :
                   m.segs[d] = [index |-> i, written |-> 0] /\ OwnerIsIdle(d)}
           d == CHOOSE x \in O : TRUE
           e == cancelSegment(m, d, ok)
           z == getSegmentWithIndex(e, c, i, ok)
<1>1. f = IF O = {} THEN m ELSE IF e.failed THEN e ELSE z
  BY DEF getCleanSegmentIfOwnerIsIdle
<1> HIDE DEF O, d
<1>2. CASE O = {}
  BY <1>1, <1>2 DEF RestOf
<1>3. CASE O # {}
  <2>1. Sane(e, w) /\ (~e.failed => GaveBack(m, e, w, {d}))
    BY CancelSegmentIs
  <2> HIDE DEF e
  <2>2. CASE e.failed
    BY <1>1, <1>3, <2>1, <2>2
  <2>3. CASE ~e.failed
    <3>1. DOMAIN e.segs = (DOMAIN m.segs) \ {d} /\ \A x \in DOMAIN e.segs : e.segs[x] = m.segs[x]
      BY <2>1, <2>3 DEF GaveBack
    <3>2. c \notin DOMAIN e.segs
      BY <3>1
    <3>3. Sane(z, w) /\ (~z.failed => /\ RestOf(e.segs, z.segs, c)
                                      /\ c \in DOMAIN z.segs => z.segs[c].index = i)
      BY <2>1, <2>3, <3>2, GetSegmentIs
    <3>4. f = z
      BY <1>1, <1>3, <2>3
    <3> HIDE DEF z
    <3> QED BY <3>1, <3>3, <3>4 DEF RestOf
  <2> QED BY <2>2, <2>3
<1> QED BY <1>2, <1>3

\* The pieces in J whose cells a flush writes, and the pieces after it.
Written(s, J) == {j \in J : s.pieces[j].entry /\ Cached(s.pieces[j]) # {}}
FlushedPiece(s, J, ok, j) ==
    IF j \in Written(s, J)
    THEN [s.pieces[j] EXCEPT !.cells = Nothing, !.error = @ \/ ~ok] ELSE s.pieces[j]

\* Whether the flush of a piece fails does not depend on the other pieces.
LEMMA FlushAlone ==
    ASSUME NEW m \in ManSet, NEW I \in SUBSET (DOMAIN m.ps.pieces), NEW i \in I, NEW ok \in Outcomes,
           ~m.failed, ~FlushOrFail(m, i, ok).failed, NEW t, t = Flushed(m.ps, I, ok)
    PROVE  ~(t.pieces[i].entry /\ t.pieces[i].error)
<1> DEFINE u == flushWrCache(m.ps, i, ok)
<1>1. t.pieces[i] = u.pieces[i]
  <2>1. m.ps \in Storage
    BY ManFields
  <2>2. ASSUME NEW J
        PROVE  Flushed(m.ps, J, ok).pieces = [j \in DOMAIN m.ps.pieces |-> FlushedPiece(m.ps, J, ok, j)]
    BY <2>1 DEF Flushed, Storage, FlushedPiece, Written
  <2>3. PICK J : J = {i}
    OBVIOUS
  <2>4. t.pieces[i] = FlushedPiece(m.ps, I, ok, i) /\ u.pieces[i] = FlushedPiece(m.ps, J, ok, i)
    <3>1. u = Flushed(m.ps, J, ok) /\ i \in DOMAIN m.ps.pieces
      BY <2>3 DEF flushWrCache
    <3> HIDE DEF u
    <3> QED BY <2>2, <3>1
  <2>5. i \in Written(m.ps, I) <=> i \in Written(m.ps, J)
    BY <2>3 DEF Written
  <2> QED BY <2>4, <2>5 DEF FlushedPiece
<1>2. FlushOrFail(m, i, ok) = IF u.pieces[i].entry /\ u.pieces[i].error
                              THEN [m EXCEPT !.ps = clearAllBlock(u, i), !.failed = TRUE]
                              ELSE [m EXCEPT !.ps = u]
  BY DEF FlushOrFail
<1> HIDE DEF u
<1>3. [m EXCEPT !.ps = clearAllBlock(u, i), !.failed = TRUE].failed = TRUE
  BY DEF ManSet
<1> QED BY <1>1, <1>2, <1>3

\* All segments are given back, or the download fails.
LEMMA CancelAllIs ==
    ASSUME NEW m, NEW w, Sane(m, w), ~m.failed, NEW ok \in Outcomes,
           NEW f \in cancelAllSegments(m, ok)
    PROVE  /\ Sane(f, w)
           /\ ~f.failed => DOMAIN f.segs = {}
<1> DEFINE Failing == {c \in DOMAIN m.segs : FlushOrFail(m, m.segs[c].index, ok).failed}
           Of(D) == {m.segs[c].index : c \in D}
           Fl(D) == Flushed(m.ps, Of(D), ok)
           Cancelled(D) == CancelThose(m, D, ok)
           AfterNext(D, c) == FlushOrFail(Cancelled(D), m.segs[c].index, ok)
<1>1. m \in ManSet /\ m.ps \in Storage /\ m.segs \in SegMap /\ Books(m.ps, m.segs, w, {})
  BY ManFields DEF Sane
<1>7. Apart(m.ps) /\ InFlight(m.ps, m.segs) /\ Sound(m.ps) /\ Tracked(m.ps, m.segs, m.memo)
      /\ m.memo \in MemoMap
  BY <1>1, BooksFacts, ManFields DEF Sane, Known
<1>2. ASSUME NEW D \in SUBSET ((DOMAIN m.segs) \ Failing)
      PROVE  GaveBack(m, Cancelled(D), w, D) /\ Known(Cancelled(D))
  <2>1. \A c \in DOMAIN m.segs : m.segs[c].index \in DOMAIN m.ps.pieces
    <3>1. ASSUME NEW c \in DOMAIN m.segs PROVE m.segs[c].index \in DOMAIN m.ps.pieces
      <4>1. HeldAlone(m.ps, m.segs, w, {}, c, m.segs[c].index)
        BY <1>1, StreamHolds
      <4> QED BY <4>1 DEF HeldAlone
    <3> QED BY <3>1
  <2>2. Of(D) \in SUBSET (DOMAIN m.ps.pieces)
    BY <2>1
  <2>9. \A c \in D : m.segs[c].index \in Of(D)
    OBVIOUS
  <2>10. D \in SUBSET (DOMAIN m.segs) /\ \A c \in D : ~FlushOrFail(m, m.segs[c].index, ok).failed
    OBVIOUS
  <2> HIDE DEF Of, Failing
  <2>11. FlushedKept(m.ps, Fl(D), Of(D))
    BY <1>1, <1>7, <2>2, FlushKnown
  <2>12. \A c \in D : ~(Fl(D).pieces[m.segs[c].index].entry /\ Fl(D).pieces[m.segs[c].index].error)
    <3>1. ASSUME NEW c \in D
          PROVE  ~(Fl(D).pieces[m.segs[c].index].entry /\ Fl(D).pieces[m.segs[c].index].error)
      <4>1. m.segs[c].index \in Of(D) /\ ~FlushOrFail(m, m.segs[c].index, ok).failed
        BY <2>9, <2>10
      <4> QED BY <1>1, <2>2, <4>1, FlushAlone
    <3> QED BY <3>1
  <2>3. FlushOf(m.ps, Fl(D), Of(D))
    BY <1>1, <2>2, FlushedIs DEF Outcomes
  <2> HIDE DEF Fl
  <2>4. Fl(D) \in Storage /\ SameBooks(m.ps, Fl(D))
    BY <2>3 DEF FlushOf
  <2> DEFINE e == [m EXCEPT !.ps = Fl(D)]
  <2>5. e \in ManSet /\ e.ps = Fl(D) /\ e.segs = m.segs /\ e.failed = m.failed /\ e.memo = m.memo
    BY <1>1, <2>4, ManStorage
  <2> HIDE DEF e
  <2>6. Books(e.ps, e.segs, w, {})
    BY <1>1, <2>4, <2>5, BooksData
  <2>7. Cancelled(D) = GiveBack(e, D)
    BY DEF e, CancelThose, Fl, Of
  <2> HIDE DEF Cancelled
  <2>13. AllFlat(e, D)
    BY <2>5, <2>9, <2>11, <2>12 DEF AllFlat, FlushedKept
  <2>14. Known(e) /\ ~e.failed
    <3>1. Sound(Fl(D)) /\ Tracked(Fl(D), m.segs, m.memo)
      BY <1>1, <1>7, <2>11 DEF FlushedKept, StillTracked
    <3> QED BY <2>5, <3>1 DEF Known
  <2>8. GaveBack(e, Cancelled(D), w, D) /\ Known(Cancelled(D))
    BY <2>5, <2>6, <2>7, <2>10, <2>13, <2>14, GiveBackIs
  <2> QED BY <2>5, <2>8 DEF GaveBack
<1> DEFINE All == f = Cancelled(DOMAIN m.segs) /\ DOMAIN m.segs \in SUBSET ((DOMAIN m.segs) \ Failing)
<1>3. \/ All
      \/ \E D \in SUBSET ((DOMAIN m.segs) \ Failing), c \in Failing :
            f = CancelFails(m, D, c, ok)
  <2>1. f \in IF Failing = {} THEN {Cancelled(DOMAIN m.segs)}
              ELSE {CancelFails(m, D, c, ok) :
                      D \in SUBSET ((DOMAIN m.segs) \ Failing), c \in Failing}
    BY DEF cancelAllSegments
  <2> HIDE DEF Failing, Cancelled
  <2> QED BY <2>1
<1>4. Failing \subseteq DOMAIN m.segs
  OBVIOUS
<1> HIDE DEF Failing, Cancelled
<1>5. CASE All
  <2>1. GaveBack(m, f, w, DOMAIN m.segs) /\ Known(f)
    BY <1>2, <1>5
  <2>2. f \in ManSet /\ f.failed = m.failed /\ Books(f.ps, f.segs, w, {})
        /\ DOMAIN f.segs = (DOMAIN m.segs) \ DOMAIN m.segs
    BY <2>1 DEF GaveBack
  <2> QED BY <2>1, <2>2 DEF Sane
<1>6. ASSUME NEW D \in SUBSET ((DOMAIN m.segs) \ Failing), NEW c \in Failing,
             f = CancelFails(m, D, c, ok)
      PROVE  Sane(f, w) /\ (~f.failed => DOMAIN f.segs = {})
  <2> DEFINE b == Cancelled(D)
             i == m.segs[c].index
             l == AfterNext(D, c)
  <2>1. D \in SUBSET (DOMAIN m.segs) /\ c \in (DOMAIN m.segs) \ D
    BY <1>4
  <2>2. GaveBack(m, b, w, D) /\ Known(b)
    BY <1>2
  <2> HIDE DEF b
  <2>3. b \in ManSet /\ ~b.failed /\ Books(b.ps, b.segs, w, {}) /\ c \in DOMAIN b.segs
        /\ b.segs[c].index = i
    BY <2>1, <2>2 DEF GaveBack
  <2>4. b.ps \in Storage /\ b.segs \in SegMap /\ Weak(b.ps)
    BY <2>3, ManFields, BooksWeak
  <2>5. i \in DOMAIN b.ps.pieces /\ i \notin b.ps.have
    <3>1. HeldAlone(b.ps, b.segs, w, {}, c, i)
      BY <2>3, <2>4, StreamHolds
    <3> QED BY <3>1 DEF HeldAlone
  <2>6. FlushOutcome(b, l, i)
    BY <2>3, <2>5, FlushOrFailIs DEF b
  <2>10. Sound(l.ps)
    <3>1. Apart(b.ps) /\ Sound(b.ps)
      BY <2>2, <2>3, <2>4, BooksFacts DEF Known
    <3>2. FlushKept(b, l, i)
      BY <2>3, <2>5, <3>1, FlushOrFailKnown DEF b
    <3> QED BY <3>2 DEF FlushKept
  <2> HIDE DEF l
  <2>7. l \in ManSet /\ Weak(l.ps)
    <3>1. CASE l.failed
      <4>1. l \in ManSet /\ FailOf(b.ps, l.ps, i)
        BY <2>6, <3>1 DEF FlushOutcome
      <4> QED BY <2>4, <2>5, <4>1, FailWeak DEF Weak
    <3>2. CASE ~l.failed
      <4>1. l \in ManSet /\ SameBooks(b.ps, l.ps)
        BY <2>6, <3>2 DEF FlushOutcome
      <4> QED BY <2>4, <4>1 DEF Weak, SameBooks, SameUse
    <3> QED BY <3>1, <3>2
  <2>8. f = [l EXCEPT !.segs = m.segs, !.failed = TRUE]
    BY <1>6 DEF l, CancelFails, Cancelled
  <2>9. f \in ManSet /\ f.ps = l.ps /\ f.failed = TRUE
    BY <1>1, <2>7, <2>8 DEF ManSet
  <2>11. Known(f)
    BY <2>9, <2>10 DEF Known
  <2> QED BY <2>7, <2>9, <2>11 DEF Sane
<1> HIDE DEF All
<1> QED BY <1>3, <1>5, <1>6

(***************************************************************************)
(* The steps of a stream.  w stands for the peers.                         *)
(***************************************************************************)
Idle(g, k) == \A c \in Stream : k[c].st = "idle" => c \notin DOMAIN g

\* The file position of the next byte of a segment, where the response must
\* be, too.
Position(r) == r.index * PieceLength + r.written
AlignedAt(g, k, c) == c \in DOMAIN g /\ k[c].st = "receiving" => k[c].pos = Position(g[c])
Aligned(g, k) == Peer = {} => \A c \in Stream : AlignedAt(g, k, c)

StreamBefore(w) ==
    /\ ps \in Storage /\ segs \in SegMap /\ memo \in MemoMap /\ halted = FALSE
    /\ con \in [Stream -> Connection]
    /\ Books(ps, segs, w, {}) /\ Idle(segs, con)
    /\ Sound(ps) /\ Tracked(ps, segs, memo) /\ Aligned(segs, con)

StreamAfter(w) ==
    /\ ps' \in Storage /\ segs' \in SegMap /\ memo' \in MemoMap /\ halted' \in BOOLEAN
    /\ con' \in [Stream -> Connection]
    /\ halted' => Weak(ps')
    /\ ~halted' => Books(ps', segs', w, {}) /\ Idle(segs', con')
    /\ Sound(ps')
    /\ ~halted' => Tracked(ps', segs', memo') /\ Aligned(segs', con')

\* The segment manager at the start of a step.
LEMMA ManIs ==
    ASSUME NEW w, StreamBefore(w)
    PROVE  /\ Sane(Man, w) /\ Man \in ManSet /\ Man.failed = FALSE
           /\ Man.ps = ps /\ Man.segs = segs /\ Man.memo = memo
<1>1. Man.failed = FALSE /\ Man.ps = ps /\ Man.segs = segs /\ Man.memo = memo
  BY DEF Man
<1>2. Man \in ManSet
  BY DEF Man, ManSet, StreamBefore
<1> QED BY <1>1, <1>2 DEF Sane, StreamBefore, Known

\* A step of stream c ends with manager m.
LEMMA StreamEnds ==
    ASSUME NEW w, StreamBefore(w), NEW c \in Stream, NEW m, Sane(m, w), Becomes(m),
           ~m.failed => RestOf(segs, m.segs, c),
           con' \in [Stream -> Connection], \A d \in Stream : d # c => con'[d] = con[d],
           ~m.failed /\ con'[c].st = "idle" => c \notin DOMAIN m.segs,
           Peer = {} /\ ~m.failed => AlignedAt(m.segs, con', c)
    PROVE  StreamAfter(w)
<1>1. /\ m \in ManSet /\ m.ps \in Storage /\ m.segs \in SegMap /\ m.memo \in MemoMap
      /\ m.failed \in BOOLEAN
  BY ManFields DEF Sane
<1>2. ps' = m.ps /\ segs' = m.segs /\ memo' = m.memo
  BY DEF Becomes
<1>3. halted' = m.failed
  BY <1>1 DEF Becomes, StreamBefore
<1>4. m.failed => Weak(m.ps)
  BY DEF Sane
<1>5. ASSUME ~m.failed PROVE Books(ps', segs', w, {}) /\ Idle(segs', con')
  <2>1. Books(ps', segs', w, {})
    BY <1>2, <1>5 DEF Sane
  <2>2. ASSUME NEW d \in Stream, con'[d].st = "idle" PROVE d \notin DOMAIN segs'
    <3>1. CASE d = c
      BY <1>2, <1>5, <2>2, <3>1
    <3>2. CASE d # c
      BY <1>2, <1>5, <2>2, <3>2 DEF StreamBefore, Idle, RestOf
    <3> QED BY <3>1, <3>2
  <2> QED BY <2>1, <2>2 DEF Idle
<1>6. Sound(ps')
  BY <1>2 DEF Sane, Known
<1>7. ASSUME ~m.failed PROVE Tracked(ps', segs', memo') /\ Aligned(segs', con')
  <2>1. Tracked(ps', segs', memo')
    BY <1>2, <1>7 DEF Sane, Known
  <2>2. ASSUME Peer = {}, NEW d \in Stream PROVE AlignedAt(m.segs, con', d)
    <3>1. CASE d = c
      BY <1>7, <2>2, <3>1
    <3>2. CASE d # c
      <4>1. AlignedAt(segs, con, d)
        BY <2>2 DEF StreamBefore, Aligned
      <4> QED BY <1>7, <3>2, <4>1 DEF AlignedAt, RestOf
    <3> QED BY <3>1, <3>2
  <2> QED BY <1>2, <2>1, <2>2 DEF Aligned
<1> QED BY <1>1, <1>2, <1>3, <1>4, <1>5, <1>6, <1>7 DEF StreamAfter

\* The connection of c is replaced by a record.
LEMMA NewConnection ==
    ASSUME con \in [Stream -> Connection], NEW c \in Stream, NEW r \in Connection,
           con' = [con EXCEPT ![c] = r]
    PROVE  /\ con' \in [Stream -> Connection] /\ con'[c] = r
           /\ \A d \in Stream : d # c => con'[d] = con[d]
OBVIOUS

\* A connection that has ended.
LEMMA EndedIs ==
    ASSUME NEW c \in Stream, con \in [Stream -> Connection]
    PROVE  Ended(c) \in Connection /\ Ended(c).st = "idle"
<1>1. (con[c].oldStat \/ con[c].st = "receiving") \in BOOLEAN
  OBVIOUS
<1> DEFINE b == con[c].oldStat \/ con[c].st = "receiving"
<1>2. b \in BOOLEAN
  BY <1>1
<1> HIDE DEF b
<1>3. NumPieces * PieceLength \in Nat
  BY Numbers
<1>4. 0 \in 0 .. NumPieces * PieceLength
  BY <1>3
<1>5. NoConnection(b) \in Connection /\ NoConnection(b).st = "idle"
  BY <1>2, <1>4 DEF NoConnection, Connection
<1> QED BY <1>5 DEF Ended, b

\* A stream gives its segment back and ends its connection.
LEMMA GiveUpIs ==
    ASSUME NEW w, StreamBefore(w), NEW c \in Stream, NEW m, Sane(m, w),
           ~m.failed => RestOf(segs, m.segs, c),
           NEW ok \in Outcomes, GiveUp(c, m, ok)
    PROVE  StreamAfter(w)
<1> DEFINE f == cancelSegment(m, c, ok)
<1>1. Becomes(f) /\ con' = [con EXCEPT ![c] = Ended(c)]
  BY DEF GiveUp
<1>2. Sane(f, w) /\ (m.failed => f.failed) /\ (~f.failed => GaveBack(m, f, w, {c}))
  BY CancelSegmentIs
<1> HIDE DEF f
<1>3. ~f.failed => /\ ~m.failed /\ DOMAIN f.segs = (DOMAIN m.segs) \ {c}
                   /\ \A d \in DOMAIN f.segs : f.segs[d] = m.segs[d]
  BY <1>2 DEF GaveBack
<1>4. con \in [Stream -> Connection]
  BY DEF StreamBefore
<1>5. /\ con' \in [Stream -> Connection] /\ con'[c].st = "idle"
      /\ \A d \in Stream : d # c => con'[d] = con[d]
  BY <1>1, <1>4, EndedIs, NewConnection
<1>6. ~f.failed => RestOf(segs, f.segs, c) /\ c \notin DOMAIN f.segs
  BY <1>3 DEF RestOf
<1>7. AlignedAt(f.segs, con', c)
  BY <1>5 DEF AlignedAt
<1> QED BY <1>1, <1>2, <1>5, <1>6, <1>7, StreamEnds

\* A write of the file succeeds or fails.
LEMMA DiskOutcomeIs ==
    ASSUME NEW s \in Storage PROVE DiskOutcome(s) \subseteq Outcomes
<1>1. s.failures \in 0 .. MaxDiskFailures
  BY StorageFields
<1>2. CASE s.failures < MaxDiskFailures
  BY <1>1, <1>2, Numbers DEF DiskOutcome, Outcomes
<1>3. CASE ~(s.failures < MaxDiskFailures)
  BY <1>3 DEF DiskOutcome, Outcomes
<1> QED BY <1>2, <1>3

\* A stream takes a piece and starts to connect.
LEMMA AcquireKeeps ==
    ASSUME NEW w, StreamBefore(w), NEW c \in Stream, AcquireSegment(c)
    PROVE  StreamAfter(w)
<1>1. PICK i \in Piece \ (ps.have \cup ps.use), ok \in DiskOutcome(ps) :
          /\ Becomes(checkoutSegment(Man, c, i, ok))
          /\ con' = IF checkoutSegment(Man, c, i, ok).failed THEN con
                    ELSE [con EXCEPT ![c].st = "connecting"]
  BY DEF AcquireSegment
<1> DEFINE m == checkoutSegment(Man, c, i, ok)
<1>2. ok \in Outcomes
  BY DiskOutcomeIs DEF StreamBefore
<1>3. Sane(Man, w) /\ ~Man.failed /\ Man.ps = ps /\ Man.segs = segs
  BY ManIs
<1>4. con[c].st = "idle" /\ c \notin DOMAIN segs /\ con \in [Stream -> Connection]
  BY DEF AcquireSegment, StreamBefore, Idle
<1>5. Sane(m, w) /\ (~m.failed => /\ DOMAIN m.segs = (DOMAIN segs) \cup {c}
                                  /\ \A d \in DOMAIN segs : m.segs[d] = segs[d])
  <2>1. i \in Piece \ (Man.ps.have \cup Man.ps.use)
    BY <1>3
  <2> QED BY <1>2, <1>3, <1>4, <2>1, CheckoutIs
<1>6. Becomes(m) /\ con' = IF m.failed THEN con ELSE [con EXCEPT ![c].st = "connecting"]
  BY <1>1
<1> HIDE DEF m
<1> DEFINE r == [con[c] EXCEPT !.st = "connecting"]
<1>7. r \in Connection /\ r.st = "connecting"
  <2>1. con[c] \in Connection
    BY <1>4
  <2> QED BY <2>1 DEF Connection
<1>8. ~m.failed => con' = [con EXCEPT ![c] = r]
  BY <1>6
<1> HIDE DEF r
<1>9. /\ con' \in [Stream -> Connection]
      /\ \A d \in Stream : d # c => con'[d] = con[d]
      /\ ~m.failed => con'[c].st = "connecting"
  <2>1. CASE m.failed
    BY <1>4, <1>6, <2>1
  <2>2. CASE ~m.failed
    <3>1. con' \in [Stream -> Connection] /\ con'[c] = r
          /\ \A d \in Stream : d # c => con'[d] = con[d]
      BY <1>4, <1>7, <1>8, <2>2, NewConnection
    <3> QED BY <1>7, <3>1
  <2> QED BY <2>1, <2>2
<1>10. ~m.failed => RestOf(segs, m.segs, c)
  BY <1>5 DEF RestOf
<1>11. /\ ~m.failed /\ con'[c].st = "idle" => c \notin DOMAIN m.segs
       /\ ~m.failed => AlignedAt(m.segs, con', c)
  BY <1>9 DEF AlignedAt
<1> QED BY <1>5, <1>6, <1>9, <1>10, <1>11, StreamEnds

\* Products of numbers.
LEMMA Products ==
    ASSUME NEW b \in Nat, NEW d \in Nat, NEW l \in Nat, b <= d
    PROVE  b * l \in Nat /\ d * l \in Nat /\ b * l <= d * l /\ (b + 1) * l = b * l + l
<1> DEFINE k == d - b
<1>1. k \in Nat /\ d = b + k
  OBVIOUS
<1> HIDE DEF k
<1>2. (b + k) * l = b * l + k * l /\ k * l \in Nat /\ b * l \in Nat
  BY <1>1
<1>3. (b + 1) * l = b * l + l
  OBVIOUS
<1> QED BY <1>1, <1>2, <1>3

\* Products grow with their factors.
LEMMA ProductsGrow ==
    \A l, d \in Nat : \A b \in Nat : b <= d => b * l \in Nat /\ d * l \in Nat /\ b * l <= d * l
BY Products

\* Positions in the file.
LEMMA FilePositions ==
    /\ NumPieces * PieceLength \in Nat
    /\ \A i \in Piece : \A n \in 0 .. PieceLength :
          i * PieceLength + n \in 0 .. NumPieces * PieceLength
    /\ \A s \in Storage, i \in Piece :
          getNextUsedIndex(s, i) * PieceLength \in 0 .. NumPieces * PieceLength
<1> DEFINE L == PieceLength
           N == NumPieces
<1>0. L \in Nat /\ N \in Nat /\ Piece = 0 .. N - 1
  BY Numbers DEF Piece
<1>a. L = PieceLength /\ N = NumPieces
  OBVIOUS
<1> HIDE DEF L, N
<1>1. N * L \in Nat
  BY <1>0, ProductsGrow
<1>2. ASSUME NEW i \in Piece, NEW n \in 0 .. L
      PROVE  i * L + n \in 0 .. N * L
  <2> DEFINE k == i + 1
  <2>1. i \in Nat /\ k \in Nat /\ k <= N /\ i <= k
    BY <1>0
  <2>2. k * L = i * L + L
    BY <2>1, <1>0
  <2> HIDE DEF k
  <2>3. k * L <= N * L /\ i * L \in Nat /\ k * L \in Nat
    BY <2>1, <1>0, ProductsGrow
  <2> QED BY <1>0, <1>1, <2>2, <2>3
<1>3. ASSUME NEW s \in Storage, NEW i \in Piece
      PROVE  getNextUsedIndex(s, i) * L \in 0 .. N * L
  <2> DEFINE S == {j \in Piece : j > i /\ j \in s.have \cup s.use}
             x == CHOOSE j \in S : \A k \in S : j <= k
             g == getNextUsedIndex(s, i)
  <2>1. g = IF S = {} THEN N ELSE x
    BY <1>a DEF getNextUsedIndex
  <2>2. S \in SUBSET Nat /\ \A j \in S : j <= N
    BY <1>0
  <2> HIDE DEF S, g
  <2>3. S # {} => x \in S
    <3>1. S # {} => \E j \in S : \A k \in S : j <= k
      BY <2>2, LeastNumber
    <3> QED BY <3>1
  <2> HIDE DEF x
  <2>4. g \in Nat /\ g <= N
    BY <1>0, <2>1, <2>2, <2>3
  <2>5. g * L \in Nat /\ g * L <= N * L
    BY <1>0, <2>4, ProductsGrow
  <2>6. g * L \in 0 .. N * L
    BY <1>1, <2>5
  <2> QED BY <2>6 DEF g
<1> QED BY <1>1, <1>2, <1>3, <1>a

\* A step that changes only the connection of c.
LEMMA OnlyConnection ==
    ASSUME NEW w, StreamBefore(w), NEW c \in Stream, NEW r \in Connection,
           con' = [con EXCEPT ![c] = r], r.st = "idle" => c \notin DOMAIN segs,
           c \in DOMAIN segs /\ r.st = "receiving" => r.pos = Position(segs[c]),
           UNCHANGED <<ps, segs, memo, halted>>
    PROVE  StreamAfter(w)
<1>1. /\ con' \in [Stream -> Connection] /\ con'[c] = r
      /\ \A d \in Stream : d # c => con'[d] = con[d]
  BY NewConnection DEF StreamBefore
<1>2. Sane(Man, w) /\ Man.failed = FALSE /\ Man.ps = ps /\ Man.segs = segs /\ Man.memo = memo
  BY ManIs
<1>3. halted \in BOOLEAN
  BY DEF StreamBefore
<1>4. Becomes(Man)
  BY <1>2, <1>3 DEF Becomes
<1>5. RestOf(segs, Man.segs, c) /\ AlignedAt(Man.segs, con', c)
  BY <1>1, <1>2 DEF RestOf, AlignedAt
<1>6. con'[c].st = "idle" => c \notin DOMAIN Man.segs
  BY <1>1, <1>2
<1> QED BY <1>1, <1>2, <1>4, <1>5, <1>6, StreamEnds

\* The request for a segment.
LEMMA RequestKeeps ==
    ASSUME NEW w, StreamBefore(w), NEW c \in Stream, RequestSegment(c)
    PROVE  StreamAfter(w)
<1> DEFINE i == segs[c].index
           r == [con[c] EXCEPT !.st = "receiving", !.pos = i * PieceLength + segs[c].written,
                               !.end = getNextUsedIndex(ps, i) * PieceLength]
<1>1. c \in DOMAIN segs /\ UNCHANGED <<ps, segs, memo, halted>>
  BY DEF RequestSegment
<1>2. con' = [con EXCEPT ![c] = r]
  BY DEF RequestSegment
<1>3. i \in Piece /\ segs[c].written \in 0 .. PieceLength
  BY <1>1, UseSegs DEF StreamBefore
<1>4. /\ i * PieceLength + segs[c].written \in 0 .. NumPieces * PieceLength
      /\ getNextUsedIndex(ps, i) * PieceLength \in 0 .. NumPieces * PieceLength
  BY <1>3, FilePositions DEF StreamBefore
<1>5. con[c] \in Connection
  BY DEF StreamBefore
<1>6. r \in Connection /\ r.st = "receiving" /\ r.pos = i * PieceLength + segs[c].written
  <2> HIDE DEF i
  <2> QED BY <1>4, <1>5 DEF Connection
<1> HIDE DEF r
<1>7. r.pos = Position(segs[c])
  BY <1>6 DEF Position
<1> QED BY <1>1, <1>2, <1>6, <1>7, OnlyConnection

\* A connection ends.
LEMMA DropKeeps ==
    ASSUME NEW w, StreamBefore(w), NEW c \in Stream, DropConnection(c)
    PROVE  StreamAfter(w)
<1>1. PICK ok \in DiskOutcome(ps) : GiveUp(c, Man, ok)
  BY DEF DropConnection
<1>2. ok \in Outcomes
  BY DiskOutcomeIs DEF StreamBefore
<1>3. Sane(Man, w) /\ Man.segs = segs
  BY ManIs
<1>4. RestOf(segs, Man.segs, c)
  BY <1>3 DEF RestOf
<1> QED BY <1>1, <1>2, <1>3, <1>4, GiveUpIs

\* A command without segments starts again.
LEMMA SegmentsCanceledKeeps ==
    ASSUME NEW w, StreamBefore(w), NEW c \in Stream, SegmentsCanceled(c)
    PROVE  StreamAfter(w)
<1>1. /\ c \notin DOMAIN segs /\ UNCHANGED <<ps, segs, memo, halted>>
      /\ con' = [con EXCEPT ![c] = Ended(c)]
  BY DEF SegmentsCanceled
<1>2. Ended(c) \in Connection
  BY EndedIs DEF StreamBefore
<1> QED BY <1>1, <1>2, OnlyConnection

\* A step of c ends with its connection ended and its segment gone.
LEMMA EndsIdle ==
    ASSUME NEW w, StreamBefore(w), NEW c \in Stream, NEW m, Sane(m, w), Becomes(m),
           ~m.failed => RestOf(segs, m.segs, c) /\ c \notin DOMAIN m.segs,
           con' = [con EXCEPT ![c] = Ended(c)]
    PROVE  StreamAfter(w)
<1>1. con \in [Stream -> Connection]
  BY DEF StreamBefore
<1>2. /\ con' \in [Stream -> Connection] /\ con'[c].st = "idle"
      /\ \A d \in Stream : d # c => con'[d] = con[d]
  BY <1>1, EndedIs, NewConnection
<1>3. AlignedAt(m.segs, con', c)
  BY <1>2 DEF AlignedAt
<1> QED BY <1>2, <1>3, StreamEnds

\* A step of c ends with its response going on.
LEMMA EndsReceiving ==
    ASSUME NEW w, StreamBefore(w), NEW c \in Stream, NEW m, Sane(m, w), Becomes(m),
           ~m.failed => RestOf(segs, m.segs, c),
           con[c].st = "receiving", NEW pos \in 0 .. NumPieces * PieceLength,
           Peer = {} /\ ~m.failed => pos = Position(m.segs[c]),
           con' = [con EXCEPT ![c].pos = pos]
    PROVE  StreamAfter(w)
<1>1. con \in [Stream -> Connection] /\ con[c] \in Connection
  BY DEF StreamBefore
<1> DEFINE r == [con[c] EXCEPT !.pos = pos]
<1>2. r \in Connection /\ r.st = "receiving" /\ r.pos = pos
  BY <1>1 DEF Connection
<1>3. con' = [con EXCEPT ![c] = r]
  OBVIOUS
<1> HIDE DEF r
<1>4. /\ con' \in [Stream -> Connection] /\ con'[c] = r
      /\ \A d \in Stream : d # c => con'[d] = con[d]
  BY <1>1, <1>2, <1>3, NewConnection
<1>5. con'[c].st # "idle"
  BY <1>2, <1>4
<1>6. Peer = {} /\ ~m.failed => AlignedAt(m.segs, con', c)
  BY <1>2, <1>4 DEF AlignedAt
<1> QED BY <1>4, <1>5, <1>6, StreamEnds

\* The response goes on into the next segment, or ends.
LEMMA PrepareIs ==
    ASSUME NEW w, StreamBefore(w), NEW c \in Stream, con[c].st = "receiving",
           NEW m, Sane(m, w),
           ~m.failed => RestOf(segs, m.segs, c) /\ c \notin DOMAIN m.segs,
           NEW i \in Piece, NEW pos \in 0 .. NumPieces * PieceLength, NEW ok \in Outcomes,
           Peer = {} => pos = (i + 1) * PieceLength,
           prepareForNextSegment(c, m, i, pos, ok)
    PROVE  StreamAfter(w)
<1> DEFINE u == getSegmentWithIndex(m, c, i + 1, ok)
           n == IF c \in DOMAIN u.segs \/ u.failed THEN u
                ELSE getCleanSegmentIfOwnerIsIdle(u, c, i + 1, ok)
           ending == m.failed \/ downloadFinished(m.ps) \/ con[c].end = (i + 1) * PieceLength
<1>1. CASE ending
  <2>1. Becomes(m) /\ con' = [con EXCEPT ![c] = Ended(c)]
    BY <1>1 DEF prepareForNextSegment
  <2> QED BY <2>1, EndsIdle
<1>2. CASE ~ending
  <2>1. IF n.failed \/ c \notin DOMAIN n.segs
        THEN Becomes(n) /\ con' = [con EXCEPT ![c] = Ended(c)]
        ELSE IF n.segs[c].written > 0 THEN GiveUp(c, n, ok)
        ELSE Becomes(n) /\ con' = [con EXCEPT ![c].pos = pos]
    BY <1>2 DEF prepareForNextSegment
  <2>2. ~m.failed /\ RestOf(segs, m.segs, c) /\ c \notin DOMAIN m.segs
    BY <1>2
  <2>3. Sane(u, w) /\ (~u.failed => /\ RestOf(m.segs, u.segs, c)
                                    /\ c \in DOMAIN u.segs => u.segs[c].index = i + 1)
    BY <2>2, GetSegmentIs
  <2> HIDE DEF u
  <2>4. Sane(n, w) /\ (~n.failed => /\ RestOf(segs, n.segs, c)
                                    /\ c \in DOMAIN n.segs => n.segs[c].index = i + 1)
    <3>1. CASE c \in DOMAIN u.segs \/ u.failed
      <4>1. n = u
        BY <3>1
      <4> QED BY <4>1, <2>2, <2>3 DEF RestOf
    <3>2. CASE ~(c \in DOMAIN u.segs \/ u.failed)
      <4>1. n = getCleanSegmentIfOwnerIsIdle(u, c, i + 1, ok)
        BY <3>2
      <4> HIDE DEF n
      <4>2. Sane(n, w) /\ (~n.failed => /\ RestOf(u.segs, n.segs, c)
                                        /\ c \in DOMAIN n.segs => n.segs[c].index = i + 1)
        BY <3>2, <4>1, <2>3, GetCleanIs
      <4> QED BY <4>2, <3>2, <2>2, <2>3 DEF RestOf
    <3> QED BY <3>1, <3>2
  <2> HIDE DEF n
  <2>5. CASE n.failed \/ c \notin DOMAIN n.segs
    <3>1. Becomes(n) /\ con' = [con EXCEPT ![c] = Ended(c)]
      BY <2>1, <2>5
    <3> QED BY <3>1, <2>4, <2>5, EndsIdle
  <2>6. CASE ~(n.failed \/ c \notin DOMAIN n.segs) /\ n.segs[c].written > 0
    <3>1. GiveUp(c, n, ok)
      BY <2>1, <2>6
    <3> QED BY <3>1, <2>4, GiveUpIs
  <2>7. CASE ~(n.failed \/ c \notin DOMAIN n.segs) /\ ~(n.segs[c].written > 0)
    <3>1. Becomes(n) /\ con' = [con EXCEPT ![c].pos = pos]
      BY <2>1, <2>7
    <3>2. n.segs[c].written = 0 /\ n.segs[c].index = i + 1
      <4>1. n.segs \in SegMap
        BY <2>4, ManFields DEF Sane
      <4>2. n.segs[c].written \in 0 .. PieceLength
        BY <2>7, <4>1, UseSegs
      <4> QED BY <2>4, <2>7, <4>2, Numbers
    <3>3. Position(n.segs[c]) = (i + 1) * PieceLength
      <4>1. i + 1 \in Nat /\ PieceLength \in Nat
        BY Numbers DEF Piece
      <4>2. \A a, b \in Nat : a * b + 0 = a * b
        OBVIOUS
      <4> QED BY <3>2, <4>1, <4>2 DEF Position
    <3> QED BY <3>1, <3>3, <2>4, <2>7, EndsReceiving
  <2> QED BY <2>5, <2>6, <2>7
<1> QED BY <1>1, <1>2

\* A segment that is complete when its hash matches is right.
LEMMA CompleteRight ==
    ASSUME NEW s \in Storage, Sound(s), NEW g, NEW mm, Tracked(s, g, mm),
           NEW c \in DOMAIN g, NEW i, i = g[c].index, i \in DOMAIN s.pieces, pieceComplete(s, i),
           ~(HashKnown /\ ~PieceHashMatches(s, i)), Sure(s)
    PROVE  Right(s, i)
<1>1. s.pieces[i] \in Rec /\ s.pieces[i].blocks \in SUBSET Block
  BY StorageFields, Fields
<1>2. s.pieces[i].blocks = Block
  BY <1>1 DEF pieceComplete, hasBlock
<1>3. CASE HashKnown
  <2>1. PieceHashMatches(s, i)
    BY <1>3
  <2>2. CASE (~s.endGame \/ ~P2P) /\ isHashCalculated(s, i)
    <3>1. s.pieces[i].hashOk
      BY <2>1, <2>2 DEF PieceHashMatches
    <3>2. ~s.endGame
      BY <2>2 DEF Sound
    <3>3. Streamed(s, i, g[c].written)
      BY <3>2 DEF Tracked, Digests
    <3> QED BY <2>2, <3>1, <3>3, DigestRight DEF Streamed
  <2>3. CASE ~((~s.endGame \/ ~P2P) /\ isHashCalculated(s, i))
    <3>1. DigestWithCacheOk(s, i)
      BY <2>1, <2>3 DEF PieceHashMatches
    <3> QED BY <3>1, ReadRight
  <2> QED BY <2>2, <2>3
<1>4. CASE ~HashKnown
  <2>1. Honest /\ Trusted(s)
    BY <1>4 DEF Sure
  <2>2. NoBad(s) /\ PieceThere(s, i)
    BY <2>1 DEF Sound, Clean, There
  <2> QED BY <1>2, <2>1, <2>2, HonestRight
<1> QED BY <1>3, <1>4

\* A stream that has the whole piece has written it to its end.
LEMMA PassedAll ==
    ASSUME NEW s \in Storage, NEW i \in DOMAIN s.pieces, NEW k \in 0 .. PieceLength,
           PassedBlocks(s, i, k), pieceComplete(s, i)
    PROVE  k = PieceLength
<1>1. PICK b : b = BlocksPerPiece - 1
  OBVIOUS
<1>2. b \in Block /\ b + 1 = BlocksPerPiece
  BY <1>1, Numbers DEF Block
<1>3. At(b + 1) = PieceLength
  BY <1>2 DEF At, PieceLength
<1>4. b \in s.pieces[i].blocks
  BY <1>2 DEF pieceComplete, hasBlock
<1> QED BY <1>2, <1>3, <1>4, Numbers DEF PassedBlocks

\* Stream c has received bytes of its segment, of piece i, up to k.
Received(m, w, c, i, k) ==
    /\ Known(m) /\ RestOf(segs, m.segs, c) /\ m.segs[c].written = k
    /\ m \in ManSet /\ m.failed = FALSE /\ DOMAIN m.segs = DOMAIN segs
    /\ m.segs[c].index = i /\ BooksBut(m.ps, m.segs, w, i)
    /\ m.ps \in Storage /\ i \in DOMAIN m.ps.pieces

\* Bytes are written to the segment of c.
LEMMA ReceivedIs ==
    ASSUME NEW w, StreamBefore(w), NEW c \in DOMAIN segs, NEW n \in 1 .. PieceLength,
           NEW ok \in Outcomes, NEW q \in {"good", "bad"}, Honest => q = "good",
           NEW i, i = segs[c].index, NEW from, from = segs[c].written,
           from + n <= PieceLength,
           NEW s \in writeData(ps, i, from .. from + n - 1, q, ok),
           NEW m, m = updateWrittenLength(
                         [Man EXCEPT !.ps = updateHash(s, i, from, n, q)], c, n)
    PROVE  Received(m, w, c, i, from + n)
<1>1. ps \in Storage /\ segs \in SegMap /\ Books(ps, segs, w, {})
  BY DEF StreamBefore
<1>2. HeldAlone(ps, segs, w, {}, c, i)
  BY <1>1, StreamHolds
<1>3. i \in DOMAIN ps.pieces
  BY <1>2 DEF HeldAlone
<1>4. from \in 0 .. PieceLength /\ n \in Nat /\ from \in Nat /\ PieceLength \in Nat
  BY <1>1, UseSegs, Numbers
<1> DEFINE O == from .. from + n - 1
<1>5. O \in SUBSET Offset /\ s \in writeData(ps, i, O, q, ok)
  BY <1>4 DEF Offset
<1> HIDE DEF O
<1>6. Wrote(ps, s, i, O, q)
  BY <1>1, <1>3, <1>5, WriteDataIs DEF Outcomes
<1>7. s \in Storage /\ SameBooks(ps, s) /\ i \in DOMAIN s.pieces
  BY <1>3, <1>6 DEF Wrote, SameBooks
<1> DEFINE h == updateHash(s, i, from, n, q)
           f == [Man EXCEPT !.ps = h]
<1>8. HashGoes(s, h, i, from, n, q)
  BY <1>4, <1>7, UpdateHashIs
<1> HIDE DEF h
<1>9. h \in Storage /\ SameBooks(s, h)
  BY <1>8 DEF HashGoes
<1>10. Books(h, segs, w, {})
  BY <1>1, <1>7, <1>9, BooksData
<1>11. Man \in ManSet /\ Man.failed = FALSE /\ Man.segs = segs
  BY ManIs
<1>12. f \in ManSet /\ f.ps = h /\ f.segs = segs /\ f.failed = FALSE /\ f.memo = Man.memo
  BY <1>9, <1>11, ManStorage
<1>13. m = updateWrittenLength(f, c, n)
  BY DEF h
<1> HIDE DEF f
<1>14. /\ Rewritten(f, m, c, m.ps, f.segs[c].written + n)
       /\ BlocksDone(f.ps, m.ps, i, Passed(f.segs[c].written, n))
       /\ BooksBut(m.ps, m.segs, w, i)
  BY <1>4, <1>10, <1>12, <1>13, UpdateWrittenIs
<1>15. DOMAIN m.ps.pieces = DOMAIN h.pieces /\ m.ps \in Storage
  <2>1. BlocksDone(h, m.ps, i, Passed(f.segs[c].written, n))
    BY <1>12, <1>14, Zenon
  <2> QED BY <2>1, ZenonT(60) DEF BlocksDone
<1>16. i \in DOMAIN h.pieces
  BY <1>7, <1>9 DEF SameBooks
<1>17. m \in ManSet /\ m.failed = f.failed /\ DOMAIN m.segs = DOMAIN f.segs /\ m.memo = f.memo
       /\ m.segs[c].index = f.segs[c].index /\ m.segs[c].written = f.segs[c].written + n
       /\ \A d \in DOMAIN f.segs : d # c => m.segs[d] = f.segs[d]
  BY <1>14 DEF Rewritten
<1>18. /\ Sound(ps) /\ Tracked(ps, segs, memo) /\ memo \in MemoMap /\ Clean(ps)
       /\ Apart(ps) /\ InFlight(ps, segs) /\ OnlyOf(segs, c)
  BY <1>1, BooksFacts DEF StreamBefore, Sound
<1>19. PICK x, B : x = m.ps /\ B = Passed(from, n)
  OBVIOUS
<1>20. MoreBlocks(s, x, i, B) /\ HashedOn(s, x, i, from, n, q)
  <2>1. BlocksDone(h, x, i, B)
    BY <1>12, <1>14, <1>19
  <2> QED BY <1>7, <1>8, <2>1, HashThenBlocks
<1>21. Put(ps, x, i, O, q, B) /\ HashedOn(ps, x, i, from, n, q)
  BY <1>1, <1>3, <1>5, <1>18, <1>20, PutIs
<1>22. SegmentAt(segs, m.segs, c, from + n)
  BY <1>12, <1>17 DEF SegmentAt
<1>23. Put(ps, x, i, from .. from + n - 1, q, Passed(from, n)) /\ n > 0
  BY <1>19, <1>21 DEF O
<1>24. /\ Tracked(x, m.segs, memo) /\ (Trusted(x) => PieceThere(x, i))
       /\ Peer = {} => DownTo(x.pieces[i].blocks)
  BY ZenonT(60), <1>1, <1>3, <1>4, <1>18, <1>21, <1>22, <1>23, PutStreamTracked DEF InFlight
<1>25. Sound(x)
  BY <1>1, <1>3, <1>18, <1>21, <1>24, PutSound
<1>26. Man.memo = memo
  BY ManIs
<1>27. Known(m)
  BY <1>12, <1>17, <1>19, <1>24, <1>25, <1>26 DEF Known
<1>28. RestOf(segs, m.segs, c)
  BY <1>12, <1>17 DEF RestOf
<1> QED BY <1>12, <1>14, <1>15, <1>16, <1>17, <1>27, <1>28 DEF Received

\* Bytes are received.
LEMMA ReceiveKeeps ==
    ASSUME NEW w, StreamBefore(w), NEW c \in Stream, Receive(c)
    PROVE  StreamAfter(w)
<1> DEFINE i == segs[c].index
           from == segs[c].written
           pos(n) == con[c].pos + n
           q == IF c \notin BadStream /\ con[c].pos = i * PieceLength + from
                THEN "good" ELSE "bad"
           M(s, n) == updateWrittenLength([Man EXCEPT !.ps = updateHash(s, i, from, n, q)], c, n)
<1>1. c \in DOMAIN segs /\ con[c].st = "receiving"
  BY DEF Receive
<1>2. PICK n \in 1 .. PieceLength, ok \in DiskOutcome(ps) :
        /\ from + n <= PieceLength /\ pos(n) <= con[c].end
        /\ \E s \in writeData(ps, i, from .. from + n - 1, q, ok) :
             IF ~pieceComplete(M(s, n).ps, i)
             THEN Becomes(M(s, n)) /\ con' = [con EXCEPT ![c].pos = pos(n)]
             ELSE IF HashKnown /\ ~PieceHashMatches(M(s, n).ps, i)
             THEN GiveUp(c, clearSegment(M(s, n), c), ok)
             ELSE prepareForNextSegment(c, completeSegment(M(s, n), c, ok), i, pos(n), ok)
  BY DEF Receive
<1>3. PICK s \in writeData(ps, i, from .. from + n - 1, q, ok) :
             IF ~pieceComplete(M(s, n).ps, i)
             THEN Becomes(M(s, n)) /\ con' = [con EXCEPT ![c].pos = pos(n)]
             ELSE IF HashKnown /\ ~PieceHashMatches(M(s, n).ps, i)
             THEN GiveUp(c, clearSegment(M(s, n), c), ok)
             ELSE prepareForNextSegment(c, completeSegment(M(s, n), c, ok), i, pos(n), ok)
  BY <1>2
<1> DEFINE m == M(s, n)
<1>4. /\ q \in {"good", "bad"} /\ ok \in Outcomes
      /\ i = segs[c].index /\ from = segs[c].written
  BY DiskOutcomeIs DEF StreamBefore
<1>b. Peer = {} => con[c].pos = i * PieceLength + from
  BY <1>1 DEF StreamBefore, Aligned, AlignedAt, Position
<1>c. Honest => q = "good"
  <2>1. ASSUME Honest PROVE Peer = {} /\ c \notin BadStream
    BY <2>1, TransferAssumption DEF Honest
  <2> QED BY <1>b, <2>1
<1> HIDE DEF q, i, from
<1>5. Received(m, w, c, i, from + n)
  BY <1>1, <1>2, <1>4, <1>c, ReceivedIs
<1>6. pos(n) \in 0 .. NumPieces * PieceLength
  <2>1. con[c] \in Connection
    BY DEF StreamBefore
  <2>2. con[c].pos \in 0 .. NumPieces * PieceLength /\ con[c].end \in 0 .. NumPieces * PieceLength
    BY <2>1 DEF Connection
  <2>3. NumPieces * PieceLength \in Nat /\ PieceLength \in Nat
    BY FilePositions, Numbers
  <2> DEFINE z == NumPieces * PieceLength
  <2> HIDE DEF z
  <2>4. con[c].pos \in 0 .. z /\ con[c].end \in 0 .. z /\ z \in Nat
    BY <2>2, <2>3 DEF z
  <2>5. con[c].pos + n \in 0 .. z
    BY SMTT(60), <1>2, <2>3, <2>4
  <2> QED BY <2>5 DEF z
<1> HIDE DEF M
<1>7. /\ m \in ManSet /\ m.failed = FALSE /\ DOMAIN m.segs = DOMAIN segs
      /\ m.segs[c].index = i /\ BooksBut(m.ps, m.segs, w, i)
      /\ m.ps \in Storage /\ i \in DOMAIN m.ps.pieces /\ Known(m)
      /\ RestOf(segs, m.segs, c) /\ m.segs[c].written = from + n
  BY <1>5 DEF Received
<1>d. /\ i \in Piece /\ i \in Nat /\ from \in Nat /\ n \in Nat /\ PieceLength \in Nat
      /\ from + n \in 0 .. PieceLength
  <2>1. i \in Piece /\ from \in 0 .. PieceLength
    BY <1>1, <1>4, UseSegs DEF StreamBefore
  <2> QED BY <1>2, <2>1, Numbers, SMTT(60) DEF Piece
<1>e. Peer = {} => pos(n) = Position(m.segs[c])
  <2>1. \A a, b, d \in Nat : (a * b + d) + n = a * b + (d + n)
    BY <1>d
  <2>2. (i * PieceLength + from) + n = i * PieceLength + (from + n)
    BY <1>d, <2>1
  <2> QED BY <1>7, <1>b, <2>2 DEF Position
<1>a. /\ ~pieceComplete(m.ps, i) => Becomes(m) /\ con' = [con EXCEPT ![c].pos = pos(n)]
      /\ pieceComplete(m.ps, i) /\ HashKnown /\ ~PieceHashMatches(m.ps, i) =>
            GiveUp(c, clearSegment(m, c), ok)
      /\ pieceComplete(m.ps, i) /\ ~(HashKnown /\ ~PieceHashMatches(m.ps, i)) =>
            prepareForNextSegment(c, completeSegment(m, c, ok), i, pos(n), ok)
  BY <1>3
<1> HIDE DEF m, pos
<1>8. CASE ~pieceComplete(m.ps, i)
  <2>1. Becomes(m) /\ con' = [con EXCEPT ![c].pos = pos(n)]
    BY <1>a, <1>8
  <2>2. m.ps.pieces[i].blocks # Block
    BY <1>7, <1>8 DEF pieceComplete, hasBlock
  <2>3. Books(m.ps, m.segs, w, {})
    BY <1>7, <2>2, BooksOne
  <2>4. Sane(m, w)
    BY <1>7, <2>3 DEF Sane
  <2> QED BY <1>1, <1>6, <1>7, <1>e, <2>1, <2>4, EndsReceiving
<1>9. CASE pieceComplete(m.ps, i) /\ HashKnown /\ ~PieceHashMatches(m.ps, i)
  <2> DEFINE f == clearSegment(m, c)
  <2>1. GiveUp(c, f, ok)
    BY <1>a, <1>9
  <2>2. /\ Rewritten(m, f, c, destroyHashContext(clearAllBlock(m.ps, i), i), 0)
        /\ Books(f.ps, f.segs, w, {}) /\ Known(f)
    BY <1>1, <1>7, ClearSegmentIs
  <2> HIDE DEF f
  <2>3. f \in ManSet /\ f.failed = FALSE /\ DOMAIN f.segs = DOMAIN m.segs
        /\ \A d \in DOMAIN m.segs : d # c => f.segs[d] = m.segs[d]
    BY <1>7, <2>2 DEF Rewritten
  <2>4. Sane(f, w)
    BY <2>2, <2>3 DEF Sane
  <2>5. RestOf(segs, f.segs, c)
    BY <1>7, <2>3 DEF RestOf
  <2> QED BY <1>4, <2>1, <2>4, <2>5, GiveUpIs
<1>10. CASE pieceComplete(m.ps, i) /\ ~(HashKnown /\ ~PieceHashMatches(m.ps, i))
  <2> DEFINE f == completeSegment(m, c, ok)
  <2>1. prepareForNextSegment(c, f, i, pos(n), ok)
    BY <1>a, <1>10
  <2>a. ~m.failed /\ c \in DOMAIN m.segs /\ i = m.segs[c].index /\ f = completeSegment(m, c, ok)
    BY <1>1, <1>7
  <2> HIDE DEF f
  <2>2. /\ Sane(f, w)
        /\ ~f.failed => DOMAIN f.segs = (DOMAIN m.segs) \ {c}
                        /\ \A d \in DOMAIN f.segs : f.segs[d] = m.segs[d]
    <3>2. Sound(m.ps) /\ Tracked(m.ps, m.segs, m.memo)
      BY <1>7 DEF Known
    <3>3. Sure(m.ps) => Right(m.ps, i)
      BY <1>7, <1>10, <2>a, <3>2, CompleteRight
    <3>1. SegmentDone(m, f, w, c)
      BY <1>4, <1>7, <2>a, <3>3, CompleteSegmentIs
    <3> QED BY <3>1 DEF SegmentDone
  <2>3. ~f.failed => RestOf(segs, f.segs, c) /\ c \notin DOMAIN f.segs
    BY <1>7, <2>2 DEF RestOf
  <2>4. Peer = {} => pos(n) = (i + 1) * PieceLength
    <3>1. SUFFICES ASSUME Peer = {} PROVE pos(n) = (i + 1) * PieceLength
      OBVIOUS
    <3>2. PassedBlocks(m.ps, i, from + n)
      BY <1>7, <2>a, <3>1 DEF Known, Tracked, Ordered
    <3>3. from + n = PieceLength
      BY <1>7, <1>10, <1>d, <3>2, PassedAll
    <3>4. \A a, b \in Nat : a * b + b = (a + 1) * b
      OBVIOUS
    <3>5. i * PieceLength + PieceLength = (i + 1) * PieceLength
      BY <1>d, <3>4
    <3> QED BY <1>7, <1>e, <3>1, <3>3, <3>5 DEF Position
  <2> QED BY <1>1, <1>4, <1>6, <1>d, <2>1, <2>2, <2>3, <2>4, PrepareIs
<1> QED BY <1>8, <1>9, <1>10

\* A download without peers forgets its pieces when no stream has a segment.
LEMMA NoPieceDone ==
    ASSUME ~P2P, NEW m \in ManSet, NEW w, Books(m.ps, m.segs, w, {}), DOMAIN m.segs = {},
           m.failed = FALSE, Known(m), NEW f, f = [m EXCEPT !.memo = <<>>, !.ps = markNoPieceDone(@)]
    PROVE  Sane(f, w) /\ DOMAIN f.segs = {} /\ f.failed = FALSE
<1> DEFINE t == markNoPieceDone(m.ps)
<1>1. Peer = {}
  BY TransferAssumption
<1>2. m.ps \in Storage /\ m.segs \in SegMap /\ m.memo \in MemoMap
  BY ManFields
<1>3. \A i : HeldBy(m.segs, w, i) = {} /\ Asked(w, i) = {}
  BY <1>1 DEF HeldBy, Asked
<1>4. \A i \in Piece : i \notin m.ps.use
  <2> TAKE i \in Piece
  <2>1. Booked(m.ps, i, HeldBy(m.segs, w, i), Asked(w, i), {})
    BY DEF Books
  <2> QED BY <1>3, <2>1 DEF Booked
<1>5. /\ t \in Storage /\ t.have = {} /\ t.use = m.ps.use /\ t.pieces = <<>>
      /\ t.endGame = m.ps.endGame /\ t.disk = m.ps.disk /\ t.failures = m.ps.failures
  <2>1. {} \in SUBSET Piece /\ <<>> \in PieceMap
    BY EmptyMaps
  <2> QED BY <1>2, <2>1 DEF markNoPieceDone, Storage
<1> HIDE DEF t
<1>6. f = [m EXCEPT !.memo = <<>>, !.ps = t]
  BY DEF t
<1>7. f \in ManSet /\ f.ps = t /\ f.segs = m.segs /\ f.failed = FALSE /\ f.memo = <<>>
  BY <1>2, <1>5, <1>6, EmptyMaps DEF ManSet
<1>8. ASSUME NEW i \in Piece PROVE Booked(t, i, HeldBy(m.segs, w, i), Asked(w, i), {})
  <2>1. i \notin DOMAIN t.pieces /\ i \notin t.use /\ i \notin t.have
    BY <1>4, <1>5, EmptyMaps
  <2>2. HeldBy(m.segs, w, i) = {} /\ Asked(w, i) = {} /\ Single({})
    BY <1>3 DEF Single
  <2>3. Booked(t, i, {}, {}, {})
    BY <2>1, <2>2 DEF Booked
  <2> QED BY <2>2, <2>3
<1>9. Books(t, m.segs, w, {})
  BY <1>8 DEF Books
<1>10. DOMAIN t.pieces = {} /\ DOMAIN f.memo = {}
  BY <1>5, <1>7, EmptyMaps
<1>11. Sound(m.ps)
  BY DEF Known
<1>12. Sound(t) /\ Tracked(t, m.segs, f.memo)
  BY <1>2, <1>5, <1>10, <1>11, ForgottenSound
<1>13. Known(f)
  BY <1>7, <1>12 DEF Known
<1> QED BY <1>7, <1>9, <1>13 DEF Sane

\* The server cannot resume: the segment is given back, or everything is.
LEMMA CannotResumeKeeps ==
    ASSUME NEW w, StreamBefore(w), NEW c \in Stream, CannotResume(c)
    PROVE  StreamAfter(w)
<1>1. PICK ok \in DiskOutcome(ps), scratch \in BOOLEAN :
        /\ con' = [con EXCEPT ![c] = Ended(c)]
        /\ \/ Becomes(cancelSegment(Man, c, ok))
           \/ /\ ~cancelSegment(Man, c, ok).failed /\ ~P2P
              /\ \E all \in cancelAllSegments(cancelSegment(Man, c, ok), ok) :
                   Becomes(IF all.failed THEN all
                           ELSE [all EXCEPT !.memo = <<>>, !.ps = markNoPieceDone(@)])
  BY DEF CannotResume
<1> DEFINE m == cancelSegment(Man, c, ok)
<1>2. ok \in Outcomes
  BY DiskOutcomeIs DEF StreamBefore
<1>3. Sane(Man, w) /\ Man.segs = segs
  BY ManIs
<1>4. Sane(m, w) /\ (~m.failed => GaveBack(Man, m, w, {c}))
  BY <1>2, <1>3, CancelSegmentIs
<1>5. /\ con' = [con EXCEPT ![c] = Ended(c)]
      /\ \/ Becomes(m)
         \/ /\ ~m.failed /\ ~P2P
            /\ \E all \in cancelAllSegments(m, ok) :
                 Becomes(IF all.failed THEN all
                         ELSE [all EXCEPT !.memo = <<>>, !.ps = markNoPieceDone(@)])
  BY <1>1
<1> HIDE DEF m
<1>6. CASE Becomes(m)
  <2>1. ~m.failed => /\ DOMAIN m.segs = (DOMAIN segs) \ {c}
                     /\ \A d \in DOMAIN m.segs : m.segs[d] = segs[d]
    BY <1>3, <1>4 DEF GaveBack
  <2>2. ~m.failed => RestOf(segs, m.segs, c) /\ c \notin DOMAIN m.segs
    BY <2>1 DEF RestOf
  <2> QED BY <1>4, <1>5, <1>6, <2>2, EndsIdle
<1>7. CASE ~m.failed /\ ~P2P
            /\ \E all \in cancelAllSegments(m, ok) :
                 Becomes(IF all.failed THEN all
                         ELSE [all EXCEPT !.memo = <<>>, !.ps = markNoPieceDone(@)])
  <2>1. PICK all \in cancelAllSegments(m, ok) :
                 Becomes(IF all.failed THEN all
                         ELSE [all EXCEPT !.memo = <<>>, !.ps = markNoPieceDone(@)])
    BY <1>7
  <2>2. Sane(all, w) /\ (~all.failed => DOMAIN all.segs = {})
    BY <1>2, <1>4, <1>7, CancelAllIs
  <2>3. CASE all.failed
    <3>1. Becomes(all)
      BY <2>1, <2>3
    <3> QED BY <1>5, <2>2, <2>3, <3>1, EndsIdle
  <2>4. CASE ~all.failed
    <3> DEFINE f == [all EXCEPT !.memo = <<>>, !.ps = markNoPieceDone(@)]
    <3>1. Becomes(f)
      BY <2>1, <2>4
    <3>2. all \in ManSet /\ Books(all.ps, all.segs, w, {}) /\ DOMAIN all.segs = {} /\ Known(all)
      BY <2>2, <2>4 DEF Sane
    <3>3. all.failed = FALSE
      BY <2>4, <3>2, ManFields
    <3>4. Sane(f, w) /\ DOMAIN f.segs = {} /\ f.failed = FALSE
      BY <1>7, <3>2, <3>3, NoPieceDone
    <3> HIDE DEF f
    <3>5. RestOf(segs, f.segs, c) /\ c \notin DOMAIN f.segs
      BY <3>4 DEF RestOf
    <3> QED BY <1>5, <3>1, <3>4, <3>5, EndsIdle
  <2> QED BY <2>3, <2>4
<1> QED BY <1>5, <1>6, <1>7

\* The session record of a step of a stream.
LEMMA SessionTyped ==
    ASSUME session \in [empty : BOOLEAN, alwaysResume : BOOLEAN], NEW c \in Stream, StreamNext(c)
    PROVE  session' \in [empty : BOOLEAN, alwaysResume : BOOLEAN]
<1>1. \/ session' = session
      \/ session' = [session EXCEPT !.alwaysResume = TRUE]
      \/ session' = [session EXCEPT !.empty = FALSE]
  BY DEF StreamNext, AcquireSegment, RequestSegment, DropConnection, CannotResume,
         SegmentsCanceled, Receive
<1> QED BY <1>1

\* Every step of a stream keeps the books, or ends the download.
LEMMA StreamKeeps ==
    ASSUME NEW w, StreamBefore(w), NEW c \in Stream, StreamNext(c)
    PROVE  StreamAfter(w)
BY AcquireKeeps, RequestKeeps, DropKeeps, CannotResumeKeeps, SegmentsCanceledKeeps, ReceiveKeeps
   DEF StreamNext

(***************************************************************************)
(* The peers.  v is the record of peer p in the middle of a step; the      *)
(* other peers and the streams stay as they are.                           *)
(***************************************************************************)
InTargets(v) == \A x \in v.slots : x[1] \in v.targets

OtherHeld(p, i) ==
    {c \in DOMAIN segs : segs[c].index = i} \cup {x \in Peer \ {p} : i \in peer[x].targets}
OtherAsked(p, i) == {b \in Block : \E x \in Peer \ {p} : <<i, b>> \in peer[x].slots}
Holding(p, v, i) == OtherHeld(p, i) \cup {x \in {p} : i \in v.targets}
Asking(p, v, i) == OtherAsked(p, i) \cup BlocksOf(v.slots, i)

PeerBooks(s, p, v, J) ==
    \A i \in Piece : Booked(s, i, Holding(p, v, i), Asking(p, v, i), J)

\* What is known of the data while the peers work and the streams rest.
PeerKnown(s) == Sound(s) /\ Tracked(s, segs, memo)

PeerSane(s, p, v, J) ==
    /\ s \in Storage /\ v \in PeerRecord /\ InTargets(v) /\ PeerBooks(s, p, v, J)
    /\ PeerKnown(s)

PeersBefore ==
    /\ segs \in SegMap /\ memo \in MemoMap /\ peer \in [Peer -> PeerRecord]
    /\ \A x \in Peer : InTargets(peer[x])

\* The fields of a peer's record.
LEMMA PeerFields ==
    ASSUME NEW v \in PeerRecord
    PROVE  /\ v.connected \in BOOLEAN /\ v.banned \in BOOLEAN /\ v.peerChoking \in BOOLEAN
           /\ v.targets \in SUBSET Piece /\ v.slots \in SUBSET Request /\ v.net \in SUBSET Request
BY DEF PeerRecord

\* A request is for a block of a piece.
LEMMA RequestIs ==
    /\ \A x \in Request : x[1] \in Piece /\ x[2] \in Block /\ x = <<x[1], x[2]>>
    /\ \A i \in Piece, b \in Block : <<i, b>> \in Request
    /\ \A i, b : <<i, b>>[1] = i /\ <<i, b>>[2] = b
BY DEF Request

\* The record of a peer with other requests.
LEMMA NewSlots ==
    ASSUME NEW v \in PeerRecord, NEW S \in SUBSET Request, NEW k, k = [v EXCEPT !.slots = S]
    PROVE  /\ k \in PeerRecord /\ k.slots = S /\ k.targets = v.targets /\ k.net = v.net
BY DEF PeerRecord

\* The record of a peer with other pieces.
LEMMA NewTargets ==
    ASSUME NEW v \in PeerRecord, NEW I \in SUBSET Piece, NEW k, k = [v EXCEPT !.targets = I]
    PROVE  /\ k \in PeerRecord /\ k.targets = I /\ k.slots = v.slots /\ k.net = v.net
BY DEF PeerRecord

\* The others do not include the peer, and hold what they have asked for.
LEMMA Others ==
    ASSUME PeersBefore, NEW p \in Peer, NEW i
    PROVE  /\ p \notin OtherHeld(p, i)
           /\ OtherHeld(p, i) \cap Peer = {} => OtherAsked(p, i) = {}
           /\ OtherAsked(p, i) \in SUBSET Block
<1>1. p \notin DOMAIN segs
  BY UseSegs, TransferAssumption DEF PeersBefore
<1>2. ASSUME NEW b \in OtherAsked(p, i) PROVE OtherHeld(p, i) \cap Peer # {}
  <2>1. PICK x \in Peer \ {p} : <<i, b>> \in peer[x].slots
    BY DEF OtherAsked
  <2>2. i \in peer[x].targets
    <3>1. InTargets(peer[x])
      BY DEF PeersBefore
    <3> QED BY <2>1, <3>1, RequestIs DEF InTargets
  <2> QED BY <2>1, <2>2 DEF OtherHeld
<1>3. OtherHeld(p, i) \cap Peer = {} => OtherAsked(p, i) = {}
  BY <1>2
<1> QED BY <1>1, <1>3 DEF OtherHeld, OtherAsked

\* The holders and the requests with and without the peer's own.
LEMMA HoldingIs ==
    ASSUME NEW p, NEW v, NEW i
    PROVE  /\ i \in v.targets => Holding(p, v, i) = OtherHeld(p, i) \cup {p}
           /\ i \notin v.targets => Holding(p, v, i) = OtherHeld(p, i)
           /\ \A b : b \in Asking(p, v, i) <=>
                b \in OtherAsked(p, i) \/ (b \in Block /\ <<i, b>> \in v.slots)
BY DEF Holding, Asking, BlocksOf

\* Outside end game nobody else holds a piece of the peer.
LEMMA AloneOutsideEndGame ==
    ASSUME PeersBefore, NEW p \in Peer, NEW s, NEW v, NEW J, PeerSane(s, p, v, J),
           NEW i \in Piece, i \in v.targets
    PROVE  /\ ~s.endGame => OtherHeld(p, i) = {} /\ OtherAsked(p, i) = {}
           /\ OtherHeld(p, i) \cap Stream = {}
           /\ i \notin s.have => i \in DOMAIN s.pieces
<1>1. Booked(s, i, Holding(p, v, i), Asking(p, v, i), J)
  BY DEF PeerSane, PeerBooks
<1>2. Holding(p, v, i) = OtherHeld(p, i) \cup {p}
  BY HoldingIs
<1>3. p \notin OtherHeld(p, i)
  BY Others
<1>4. ~s.endGame => OtherHeld(p, i) = {}
  BY <1>1, <1>2, <1>3 DEF Booked, Single
<1>5. ~s.endGame => OtherAsked(p, i) = {}
  BY <1>4, Others
<1>6. OtherHeld(p, i) \cap Stream = {}
  BY <1>1, <1>2, <1>3 DEF Booked, Single
<1>7. i \notin s.have => i \in DOMAIN s.pieces
  BY <1>1, <1>2 DEF Booked
<1> QED BY <1>4, <1>5, <1>6, <1>7

\* No stream holds a piece of the peer.
LEMMA NotHeld ==
    ASSUME PeersBefore, NEW p \in Peer, NEW s, NEW v, NEW J, PeerSane(s, p, v, J),
           NEW i \in Piece, i \in v.targets
    PROVE  ~HeldIn(segs, i)
<1>1. OtherHeld(p, i) \cap Stream = {}
  BY AloneOutsideEndGame
<1>2. DOMAIN segs \in SUBSET Stream
  BY UseSegs DEF PeersBefore
<1> QED BY <1>1, <1>2 DEF HeldIn, OtherHeld

\* What is known when a peer works.
LEMMA PeerFacts ==
    ASSUME PeersBefore, NEW p \in Peer, NEW s, NEW v, NEW J, PeerSane(s, p, v, J)
    PROVE  /\ s \in Storage /\ segs \in SegMap /\ memo \in MemoMap
           /\ Sound(s) /\ Tracked(s, segs, memo) /\ Apart(s) /\ InFlight(s, segs)
<1>1. /\ s \in Storage /\ segs \in SegMap /\ memo \in MemoMap
      /\ Sound(s) /\ Tracked(s, segs, memo)
  BY DEF PeerSane, PeerKnown, PeersBefore
<1>2. \A i \in Piece : Booked(s, i, Holding(p, v, i), Asking(p, v, i), J)
  BY DEF PeerSane, PeerBooks
<1>3. Apart(s)
  <2>1. DOMAIN s.pieces \in SUBSET Piece
    BY <1>1, StorageFields
  <2> QED BY <1>2, <2>1 DEF Booked, Apart
<1>4. ASSUME NEW c \in DOMAIN segs PROVE segs[c].index \in DOMAIN s.pieces
  <2> DEFINE i == segs[c].index
  <2>1. i \in Piece /\ c \in Stream
    BY <1>1, UseSegs
  <2>2. c \in Holding(p, v, i)
    BY DEF Holding, OtherHeld
  <2>3. Booked(s, i, Holding(p, v, i), Asking(p, v, i), J)
    BY <1>2, <2>1
  <2> HIDE DEF i
  <2>4. i \in s.use
    BY <2>1, <2>2, <2>3 DEF Booked
  <2>5. i \in DOMAIN s.pieces
    BY <2>3, <2>4 DEF Booked
  <2> QED BY <2>5 DEF i
<1> QED BY <1>1, <1>3, <1>4 DEF InFlight

\* A calm change that keeps the pieces of the streams.
LEMMA PeerCalm ==
    ASSUME PeersBefore, NEW p \in Peer, NEW s, NEW v, NEW J, PeerSane(s, p, v, J),
           NEW t, Calm(s, t), Steady(s, t), \A c \in DOMAIN segs : Same(s, t, segs[c].index)
    PROVE  PeerKnown(t)
<1>1. /\ s \in Storage /\ segs \in SegMap /\ memo \in MemoMap
      /\ Sound(s) /\ Tracked(s, segs, memo) /\ Apart(s)
  BY PeerFacts
<1>2. Sound(t)
  BY <1>1, CalmSound
<1>3. Tracked(t, segs, memo)
  BY <1>1, CalmTracked
<1> QED BY <1>2, <1>3 DEF PeerKnown

\* A change of the books that keeps the pieces of the streams.
LEMMA PeerCarried ==
    ASSUME PeersBefore, NEW p \in Peer, NEW s, NEW v, NEW J, PeerSane(s, p, v, J),
           NEW t, AllCarried(s, t), \A c \in DOMAIN segs : segs[c].index \in DOMAIN t.pieces
    PROVE  PeerKnown(t)
<1>1. s \in Storage
  BY PeerFacts
<1>2. Calm(s, t) /\ Steady(s, t) /\ \A i \in DOMAIN t.pieces : Same(s, t, i)
  BY <1>1, CarriedCalm
<1>3. \A c \in DOMAIN segs : Same(s, t, segs[c].index)
  BY <1>2
<1> QED BY <1>2, <1>3, PeerCalm

\* The requests X are given up; the requests S are left of those of peer v.
Left(s, v, X, S) ==
    /\ X \subseteq v.slots /\ S \subseteq v.slots
    /\ \A x \in S : x \notin X
    /\ \A x \in v.slots : x \in S \/ x \in X \/ hasBlock(s, x[1], x[2])

\* Requests are given up.
LEMMA DropSlots ==
    ASSUME PeersBefore, NEW p \in Peer, NEW s, NEW v, NEW J, PeerSane(s, p, v, J),
           NEW X, NEW S, Left(s, v, X, S),
           NEW t, t = cancelBlocks(s, X), NEW k, k = [v EXCEPT !.slots = S]
    PROVE  PeerSane(t, p, k, J)
<1>1. s \in Storage /\ v \in PeerRecord /\ InTargets(v)
  BY DEF PeerSane
<1>2. S \in SUBSET Request
  BY <1>1, PeerFields DEF Left
<1>3. k \in PeerRecord /\ k.slots = S /\ k.targets = v.targets
  BY <1>1, <1>2, NewSlots
<1>4. InTargets(k)
  BY <1>1, <1>3 DEF InTargets, Left
<1>5. t \in Storage
  BY <1>1, CancelBlocksIs
<1>6. ASSUME NEW i \in Piece PROVE Booked(t, i, Holding(p, k, i), Asking(p, k, i), J)
  <2> DEFINE h == Holding(p, v, i)
             a == Asking(p, v, i)
             b == Asking(p, k, i)
             Y == BlocksOf(X, i)
  <2>1. Booked(s, i, h, a, J)
    BY DEF PeerSane, PeerBooks
  <2>2. Holding(p, k, i) = h
    BY <1>3 DEF Holding
  <2>3. \A d : d \in a <=> d \in OtherAsked(p, i) \/ (d \in Block /\ <<i, d>> \in v.slots)
    BY HoldingIs
  <2>4. \A d : d \in b <=> d \in OtherAsked(p, i) \/ (d \in Block /\ <<i, d>> \in S)
    BY <1>3, HoldingIs
  <2>5. \A d : d \in Y <=> d \in Block /\ <<i, d>> \in X
    BY DEF BlocksOf
  <2> HIDE DEF h, a, b, Y
  <2>6. h \cap Peer = {} => b = {}
    BY <2>1, <2>3, <2>4 DEF Booked, Left
  <2>7. ASSUME i \in DOMAIN s.pieces, ~s.endGame PROVE b = a \ Y
    <3>1. ASSUME NEW d \in b PROVE d \in a /\ d \notin Y
      <4>1. d \in a
        BY <2>3, <2>4 DEF Left
      <4>2. ASSUME d \in Y PROVE FALSE
        <5>1. <<i, d>> \in X /\ <<i, d>> \in v.slots
          BY <2>5, <4>2 DEF Left
        <5>2. i \in v.targets
          BY <1>1, <5>1, RequestIs DEF InTargets
        <5>3. OtherAsked(p, i) = {}
          BY <2>7, <5>2, AloneOutsideEndGame
        <5>4. <<i, d>> \in S
          BY <2>4, <5>3
        <5> QED BY <5>1, <5>4 DEF Left
      <4> QED BY <4>1, <4>2
    <3>2. ASSUME NEW d \in a, d \notin Y PROVE d \in b
      <4>1. CASE d \in OtherAsked(p, i)
        BY <2>4, <4>1
      <4>2. CASE d \in Block /\ <<i, d>> \in v.slots
        <5>1. <<i, d>> \notin X
          BY <2>5, <3>2, <4>2
        <5>2. ~hasBlock(s, i, d)
          <6>1. s.pieces[i].blocks \cap a = {}
            BY <2>1, <2>7 DEF Booked
          <6> QED BY <2>7, <3>2, <6>1 DEF hasBlock
        <5>3. <<i, d>>[1] = i /\ <<i, d>>[2] = d
          BY RequestIs
        <5>4. <<i, d>> \in S
          BY <4>2, <5>1, <5>2, <5>3 DEF Left
        <5> QED BY <2>4, <4>2, <5>4
      <4> QED BY <2>3, <3>2, <4>1, <4>2
    <3> QED BY <3>1, <3>2
  <2>8. Booked(t, i, h, b, J)
    BY <1>1, <2>1, <2>6, <2>7, BookedCancelBlocks DEF Y
  <2> QED BY <2>2, <2>8 DEF b
<1>7. PeerKnown(t)
  <2>1. AllCarried(s, t) /\ DOMAIN t.pieces = DOMAIN s.pieces
    BY <1>1, CancelBlocksCarried
  <2>2. \A c \in DOMAIN segs : segs[c].index \in DOMAIN t.pieces
    BY <2>1, PeerFacts DEF InFlight
  <2> QED BY <2>1, <2>2, PeerCarried
<1> QED BY <1>3, <1>4, <1>5, <1>6, <1>7 DEF PeerSane, PeerBooks

\* No request is for a piece in I.
NoneIn(v, I) == \A x \in v.slots : x[1] \notin I

GaveTargets(s, t, v, k, p, I) ==
    t = cancelPieces(s, I, {p}) /\ k = [v EXCEPT !.targets = v.targets \ I]

\* Pieces the peer has nothing to ask for any more are given back.
LEMMA DropTargets ==
    ASSUME PeersBefore, NEW p \in Peer, NEW s, NEW v, NEW J, PeerSane(s, p, v, J),
           NEW I \in SUBSET v.targets, NoneIn(v, I),
           NEW t, NEW k, GaveTargets(s, t, v, k, p, I)
    PROVE  PeerSane(t, p, k, J)
<1> DEFINE C == {p}
           K == v.targets \ I
<1>0. t = cancelPieces(s, I, C) /\ C = {p} /\ K = v.targets \ I /\ k = [v EXCEPT !.targets = K]
  BY DEF GaveTargets
<1> HIDE DEF C, K
<1>1. s \in Storage /\ v \in PeerRecord /\ InTargets(v)
  BY DEF PeerSane
<1>2. K \in SUBSET Piece /\ I \in SUBSET Piece
  BY <1>0, <1>1, PeerFields
<1>3. k \in PeerRecord /\ k.slots = v.slots /\ k.targets = K
  BY <1>0, <1>1, <1>2, NewTargets
<1>4. InTargets(k)
  BY <1>0, <1>1, <1>3 DEF InTargets, NoneIn
<1>5. t \in Storage
  <2>1. GivenBack(s, t, I, C)
    BY <1>0, <1>1, <1>2, CancelPiecesIs
  <2> QED BY <2>1 DEF GivenBack
<1>6. ASSUME NEW i \in Piece PROVE Booked(t, i, Holding(p, k, i), Asking(p, k, i), J)
  <2> DEFINE h == Holding(p, v, i)
             a == Asking(p, v, i)
  <2>1. Booked(s, i, h, a, J)
    BY DEF PeerSane, PeerBooks
  <2>2. Asking(p, k, i) = a
    BY <1>3 DEF Asking
  <2>3. /\ i \notin I => Booked(t, i, h, a, J)
        /\ i \in I /\ h \cap C # {} /\ ((h \ C) \cap Peer = {} => a = {})
              => Booked(t, i, h \ C, a, J)
    <3> HIDE DEF h, a
    <3> QED BY <1>0, <1>1, <1>2, <2>1, BookedCancelPieces
  <2>4. CASE i \notin I
    <3>1. Holding(p, k, i) = h
      BY <1>0, <1>3, <2>4 DEF Holding
    <3> QED BY <2>2, <2>3, <2>4, <3>1
  <2>5. CASE i \in I
    <3>1. Holding(p, k, i) = OtherHeld(p, i) /\ h = OtherHeld(p, i) \cup {p}
      BY <1>0, <1>3, <2>5, HoldingIs
    <3>2. h \ C = OtherHeld(p, i) /\ h \cap C # {}
      BY <1>0, <3>1, Others
    <3>3. OtherHeld(p, i) \cap Peer = {} => OtherAsked(p, i) = {}
      BY Others
    <3>4. a = OtherAsked(p, i)
      <4>1. \A d : <<i, d>> \notin v.slots
        BY <2>5, RequestIs DEF NoneIn
      <4>2. \A d : d \in a <=> d \in OtherAsked(p, i) \/ (d \in Block /\ <<i, d>> \in v.slots)
        BY HoldingIs
      <4> HIDE DEF a
      <4> QED BY <4>1, <4>2
    <3> QED BY <2>2, <2>3, <2>5, <3>1, <3>2, <3>3, <3>4
  <2> QED BY <2>4, <2>5
<1>7. PeerKnown(t)
  <2>1. GivenBack(s, t, I, C)
    BY <1>0, <1>1, <1>2, CancelPiecesIs
  <2>2. AllCarried(s, t) /\ \A i \in DOMAIN s.pieces : i \notin I => i \in DOMAIN t.pieces
    BY <1>1, <2>1, GivenBackCarried
  <2>3. ASSUME NEW c \in DOMAIN segs PROVE segs[c].index \in DOMAIN t.pieces
    <3>1. segs[c].index \in DOMAIN s.pieces
      BY PeerFacts DEF InFlight
    <3>2. \A i \in I : ~HeldIn(segs, i)
      BY <1>2, NotHeld
    <3>3. segs[c].index \notin I
      BY <3>2 DEF HeldIn
    <3> QED BY <2>2, <3>1, <3>3
  <2> QED BY <2>2, <2>3, PeerCarried
<1> QED BY <1>3, <1>4, <1>5, <1>6, <1>7 DEF PeerSane, PeerBooks

(***************************************************************************)
(* The operations on r = [s, w].                                           *)
(***************************************************************************)
Pair == [s : Storage, w : PeerRecord]
PairSane(r, p, J) == r \in Pair /\ PeerSane(r.s, p, r.w, J)
PairWeak(r) == r \in Pair /\ Weak(r.s) /\ Sound(r.s)

\* A storage and a record of a peer.
LEMMA PairFields ==
    ASSUME NEW r \in Pair PROVE r.s \in Storage /\ r.w \in PeerRecord
BY DEF Pair

WithSlots(r, t, S) == [r EXCEPT !.s = t, !.w.slots = S]
WithTargets(r, t, I) == [r EXCEPT !.w.targets = I, !.s = t]

\* Requests are replaced together with the storage.
LEMMA PairSlots ==
    ASSUME NEW r \in Pair, NEW t \in Storage, NEW S \in SUBSET r.w.slots,
           NEW f, f = WithSlots(r, t, S)
    PROVE  /\ f \in Pair /\ f.s = t /\ f.w = [r.w EXCEPT !.slots = S]
           /\ f.w.slots = S /\ f.w.targets = r.w.targets /\ f.w.net = r.w.net
<1> DEFINE k == [r.w EXCEPT !.slots = S]
<1>1. f = [r EXCEPT !.s = t, !.w = k]
  BY DEF Pair, WithSlots
<1>2. S \in SUBSET Request /\ r.w \in PeerRecord
  BY PairFields, PeerFields
<1>3. k \in PeerRecord /\ k.slots = S /\ k.targets = r.w.targets /\ k.net = r.w.net
  BY <1>2, NewSlots
<1>4. f \in Pair /\ f.s = t /\ f.w = k
  <2> HIDE DEF k
  <2> QED BY <1>1, <1>3 DEF Pair
<1> QED BY <1>3, <1>4

\* Pieces are replaced together with the storage.
LEMMA PairTargets ==
    ASSUME NEW r \in Pair, NEW t \in Storage, NEW I \in SUBSET Piece,
           NEW f, f = WithTargets(r, t, I)
    PROVE  /\ f \in Pair /\ f.s = t /\ f.w = [r.w EXCEPT !.targets = I]
           /\ f.w.slots = r.w.slots /\ f.w.targets = I /\ f.w.net = r.w.net
<1> DEFINE k == [r.w EXCEPT !.targets = I]
<1>1. f = [r EXCEPT !.w = k, !.s = t]
  BY DEF Pair, WithTargets
<1>2. r.w \in PeerRecord
  BY PairFields
<1>3. k \in PeerRecord /\ k.slots = r.w.slots /\ k.targets = I /\ k.net = r.w.net
  BY ZenonT(60), <1>2, NewTargets
<1>4. f \in Pair /\ f.s = t /\ f.w = k
  <2> HIDE DEF k
  <2> QED BY <1>1, <1>3 DEF Pair
<1> QED BY <1>3, <1>4

\* A change of the books of a download that has failed.
LEMMA WeakCarried ==
    ASSUME NEW s \in Storage, Weak(s), Sound(s), NEW t, AllCarried(s, t)
    PROVE  Sound(t)
<1>1. Apart(s)
  BY DEF Weak, Apart
<1>2. Calm(s, t)
  BY CarriedCalm
<1> QED BY <1>1, <1>2, CalmSound

\* The requests for the pieces in I have been given up.
Aborted(r, f, I) ==
    /\ f \in Pair /\ f.w.targets = r.w.targets /\ f.w.net = r.w.net
    /\ f.s.have = r.s.have /\ DOMAIN f.s.pieces = DOMAIN r.s.pieces
    /\ \A x \in f.w.slots : x \in r.w.slots /\ x[1] \notin I
    /\ PairWeak(r) => PairWeak(f)

\* The requests for the pieces in I are given up.
LEMMA AbortIs ==
    ASSUME NEW r \in Pair, NEW I, NEW f, f = abortOutstanding(r, I)
    PROVE  /\ Aborted(r, f, I)
           /\ \A p \in Peer : \A J : PeersBefore /\ PairSane(r, p, J) => PairSane(f, p, J)
<1> DEFINE X == {x \in r.w.slots : x[1] \in I}
           S == r.w.slots \ X
           t == cancelBlocks(r.s, X)
<1>1. f = WithSlots(r, t, S)
  BY DEF abortOutstanding, Pair, WithSlots
<1>2. r.s \in Storage
  BY PairFields
<1>3. /\ t \in Storage /\ t.have = r.s.have /\ DOMAIN t.pieces = DOMAIN r.s.pieces
      /\ \A i \in DOMAIN r.s.pieces : t.pieces[i].blocks = r.s.pieces[i].blocks
  <2> HIDE DEF X
  <2> QED BY <1>2, CancelBlocksIs
<1>4. Left(r.s, r.w, X, S)
  BY DEF Left
<1>5. \A x \in S : x \in r.w.slots /\ x[1] \notin I
  OBVIOUS
<1>6. S \in SUBSET r.w.slots
  OBVIOUS
<1>7. t = cancelBlocks(r.s, X)
  OBVIOUS
<1> HIDE DEF X, S, t
<1>8. /\ f \in Pair /\ f.s = t /\ f.w = [r.w EXCEPT !.slots = S]
      /\ f.w.slots = S /\ f.w.targets = r.w.targets /\ f.w.net = r.w.net
  BY <1>1, <1>3, <1>6, PairSlots
<1>9. PairWeak(r) => PairWeak(f)
  <2>1. AllCarried(r.s, t)
    BY <1>2, <1>7, CancelBlocksCarried
  <2>2. Weak(r.s) /\ Sound(r.s) => Sound(t)
    BY <1>2, <2>1, WeakCarried
  <2>3. Weak(r.s) => Weak(t)
    BY <1>3 DEF Weak
  <2> QED BY <1>8, <2>2, <2>3 DEF PairWeak
<1>10. ASSUME NEW p \in Peer, NEW J, PeersBefore, PairSane(r, p, J) PROVE PairSane(f, p, J)
  <2>1. PeerSane(t, p, f.w, J)
    BY <1>4, <1>7, <1>8, <1>10, DropSlots DEF PairSane
  <2> QED BY <1>8, <2>1 DEF PairSane
<1>11. Aborted(r, f, I)
  BY <1>3, <1>5, <1>8, <1>9 DEF Aborted
<1> QED BY <1>10, <1>11

\* Pieces are given back without their requests.
LEMMA RemoveTargetsIs ==
    ASSUME NEW r \in Pair, NEW p \in Peer, NEW I \in SUBSET r.w.targets,
           NEW f, f = removeTargetPieces(r, I, p)
    PROVE  /\ f \in Pair /\ f.w.targets = r.w.targets \ I
           /\ PairWeak(r) => PairWeak(f)
           /\ \A J : PeersBefore /\ PairSane(r, p, J) => PairSane(f, p, J)
<1> DEFINE a == abortOutstanding(r, I)
           C == {p}
           t == cancelPieces(a.s, I, C)
           K == a.w.targets \ I
<1>1. /\ Aborted(r, a, I)
      /\ \A x \in Peer : \A J : PeersBefore /\ PairSane(r, x, J) => PairSane(a, x, J)
  BY AbortIs
<1>2. a \in Pair /\ a.w.targets = r.w.targets /\ \A x \in a.w.slots : x[1] \notin I
  BY <1>1 DEF Aborted
<1>3. f = WithTargets(a, t, K)
  BY <1>2 DEF removeTargetPieces, Pair, WithTargets
<1> HIDE DEF a
<1>4. I \in SUBSET Piece /\ K \in SUBSET Piece /\ a.s \in Storage
  BY <1>2, PairFields, PeerFields
<1>5. t = cancelPieces(a.s, I, C) /\ C = {p} /\ K = a.w.targets \ I
  OBVIOUS
<1> HIDE DEF t, K, C
<1>6. GivenBack(a.s, t, I, C)
  BY <1>4, <1>5, CancelPiecesIs
<1>7. t \in Storage
  BY <1>6 DEF GivenBack
<1>8. /\ f \in Pair /\ f.s = t /\ f.w = [a.w EXCEPT !.targets = K]
      /\ f.w.slots = a.w.slots /\ f.w.targets = K
  BY <1>2, <1>3, <1>4, <1>7, PairTargets
<1>9. PairWeak(r) => PairWeak(f)
  <2>1. Weak(a.s) => Weak(t)
    BY <1>6 DEF GivenBack, Weak
  <2>2. PairWeak(r) => PairWeak(a)
    BY <1>1 DEF Aborted
  <2>3. AllCarried(a.s, t)
    BY <1>4, <1>6, GivenBackCarried
  <2>4. Weak(a.s) /\ Sound(a.s) => Sound(t)
    BY <1>4, <2>3, WeakCarried
  <2> QED BY <1>8, <2>1, <2>2, <2>4 DEF PairWeak
<1>10. ASSUME NEW J, PeersBefore, PairSane(r, p, J) PROVE PairSane(f, p, J)
  <2>1. PeerSane(a.s, p, a.w, J)
    BY <1>1, <1>10 DEF PairSane
  <2>2. I \in SUBSET a.w.targets
    BY <1>2
  <2>4. NoneIn(a.w, I)
    BY <1>2 DEF NoneIn
  <2>5. GaveTargets(a.s, t, a.w, f.w, p, I)
    BY <1>5, <1>8 DEF GaveTargets
  <2>3. PeerSane(t, p, f.w, J)
    BY <1>10, <2>1, <2>2, <2>4, <2>5, DropTargets
  <2> QED BY <1>8, <2>3 DEF PairSane
<1> QED BY <1>2, <1>5, <1>8, <1>9, <1>10

\* Requests of a pair are given up.
LEMMA SlotsLeft ==
    ASSUME PeersBefore, NEW p \in Peer, NEW J, NEW r, PairSane(r, p, J),
           NEW X, NEW S, Left(r.s, r.w, X, S), NEW f, f = WithSlots(r, cancelBlocks(r.s, X), S)
    PROVE  PairSane(f, p, J) /\ f.w.targets = r.w.targets /\ f.w.net = r.w.net
           /\ f.w.slots = S /\ f.s = cancelBlocks(r.s, X)
<1> DEFINE t == cancelBlocks(r.s, X)
<1>1. r \in Pair /\ r.s \in Storage /\ PeerSane(r.s, p, r.w, J)
  BY PairFields DEF PairSane
<1>2. t \in Storage
  BY <1>1, CancelBlocksIs
<1>3. S \in SUBSET r.w.slots /\ t = cancelBlocks(r.s, X) /\ f = WithSlots(r, t, S)
  BY DEF Left
<1> HIDE DEF t
<1>4. /\ f \in Pair /\ f.s = t /\ f.w = [r.w EXCEPT !.slots = S]
      /\ f.w.slots = S /\ f.w.targets = r.w.targets /\ f.w.net = r.w.net
  BY <1>1, <1>2, <1>3, PairSlots
<1>5. PeerSane(t, p, f.w, J)
  BY <1>1, <1>3, <1>4, DropSlots
<1> QED BY <1>3, <1>4, <1>5 DEF PairSane

\* The requests are checked.
LEMMA SlotChecksIs ==
    ASSUME PeersBefore, NEW p \in Peer, NEW J, NEW r, PairSane(r, p, J), NEW f \in SlotChecks(r)
    PROVE  PairSane(f, p, J) /\ f.w.net = r.w.net
<1>1. CASE f = r
  BY <1>1
<1>2. ASSUME NEW T \in SUBSET r.w.slots, f = checkRequestSlots(r, T)
      PROVE  PairSane(f, p, J) /\ f.w.net = r.w.net
  <2> DEFINE S == {x \in r.w.slots \ T : ~hasBlock(r.s, x[1], x[2])}
             t == cancelBlocks(r.s, T)
  <2>1. Left(r.s, r.w, T, S)
    BY DEF Left
  <2>2. f = WithSlots(r, t, S)
    BY <1>2 DEF checkRequestSlots, WithSlots, PairSane, Pair
  <2> HIDE DEF S
  <2> QED BY <2>1, <2>2, SlotsLeft
<1>3. f = r \/ \E T \in SUBSET r.w.slots : f = checkRequestSlots(r, T)
  BY DEF SlotChecks
<1> QED BY <1>1, <1>2, <1>3

\* A request is given up.
LEMMA RemoveOutstandingIs ==
    ASSUME PeersBefore, NEW p \in Peer, NEW J, NEW r, PairSane(r, p, J), NEW x \in r.w.slots,
           NEW f, f = removeOutstandingRequest(r, x)
    PROVE  PairSane(f, p, J)
<1> DEFINE X == {x}
           S == r.w.slots \ {x}
<1>1. Left(r.s, r.w, X, S)
  BY DEF Left
<1>2. f = WithSlots(r, cancelBlocks(r.s, X), S)
  BY DEF removeOutstandingRequest, WithSlots, PairSane, Pair
<1> HIDE DEF X, S
<1> QED BY <1>1, <1>2, SlotsLeft

\* Two records with the same pieces and requests are the same to the books.
LEMMA SameToBooks ==
    ASSUME NEW p, NEW J, NEW s, NEW v, PeerSane(s, p, v, J), NEW k \in PeerRecord,
           k.targets = v.targets, k.slots = v.slots
    PROVE  PeerSane(s, p, k, J)
BY DEF PeerSane, PeerBooks, InTargets, Holding, Asking

\* The new record of a peer.
LEMMA NewPeerIs ==
    /\ NewPeer \in PeerRecord /\ NewPeer.targets = {} /\ NewPeer.slots = {} /\ InTargets(NewPeer)
    /\ \A v \in PeerRecord : /\ Closed(v) \in PeerRecord /\ Closed(v).targets = {}
                             /\ Closed(v).slots = {} /\ InTargets(Closed(v))
<1>1. NewPeer \in PeerRecord /\ NewPeer.targets = {} /\ NewPeer.slots = {}
  BY DEF NewPeer, PeerRecord
<1>2. ASSUME NEW v \in PeerRecord
      PROVE  Closed(v) \in PeerRecord /\ Closed(v).targets = {} /\ Closed(v).slots = {}
  <2>1. v.banned \in BOOLEAN
    BY PeerFields
  <2> QED BY <2>1 DEF Closed, NewPeer, PeerRecord
<1> QED BY <1>1, <1>2 DEF InTargets

\* A connection ends: everything is given back.
LEMMA DisconnectIs ==
    ASSUME NEW r \in Pair, NEW p \in Peer, NEW f, f = disconnect(r, p)
    PROVE  /\ f \in Pair /\ InTargets(f.w)
           /\ PairWeak(r) => PairWeak(f)
           /\ \A J : PeersBefore /\ PairSane(r, p, J) => PairSane(f, p, J)
<1> DEFINE I == r.w.targets
           t == removeTargetPieces(r, I, p)
<1>1. /\ t \in Pair /\ t.w.targets = r.w.targets \ I
      /\ PairWeak(r) => PairWeak(t)
      /\ \A J : PeersBefore /\ PairSane(r, p, J) => PairSane(t, p, J)
  BY RemoveTargetsIs
<1>2. t.w.targets = {}
  BY <1>1
<1>3. f = [t EXCEPT !.w = Closed(t.w)]
  BY DEF disconnect
<1> HIDE DEF t, I
<1>4. t.w \in PeerRecord
  BY <1>1, PairFields
<1>5. /\ Closed(t.w) \in PeerRecord /\ Closed(t.w).targets = {} /\ Closed(t.w).slots = {}
      /\ InTargets(Closed(t.w))
  BY <1>4, NewPeerIs
<1>6. f \in Pair /\ f.s = t.s /\ f.w = Closed(t.w)
  BY <1>1, <1>3, <1>5 DEF Pair
<1>7. PairWeak(r) => PairWeak(f)
  BY <1>1, <1>6 DEF PairWeak
<1>8. ASSUME NEW J, PeersBefore, PairSane(r, p, J) PROVE PairSane(f, p, J)
  <2>1. PeerSane(t.s, p, t.w, J)
    BY <1>1, <1>8 DEF PairSane
  <2>2. t.w.slots = {}
    BY <1>2, <2>1 DEF PeerSane, InTargets
  <2>3. PeerSane(f.s, p, f.w, J)
    BY <1>2, <1>5, <1>6, <2>1, <2>2, SameToBooks
  <2> QED BY <1>6, <2>3 DEF PairSane
<1> QED BY <1>5, <1>6, <1>7, <1>8

\* A piece that is done may lose holders.
LEMMA BookedHave ==
    ASSUME NEW s, NEW i, NEW h, NEW a, NEW J, Booked(s, i, h, a, J), i \in s.have,
           NEW k, k \subseteq h, NEW b, k \cap Peer = {} => b = {}
    PROVE  Booked(s, i, k, b, J)
BY DEF Booked, Single

\* Completed pieces are dropped.
LEMMA RemoveCompletedIs ==
    ASSUME PeersBefore, NEW p \in Peer, NEW r, PairSane(r, p, {}),
           NEW f, f = removeCompletedPiece(r)
    PROVE  PairSane(f, p, {}) /\ f.s.have = r.s.have
<1> DEFINE C == {i \in r.w.targets : pieceComplete(r.s, i)}
           a == abortOutstanding(r, C)
           K == a.w.targets \ C
<1>1. r \in Pair /\ r.s \in Storage /\ r.w \in PeerRecord /\ PeerSane(r.s, p, r.w, {})
  BY PairFields DEF PairSane
<1>2. /\ Aborted(r, a, C)
      /\ \A x \in Peer : \A J : PeersBefore /\ PairSane(r, x, J) => PairSane(a, x, J)
  <2> HIDE DEF C
  <2> QED BY <1>1, AbortIs
<1>3. /\ a \in Pair /\ a.w.targets = r.w.targets /\ a.s.have = r.s.have
      /\ \A x \in a.w.slots : x[1] \notin C
  <2> HIDE DEF C
  <2> QED BY <1>2 DEF Aborted
<1>4. PairSane(a, p, {})
  <2> DEFINE e == {}
  <2>1. PairSane(r, p, e)
    OBVIOUS
  <2> HIDE DEF e
  <2>2. PairSane(a, p, e)
    BY <1>2, <2>1
  <2> QED BY <2>2 DEF e
<1>5. ASSUME NEW i \in C PROVE i \in r.s.have /\ i \in Piece
  <2>1. i \in Piece /\ i \in r.w.targets
    BY <1>1, PeerFields
  <2>2. Booked(r.s, i, Holding(p, r.w, i), Asking(p, r.w, i), {})
    BY <1>1, <2>1 DEF PeerSane, PeerBooks
  <2>3. i \notin DOMAIN r.s.pieces
    <3>1. \A b \in Block : hasBlock(r.s, i, b)
      BY DEF pieceComplete
    <3>2. i \in DOMAIN r.s.pieces => r.s.pieces[i].blocks \in SUBSET Block
      BY <1>1, StorageFields, Fields
    <3>3. i \in DOMAIN r.s.pieces => r.s.pieces[i].blocks # Block
      BY <2>2 DEF Booked
    <3> QED BY <3>1, <3>2, <3>3 DEF hasBlock
  <2>4. hasBlock(r.s, i, 0)
    BY Numbers DEF pieceComplete
  <2> QED BY <2>1, <2>3, <2>4 DEF hasBlock
<1>6. K \in SUBSET Piece /\ a.s \in Storage /\ a.w \in PeerRecord
  BY <1>3, PairFields, PeerFields
<1>7. f = WithTargets(a, a.s, K)
  <2> HIDE DEF C
  <2>1. f = [a EXCEPT !.w.targets = @ \ C]
    BY DEF removeCompletedPiece, C
  <2> HIDE DEF a
  <2> QED BY <1>3, <2>1 DEF WithTargets, Pair
<1>8. K = a.w.targets \ C
  OBVIOUS
<1> HIDE DEF a, C, K
<1>9. /\ f \in Pair /\ f.s = a.s /\ f.w.slots = a.w.slots /\ f.w.targets = K
  <2> DEFINE t == a.s
  <2>1. a \in Pair /\ t \in Storage /\ K \in SUBSET Piece /\ f = WithTargets(a, t, K) /\ t = a.s
    BY <1>3, <1>6, <1>7
  <2> HIDE DEF t
  <2>2. /\ f \in Pair /\ f.s = t /\ f.w = [a.w EXCEPT !.targets = K]
        /\ f.w.slots = a.w.slots /\ f.w.targets = K /\ f.w.net = a.w.net
    BY <2>1, PairTargets
  <2> QED BY <2>1, <2>2
<1>10. InTargets(f.w)
  BY <1>3, <1>4, <1>8, <1>9 DEF PairSane, PeerSane, InTargets
<1>11. ASSUME NEW i \in Piece
       PROVE  Booked(f.s, i, Holding(p, f.w, i), Asking(p, f.w, i), {})
  <2> DEFINE h == Holding(p, a.w, i)
             g == Asking(p, a.w, i)
  <2>1. Booked(a.s, i, h, g, {})
    BY <1>4 DEF PairSane, PeerSane, PeerBooks
  <2>2. Asking(p, f.w, i) = g
    BY <1>9 DEF Asking
  <2>3. CASE i \notin C
    <3>1. Holding(p, f.w, i) = h
      BY <1>8, <1>9, <2>3 DEF Holding
    <3> QED BY <1>9, <2>1, <2>2, <3>1
  <2>4. CASE i \in C
    <3>1. i \in a.s.have
      BY <1>3, <1>5, <2>4
    <3>2. Holding(p, f.w, i) = OtherHeld(p, i)
      BY <1>8, <1>9, <2>4, HoldingIs
    <3>3. OtherHeld(p, i) \subseteq h
      BY DEF Holding
    <3>4. g = OtherAsked(p, i)
      <4>1. \A d : <<i, d>> \notin a.w.slots
        BY <1>3, <2>4, RequestIs
      <4>2. \A d : d \in g <=> d \in OtherAsked(p, i) \/ (d \in Block /\ <<i, d>> \in a.w.slots)
        BY HoldingIs
      <4> HIDE DEF g
      <4> QED BY <4>1, <4>2
    <3>5. OtherHeld(p, i) \cap Peer = {} => g = {}
      BY <3>4, Others
    <3> HIDE DEF h, g
    <3>6. Booked(a.s, i, OtherHeld(p, i), g, {})
      BY <2>1, <3>1, <3>3, <3>5, BookedHave
    <3> QED BY <1>9, <2>2, <3>2, <3>6
  <2> QED BY <2>3, <2>4
<1>12. f.w \in PeerRecord
  BY <1>9, PairFields
<1>13. PeerKnown(f.s)
  BY <1>4, <1>9 DEF PairSane, PeerSane
<1> QED BY <1>3, <1>6, <1>9, <1>10, <1>11, <1>12, <1>13 DEF PairSane, PeerSane, PeerBooks

\* A choke takes slots and pieces away.
LEMMA ChokedIs ==
    ASSUME PeersBefore, NEW p \in Peer, NEW J, NEW r, PairSane(r, p, J),
           NEW f, f = doChokedAction(r, p)
    PROVE  PairSane(f, p, J)
<1> DEFINE A == AllowedFast[p]
           X == {x \in r.w.slots : x[1] \notin A}
           I == r.w.targets \ A
           S == r.w.slots \ X
           s1 == cancelBlocks(r.s, X)
           v1 == [r.w EXCEPT !.slots = S]
           s2 == cancelPieces(s1, I, {p})
           v2 == [v1 EXCEPT !.targets = v1.targets \ I]
           v3 == [v2 EXCEPT !.peerChoking = TRUE]
<1>1. r \in Pair /\ r.s \in Storage /\ r.w \in PeerRecord /\ PeerSane(r.s, p, r.w, J)
  BY PairFields DEF PairSane
<1>2. Left(r.s, r.w, X, S)
  BY DEF Left
<1>3. PeerSane(s1, p, v1, J)
  <2> HIDE DEF X, S
  <2> QED BY <1>1, <1>2, DropSlots
<1>4. v1 \in PeerRecord /\ v1.slots = S /\ v1.targets = r.w.targets
  <2>1. S \in SUBSET Request
    BY <1>1, PeerFields
  <2> HIDE DEF S
  <2> QED BY <1>1, <2>1, NewSlots
<1>5. NoneIn(v1, I) /\ I \in SUBSET v1.targets
  <2> HIDE DEF v1
  <2> QED BY <1>4 DEF NoneIn
<1>6. PeerSane(s2, p, v2, J)
  <2>1. GaveTargets(s1, s2, v1, v2, p, I)
    BY DEF GaveTargets
  <2> HIDE DEF s1, s2, v1, v2, I
  <2> QED BY <1>3, <1>5, <2>1, DropTargets
<1>7. v2 \in PeerRecord /\ s2 \in Storage
  BY <1>6 DEF PeerSane
<1>8. f = [r EXCEPT !.w = v3, !.s = s2]
  <2>1. f = [r EXCEPT !.w.peerChoking = TRUE, !.w.slots = S, !.w.targets = r.w.targets \ I, !.s = s2]
    BY <1>1 DEF doChokedAction, Pair
  <2>2. v1.targets \ I = r.w.targets \ I
    BY <1>4
  <2> HIDE DEF S, I, s2
  <2> QED BY ZenonT(60), <1>1, <2>1, <2>2 DEF Pair, PeerRecord
<1> HIDE DEF s2, v2
<1>9. v3 \in PeerRecord /\ v3.targets = v2.targets /\ v3.slots = v2.slots
  BY <1>7 DEF PeerRecord
<1> HIDE DEF v3
<1>10. f \in Pair /\ f.s = s2 /\ f.w = v3
  BY <1>1, <1>7, <1>8, <1>9 DEF Pair
<1>11. PeerSane(s2, p, v3, J)
  BY <1>6, <1>9, SameToBooks
<1> QED BY <1>10, <1>11 DEF PairSane

\* The records of a peer that differ in a flag or in what is on its way.
LEMMA FlagsIs ==
    ASSUME NEW p, NEW J, NEW r, PairSane(r, p, J)
    PROVE  /\ PairSane(doUnchokedAction(r), p, J)
           /\ \A x : PairSane([r EXCEPT !.w.net = @ \ {x}], p, J)
<1>1. r \in Pair /\ r.s \in Storage /\ r.w \in PeerRecord /\ PeerSane(r.s, p, r.w, J)
  BY PairFields DEF PairSane
<1>2. ASSUME NEW k \in PeerRecord, k.targets = r.w.targets, k.slots = r.w.slots,
             NEW f, f = [r EXCEPT !.w = k]
      PROVE  PairSane(f, p, J)
  <2>1. f \in Pair /\ f.s = r.s /\ f.w = k
    BY <1>1, <1>2 DEF Pair
  <2>2. PeerSane(r.s, p, k, J)
    BY <1>1, <1>2, SameToBooks
  <2> QED BY <2>1, <2>2 DEF PairSane
<1>3. PairSane(doUnchokedAction(r), p, J)
  <2> DEFINE k == [r.w EXCEPT !.peerChoking = FALSE]
  <2>1. k \in PeerRecord /\ k.targets = r.w.targets /\ k.slots = r.w.slots
    BY <1>1 DEF PeerRecord
  <2>2. doUnchokedAction(r) = [r EXCEPT !.w = k]
    BY <1>1 DEF doUnchokedAction, Pair
  <2> HIDE DEF k
  <2> QED BY <1>2, <2>1, <2>2
<1>4. ASSUME NEW x PROVE PairSane([r EXCEPT !.w.net = @ \ {x}], p, J)
  <2> DEFINE N == r.w.net \ {x}
             k == [r.w EXCEPT !.net = N]
  <2>1. k \in PeerRecord /\ k.targets = r.w.targets /\ k.slots = r.w.slots
    <3>1. N \in SUBSET Request
      BY <1>1, PeerFields
    <3> HIDE DEF N
    <3> QED BY <1>1, <3>1 DEF PeerRecord
  <2>2. [r EXCEPT !.w.net = @ \ {x}] = [r EXCEPT !.w = k]
    BY <1>1 DEF Pair
  <2> HIDE DEF k
  <2> QED BY <1>2, <2>1, <2>2
<1> QED BY <1>3, <1>4

\* End game begins or does not.
LEMMA EndGameIs ==
    ASSUME NEW p \in Peer, NEW r, PairSane(r, p, {}), NEW z \in BOOLEAN,
           NEW e, e = [r EXCEPT !.s.endGame = @ \/ z]
    PROVE  PairSane(e, p, {}) /\ e.w = r.w /\ e.s.have = r.s.have
<1>1. r \in Pair /\ r.s \in Storage /\ r.w \in PeerRecord /\ PeerSane(r.s, p, r.w, {})
  BY PairFields DEF PairSane
<1> DEFINE b == r.s.endGame \/ z
           s == [r.s EXCEPT !.endGame = b]
<1>2. e = [r EXCEPT !.s = s]
  BY <1>1 DEF Pair
<1>3. b \in BOOLEAN /\ (r.s.endGame => b)
  OBVIOUS
<1> HIDE DEF b
<1>4. /\ s \in Storage /\ s.have = r.s.have /\ s.use = r.s.use /\ s.pieces = r.s.pieces
      /\ s.disk = r.s.disk /\ s.failures = r.s.failures
      /\ s.endGame = b
  BY <1>1, <1>3 DEF Storage
<1>5. r.s.endGame => s.endGame
  BY <1>3, <1>4
<1> HIDE DEF s
<1>6. e \in Pair /\ e.s = s /\ e.w = r.w
  BY <1>1, <1>2, <1>4 DEF Pair
<1>7. ASSUME NEW i \in Piece PROVE Booked(s, i, Holding(p, r.w, i), Asking(p, r.w, i), {})
  <2> DEFINE h == Holding(p, r.w, i)
             a == Asking(p, r.w, i)
  <2>1. Booked(r.s, i, h, a, {})
    BY <1>1 DEF PeerSane, PeerBooks
  <2> HIDE DEF h, a
  <2>2. Booked(s, i, h, a, {})
    BY <1>4, <1>5, <2>1 DEF Booked
  <2> QED BY <2>2 DEF h, a
<1>8. PeerKnown(s)
  <2>1. EndGameOnly(r.s, s)
    BY <1>4, <1>5 DEF EndGameOnly
  <2>2. P2P
    BY TransferAssumption
  <2>3. PeerKnown(r.s)
    BY <1>1 DEF PeerSane
  <2> QED BY <1>1, <2>1, <2>2, <2>3, EndGameSound DEF PeerKnown
<1> QED BY <1>1, <1>4, <1>6, <1>7, <1>8 DEF PairSane, PeerSane, PeerBooks

\* A peer takes pieces.
LEMMA FillIs ==
    ASSUME PeersBefore, NEW p \in Peer, NEW r, PairSane(r, p, {}), NEW I \in SUBSET Piece,
           \A i \in I : MayTake(r.s, i), NEW f, f = fillPiece(r, I, p)
    PROVE  PairSane(f, p, {})
<1>1. r \in Pair /\ r.s \in Storage /\ r.w \in PeerRecord /\ PeerSane(r.s, p, r.w, {})
  BY PairFields DEF PairSane
<1> DEFINE t == checkOutPieces(r.s, I, p)
           K == r.w.targets \cup I
<1>2. HandedOut(r.s, t, I, p)
  <2>1. p \in Cuid
    BY DEF Cuid
  <2> QED BY <1>1, <2>1, CheckOutPiecesIs
<1>3. f = WithTargets(r, t, K)
  BY <1>1 DEF fillPiece, WithTargets, Pair
<1>4. t = checkOutPieces(r.s, I, p) /\ K = r.w.targets \cup I /\ K \in SUBSET Piece
  BY <1>1, PeerFields
<1> HIDE DEF t, K
<1>5. t \in Storage
  BY <1>2 DEF HandedOut
<1>6. /\ f \in Pair /\ f.s = t /\ f.w = [r.w EXCEPT !.targets = K]
      /\ f.w.slots = r.w.slots /\ f.w.targets = K /\ f.w.net = r.w.net
  <2>1. r \in Pair /\ t \in Storage /\ K \in SUBSET Piece /\ f = WithTargets(r, t, K)
    BY <1>1, <1>3, <1>4, <1>5
  <2> QED BY <2>1, PairTargets
<1>7. InTargets(f.w) /\ f.w \in PeerRecord
  BY <1>1, <1>4, <1>6, PairFields DEF PeerSane, InTargets
<1>8. ASSUME NEW i \in Piece PROVE Booked(t, i, Holding(p, f.w, i), Asking(p, f.w, i), {})
  <2> DEFINE h == Holding(p, r.w, i)
             a == Asking(p, r.w, i)
  <2>1. Booked(r.s, i, h, a, {})
    BY <1>1 DEF PeerSane, PeerBooks
  <2>2. Asking(p, f.w, i) = a
    BY <1>6 DEF Asking
  <2>3. /\ i \notin I => Booked(t, i, h, a, {})
        /\ i \in I /\ MayTake(r.s, i) => Booked(t, i, h \cup {p}, a, {})
    <3> HIDE DEF h, a
    <3> QED BY <1>1, <1>4, <2>1, BookedPeerTakes
  <2>4. CASE i \notin I
    <3>1. Holding(p, f.w, i) = h
      BY <1>4, <1>6, <2>4 DEF Holding
    <3> QED BY <2>2, <2>3, <2>4, <3>1
  <2>5. CASE i \in I
    <3>1. Holding(p, f.w, i) = h \cup {p}
      BY <1>4, <1>6, <2>5 DEF Holding
    <3> QED BY <2>2, <2>3, <2>5, <3>1
  <2> QED BY <2>4, <2>5
<1>9. PeerKnown(t)
  <2>1. /\ Calm(r.s, t) /\ Steady(r.s, t) /\ \A i \in DOMAIN r.s.pieces : Same(r.s, t, i)
    BY <1>1, <1>2, HandedOutCalm
  <2> DEFINE z == {}
  <2>2. PeerSane(r.s, p, r.w, z)
    BY <1>1
  <2> HIDE DEF z
  <2>3. \A c \in DOMAIN segs : Same(r.s, t, segs[c].index)
    BY <2>1, <2>2, PeerFacts DEF InFlight
  <2> QED BY <2>1, <2>2, <2>3, PeerCalm
<1> QED BY <1>5, <1>6, <1>7, <1>8, <1>9 DEF PairSane, PeerSane, PeerBooks

\* In end game, or for a piece that is not in flight, requests are not in the books.
LEMMA BookedAsk ==
    ASSUME NEW s, NEW i, NEW h, NEW a, NEW J, Booked(s, i, h, a, J),
           s.endGame \/ i \notin DOMAIN s.pieces, NEW b, h \cap Peer = {} => b = {}
    PROVE  Booked(s, i, h, b, J)
BY DEF Booked

\* A peer is asked for blocks.
LEMMA AskIs ==
    ASSUME PeersBefore, NEW p \in Peer, NEW r, PairSane(r, p, {}), NEW X \in SUBSET Askable(r),
           NEW f, f = ask(r, X)
    PROVE  PairSane(f, p, {})
<1>1. r \in Pair /\ r.s \in Storage /\ r.w \in PeerRecord /\ PeerSane(r.s, p, r.w, {})
  BY PairFields DEF PairSane
<1>2. \A x \in X : /\ x[1] \in r.w.targets /\ x[2] \in Block /\ x = <<x[1], x[2]>>
                   /\ ~hasBlock(r.s, x[1], x[2])
  BY DEF Askable
<1>3. X \in SUBSET Request
  <2>1. r.w.targets \in SUBSET Piece
    BY <1>1, PeerFields
  <2> QED BY <1>2, <2>1, RequestIs
<1> DEFINE t == IF r.s.endGame THEN r.s ELSE useBlocks(r.s, X)
           S == r.w.slots \cup X
           N == r.w.net \cup X
           k == [r.w EXCEPT !.slots = S, !.net = N]
<1>4. t \in Storage
  BY <1>1, UseBlocksIs
<1>5. f = [r EXCEPT !.s = t, !.w = k]
  BY <1>1 DEF ask, Pair
<1>6. S \in SUBSET Request /\ N \in SUBSET Request
  BY <1>1, <1>3, PeerFields
<1>a. S = r.w.slots \cup X
  OBVIOUS
<1> HIDE DEF S, N
<1>7. k \in PeerRecord /\ k.slots = S /\ k.targets = r.w.targets
  BY <1>1, <1>6 DEF PeerRecord
<1>b. /\ r.s.endGame => t = r.s
      /\ ~r.s.endGame => t = useBlocks(r.s, X)
  OBVIOUS
<1> HIDE DEF k, t
<1>8. f \in Pair /\ f.s = t /\ f.w = k
  BY <1>1, <1>4, <1>5, <1>7 DEF Pair
<1>9. InTargets(k)
  BY <1>1, <1>2, <1>7, <1>a DEF PeerSane, InTargets
<1>10. ASSUME NEW i \in Piece PROVE Booked(t, i, Holding(p, k, i), Asking(p, k, i), {})
  <2> DEFINE h == Holding(p, r.w, i)
             a == Asking(p, r.w, i)
             Y == BlocksOf(X, i)
             b == Asking(p, k, i)
  <2>1. Booked(r.s, i, h, a, {})
    BY <1>1 DEF PeerSane, PeerBooks
  <2>2. Holding(p, k, i) = h
    BY <1>7 DEF Holding
  <2>3. \A d : d \in Y <=> d \in Block /\ <<i, d>> \in X
    BY DEF BlocksOf
  <2>4. b = a \cup Y
    <3>1. \A d : d \in b <=> d \in OtherAsked(p, i) \/ (d \in Block /\ <<i, d>> \in S)
      BY <1>7, HoldingIs
    <3>2. \A d : d \in a <=> d \in OtherAsked(p, i) \/ (d \in Block /\ <<i, d>> \in r.w.slots)
      BY HoldingIs
    <3> HIDE DEF a, b, Y
    <3> QED BY <1>a, <2>3, <3>1, <3>2
  <2>5. h \cap Peer = {} => Y = {}
    <3>1. ASSUME NEW d \in Y PROVE p \in h
      <4>1. i \in r.w.targets
        <5>1. <<i, d>> \in X /\ <<i, d>>[1] = i
          BY <2>3, RequestIs
        <5> QED BY <1>2, <5>1
      <4> QED BY <4>1, HoldingIs
    <3> QED BY <3>1
  <2>6. i \in DOMAIN r.s.pieces => Y \cap r.s.pieces[i].blocks = {}
    <3>1. ASSUME i \in DOMAIN r.s.pieces, NEW d \in Y PROVE d \notin r.s.pieces[i].blocks
      <4>1. <<i, d>> \in X /\ <<i, d>>[1] = i /\ <<i, d>>[2] = d
        BY <2>3, RequestIs
      <4>2. ~hasBlock(r.s, i, d)
        BY <1>2, <4>1
      <4> QED BY <3>1, <4>2 DEF hasBlock
    <3> QED BY <3>1
  <2>7. h \cap Peer = {} => b = {}
    BY <2>1, <2>4, <2>5 DEF Booked
  <2>8. Y = BlocksOf(X, i)
    OBVIOUS
  <2> HIDE DEF h, a, b, Y
  <2>9. CASE r.s.endGame
    <3>1. Booked(r.s, i, h, b, {})
      BY <2>1, <2>7, <2>9, BookedAsk
    <3> QED BY <1>b, <2>2, <2>9, <3>1 DEF b
  <2>10. CASE ~r.s.endGame
    <3>1. Booked(t, i, h, a \cup Y, {})
      BY <1>1, <1>b, <2>1, <2>5, <2>6, <2>8, <2>10, BookedUseBlocks
    <3>2. Booked(t, i, h, b, {})
      BY <2>4, <3>1
    <3> QED BY <2>2, <3>2 DEF b
  <2> QED BY <2>9, <2>10
<1>11. PeerKnown(t)
  <2> DEFINE z == {}
  <2>1. PeerSane(r.s, p, r.w, z)
    BY <1>1
  <2> HIDE DEF z
  <2>2. CASE r.s.endGame
    BY <1>b, <2>1, <2>2 DEF PeerSane
  <2>3. CASE ~r.s.endGame
    <3>1. AllCarried(r.s, t) /\ DOMAIN t.pieces = DOMAIN r.s.pieces
      BY <1>1, <1>b, <2>3, UseBlocksCarried
    <3>2. \A c \in DOMAIN segs : segs[c].index \in DOMAIN t.pieces
      BY <2>1, <3>1, PeerFacts DEF InFlight
    <3> QED BY <2>1, <3>1, <3>2, PeerCarried
  <2> QED BY <2>2, <2>3
<1> QED BY <1>4, <1>7, <1>8, <1>9, <1>10, <1>11 DEF PairSane, PeerSane, PeerBooks

\* New requests are made.
LEMMA AddRequestsIs ==
    ASSUME PeersBefore, NEW p \in Peer, NEW r, PairSane(r, p, {}), NEW n \in addRequests(r, p)
    PROVE  PairSane(n, p, {})
<1>1. CASE downloadFinished(r.s)
  <2>1. n = r
    BY <1>1 DEF addRequests
  <2> QED BY <2>1
<1>2. CASE ~downloadFinished(r.s)
  <2> DEFINE z == ~hasMissingUnusedPiece(r.s)
             e == [r EXCEPT !.s.endGame = @ \/ z]
  <2>1. PICK I \in Fills(e, p) : \E X \in Asks(fillPiece(e, I, p)) : n = ask(fillPiece(e, I, p), X)
    BY <1>2 DEF addRequests
  <2>2. PICK X \in Asks(fillPiece(e, I, p)) : n = ask(fillPiece(e, I, p), X)
    BY <2>1
  <2>3. z \in BOOLEAN
    OBVIOUS
  <2> HIDE DEF z
  <2>4. PairSane(e, p, {})
    BY <2>3, EndGameIs
  <2> HIDE DEF e
  <2>5. I \in SUBSET Fillable(e, p)
    BY DEF Fills
  <2>6. I \in SUBSET Piece /\ \A i \in I : MayTake(e.s, i)
    <3>1. PeerHas[p] \in SUBSET Piece
      BY BtInteractiveAssumption
    <3>2. ASSUME NEW i \in Fillable(e, p) PROVE i \in Piece /\ MayTake(e.s, i)
      BY <3>1 DEF Fillable, MayTake
    <3> QED BY <2>5, <3>2
  <2> DEFINE f == fillPiece(e, I, p)
  <2>7. PairSane(f, p, {})
    BY <2>4, <2>6, FillIs
  <2>8. X \in Asks(f) /\ n = ask(f, X)
    BY <2>2
  <2> HIDE DEF f
  <2>9. X \in SUBSET Askable(f)
    BY <2>8 DEF Asks
  <2> QED BY <2>7, <2>8, <2>9, AskIs
<1> QED BY <1>1, <1>2

\* A block has come: the piece may be complete.
PieceAt(g, p, i) ==
    /\ PairSane(g, p, {i}) /\ i \in Piece /\ i \in DOMAIN g.s.pieces /\ i \in g.w.targets

\* The storage h after a block of piece i came, with the requests of the others.
BlockStored(r, h, i, b, q) ==
    /\ Put(r.s, h, i, OffsetsOf(b), q, {b}) /\ HashedOn(r.s, h, i, At(b), BlockLength, q)
    /\ h \in Storage /\ h.endGame = r.s.endGame /\ DOMAIN h.pieces = DOMAIN r.s.pieces
    /\ \A H, a : Booked(r.s, i, H, a, {}) => Booked(h, i, H, a \ {b}, {i})
    /\ \A j, H, a : j # i /\ Booked(r.s, j, H, a, {}) => Booked(h, j, H, a, {})

\* A block is stored.
LEMMA BlockStoredIs ==
    ASSUME NEW r \in Pair, NEW i \in DOMAIN r.s.pieces, NEW b \in Block,
           NEW q \in {"good", "bad"}, NEW ok \in Outcomes, Clean(r.s), P2P,
           NEW s \in writeData(r.s, i, OffsetsOf(b), q, ok),
           NEW h, h = updateHash(completeBlocks(s, i, {b}), i, b * BlockLength, BlockLength, q)
    PROVE  BlockStored(r, h, i, b, q)
<1>1. r.s \in Storage
  BY PairFields
<1> DEFINE O == OffsetsOf(b)
           B == {b}
           c == completeBlocks(s, i, B)
<1>2. O \in SUBSET Offset /\ s \in writeData(r.s, i, O, q, ok)
  BY BlockOffsets
<1> HIDE DEF O
<1>3. Wrote(r.s, s, i, O, q)
  BY <1>1, <1>2, WriteDataIs DEF Outcomes
<1>4. s \in Storage /\ SameBooks(r.s, s) /\ i \in DOMAIN s.pieces
  BY <1>3 DEF Wrote, SameBooks
<1>5. B \in SUBSET Block /\ h = updateHash(c, i, b * BlockLength, BlockLength, q)
  OBVIOUS
<1>6. c = completeBlocks(s, i, B)
  OBVIOUS
<1> HIDE DEF B, c
<1>7. BlocksDone(s, c, i, B)
  BY <1>4, <1>5, <1>6, CompleteBlocksIs
<1>8. c \in Storage /\ DOMAIN c.pieces = DOMAIN s.pieces /\ c.endGame = s.endGame
  BY <1>7 DEF BlocksDone
<1> DEFINE n == b * BlockLength
<1>9. n \in Nat /\ BlockLength \in Nat
  BY BlockPositions, Numbers DEF At
<1>a. n = At(b)
  BY DEF At
<1>10. h = updateHash(c, i, n, BlockLength, q) /\ i \in DOMAIN c.pieces
  BY <1>4, <1>5, <1>8
<1> HIDE DEF n
<1>11. HashGoes(c, h, i, n, BlockLength, q)
  BY <1>8, <1>9, <1>10, UpdateHashIs
<1>12. h \in Storage /\ SameBooks(c, h)
  BY <1>11 DEF HashGoes
<1>13. ASSUME NEW H, NEW a, Booked(r.s, i, H, a, {}) PROVE Booked(h, i, H, a \ B, {i})
  <2> DEFINE e == {}
             J == {i}
  <2>1. Booked(r.s, i, H, a, e)
    BY <1>13
  <2> HIDE DEF e
  <2>2. Booked(s, i, H, a, e)
    BY <1>4, <2>1, BookedData
  <2>3. Booked(c, i, H, a \ B, {i})
    BY <1>4, <1>5, <1>6, <2>2, BookedComplete
  <2>4. Booked(c, i, H, a \ B, J)
    BY <2>3
  <2> HIDE DEF J
  <2>5. Booked(h, i, H, a \ B, J)
    BY <1>12, <2>4, BookedData
  <2> QED BY <2>5 DEF J
<1>14. ASSUME NEW j, j # i, NEW H, NEW a, Booked(r.s, j, H, a, {}) PROVE Booked(h, j, H, a, {})
  <2> DEFINE e == {}
  <2>1. Booked(r.s, j, H, a, e)
    BY <1>14
  <2> HIDE DEF e
  <2>2. Booked(s, j, H, a, e)
    BY <1>4, <2>1, BookedData
  <2>3. Booked(c, j, H, a, e)
    BY <1>4, <1>5, <1>6, <1>14, <2>2, BookedComplete
  <2>4. Booked(h, j, H, a, e)
    BY <1>12, <2>3, BookedData
  <2> QED BY <2>4 DEF e
<1>15. h.endGame = r.s.endGame /\ DOMAIN h.pieces = DOMAIN r.s.pieces
  BY <1>4, <1>8, <1>12 DEF SameBooks
<1>16. Put(r.s, h, i, O, q, B) /\ HashedOn(r.s, h, i, n, BlockLength, q)
  <2>1. MoreBlocks(s, h, i, B) /\ HashedOn(s, h, i, n, BlockLength, q)
    BY <1>4, <1>7, <1>11, BlocksThenHash
  <2>2. Honest => q = "good"
    BY DEF Honest
  <2> DEFINE m == BlockLength
  <2>3. HashedOn(s, h, i, n, m, q)
    BY <2>1
  <2> HIDE DEF m
  <2>4. Put(r.s, h, i, O, q, B) /\ HashedOn(r.s, h, i, n, m, q)
    BY <1>1, <1>2, <2>1, <2>2, <2>3, PutIs
  <2> QED BY <2>4 DEF m
<1> QED BY <1>12, <1>13, <1>14, <1>15, <1>16, <1>a DEF BlockStored, B, O

\* The pair after request x has been answered, the storage before being h.
Answered(r, h, x) ==
    removeOutstandingRequest([[r EXCEPT !.w.net = @ \ {x}] EXCEPT !.s = h], x)

\* The fields of the pair after an answer.
LEMMA AnsweredFields ==
    ASSUME NEW r \in Pair, NEW h \in Storage, NEW x, NEW g, g = Answered(r, h, x)
    PROVE  /\ g \in Pair /\ g.s = cancelBlocks(h, {x}) /\ g.w.targets = r.w.targets
           /\ g.w.slots = r.w.slots \ {x}
<1> DEFINE N == r.w.net \ {x}
           S == r.w.slots \ {x}
           X == {x}
           t == cancelBlocks(h, X)
           k == [r.w EXCEPT !.net = N, !.slots = S]
<1>1. t \in Storage
  <2> HIDE DEF X
  <2> QED BY CancelBlocksIs
<1>2. N \in SUBSET Request /\ S \in SUBSET Request /\ r.w \in PeerRecord
  BY PairFields, PeerFields
<1>3. g = [r EXCEPT !.s = t, !.w = k]
  BY DEF Answered, removeOutstandingRequest, Pair
<1> HIDE DEF N, S, t
<1>4. k \in PeerRecord /\ k.targets = r.w.targets /\ k.slots = S
  BY <1>2 DEF PeerRecord
<1> HIDE DEF k
<1>5. g \in Pair /\ g.s = t /\ g.w = k
  BY <1>1, <1>3, <1>4 DEF Pair
<1> QED BY <1>4, <1>5 DEF t, S

\* Without an exception for complete pieces, the books are in order with one, too.
LEMMA BookedMore ==
    ASSUME NEW s, NEW i, NEW h, NEW a, NEW J, Booked(s, i, h, a, {})
    PROVE  Booked(s, i, h, a, J)
BY DEF Booked

\* A block the peer was asked for has come.
LEMMA BlockCame ==
    ASSUME PeersBefore, NEW p \in Peer, NEW r, PairSane(r, p, {}), NEW x \in r.w.slots,
           NEW i, i = x[1], NEW b, b = x[2], i \notin r.s.have,
           b \notin r.s.pieces[i].blocks, NEW q \in {"good", "bad"},
           NEW h, BlockStored(r, h, i, b, q), NEW g, g = Answered(r, h, x)
    PROVE  PieceAt(g, p, i)
<1>1. r \in Pair /\ r.s \in Storage /\ r.w \in PeerRecord /\ PeerSane(r.s, p, r.w, {})
      /\ InTargets(r.w)
  BY PairFields DEF PairSane, PeerSane
<1>2. x \in Request /\ i \in Piece /\ b \in Block /\ x = <<i, b>> /\ i \in r.w.targets
  BY <1>1, PeerFields, RequestIs DEF InTargets
<1>3. h \in Storage /\ h.endGame = r.s.endGame /\ DOMAIN h.pieces = DOMAIN r.s.pieces
  BY DEF BlockStored
<1>4. /\ g \in Pair /\ g.s = cancelBlocks(h, {x}) /\ g.w.targets = r.w.targets
      /\ g.w.slots = r.w.slots \ {x}
  <2>1. r \in Pair /\ h \in Storage /\ g = Answered(r, h, x)
    BY <1>1, <1>3
  <2>2. PICK k, u, y : k = r /\ u = h /\ y = x
    OBVIOUS
  <2>3. k \in Pair /\ u \in Storage /\ g = Answered(k, u, y)
    BY <2>1, <2>2
  <2>4. /\ g \in Pair /\ g.s = cancelBlocks(u, {y}) /\ g.w.targets = k.w.targets
        /\ g.w.slots = k.w.slots \ {y}
    BY SMTT(60), <2>3, AnsweredFields
  <2> QED BY <2>2, <2>4
<1>5. i \in DOMAIN r.s.pieces
  BY <1>1, <1>2, AloneOutsideEndGame
<1> DEFINE X == {x}
           t == cancelBlocks(h, X)
<1>6. t \in Storage /\ DOMAIN t.pieces = DOMAIN h.pieces
  <2> HIDE DEF X
  <2> QED BY <1>3, CancelBlocksIs
<1>7. InTargets(g.w) /\ g.w \in PeerRecord
  BY <1>1, <1>4, PairFields DEF InTargets
<1>8. g.s = t
  BY <1>4
<1>a. \A y : y \in X <=> y = x
  OBVIOUS
<1>b. t = cancelBlocks(h, X)
  OBVIOUS
<1> HIDE DEF X, t
<1>9. ASSUME NEW j \in Piece PROVE Booked(t, j, Holding(p, g.w, j), Asking(p, g.w, j), {i})
  <2> DEFINE H == Holding(p, r.w, j)
             a == Asking(p, r.w, j)
             c == Asking(p, g.w, j)
             Y == BlocksOf(X, j)
             J == {i}
  <2>1. Booked(r.s, j, H, a, {})
    BY <1>1 DEF PeerSane, PeerBooks
  <2>2. Holding(p, g.w, j) = H
    BY <1>4 DEF Holding
  <2>3. \A d : d \in a <=> d \in OtherAsked(p, j) \/ (d \in Block /\ <<j, d>> \in r.w.slots)
    BY HoldingIs
  <2>4. \A d : d \in c <=> d \in OtherAsked(p, j) \/ (d \in Block /\ <<j, d>> \in g.w.slots)
    BY HoldingIs
  <2>5. \A d : d \in Y <=> d \in Block /\ <<j, d>> = x
    BY <1>a DEF BlocksOf
  <2>6. \A d : d \in c => d \in a
    <3> HIDE DEF a, c, Y
    <3> QED BY <1>4, <2>3, <2>4
  <2>7. H \cap Peer = {} => c = {}
    <3> HIDE DEF a, c, Y, H
    <3> QED BY <2>1, <2>6 DEF Booked
  <2>8. CASE j = i
    <3> DEFINE a2 == a \ {b}
    <3>1. Booked(h, i, H, a2, J)
      BY <2>1, <2>8 DEF BlockStored
    <3>2. ASSUME ~h.endGame PROVE c = a2 \ Y
      <4>1. OtherAsked(p, j) = {}
        BY <1>1, <1>2, <1>3, <2>8, <3>2, AloneOutsideEndGame
      <4>2. \A d : <<j, d>> = x <=> d = b
        BY <1>2, <2>8
      <4>3. \A d : d \in c <=> d \in Block /\ <<j, d>> \in r.w.slots /\ d # b
        <5> HIDE DEF a, c, Y
        <5> QED BY <1>4, <2>4, <4>1, <4>2
      <4>4. \A d : d \in a <=> d \in Block /\ <<j, d>> \in r.w.slots
        <5> HIDE DEF a, c, Y
        <5> QED BY <2>3, <4>1
      <4>5. \A d : d \in Y <=> d \in Block /\ d = b
        <5> HIDE DEF a, c, Y
        <5> QED BY <2>5, <4>2
      <4> HIDE DEF a, c, Y
      <4> QED BY <4>3, <4>4, <4>5
    <3>a. Y = BlocksOf(X, i)
      BY <2>8
    <3> HIDE DEF a, c, Y, H, J, a2
    <3>3. Booked(t, i, H, c, J)
      BY <1>3, <1>b, <2>7, <3>1, <3>2, <3>a, BookedCancelBlocks
    <3> QED BY <2>2, <2>8, <3>3 DEF c, J
  <2>9. CASE j # i
    <3>1. Booked(h, j, H, a, {})
      BY <2>1, <2>9 DEF BlockStored
    <3>2. \A d : <<j, d>> # x
      BY <1>2, <2>9
    <3>3. Y = {}
      <4> HIDE DEF Y
      <4> QED BY <2>5, <3>2
    <3>4. c = a
      <4> HIDE DEF a, c, Y
      <4> QED BY <1>4, <2>3, <2>4, <3>2
    <3>5. c = a \ Y
      BY <3>3, <3>4
    <3> DEFINE e == {}
    <3>6. Booked(h, j, H, a, e) /\ Y = BlocksOf(X, j)
      BY <3>1
    <3> HIDE DEF a, c, Y, H, J, e
    <3>7. Booked(t, j, H, c, e)
      BY <1>3, <1>b, <2>7, <3>5, <3>6, BookedCancelBlocks
    <3>8. Booked(t, j, H, c, J)
      BY <3>7, BookedMore DEF e
    <3> QED BY <2>2, <3>8 DEF c, J
  <2> QED BY <2>8, <2>9
<1>10. PeerKnown(t)
  <2> DEFINE z == {}
  <2>1. PeerSane(r.s, p, r.w, z)
    BY <1>1
  <2> HIDE DEF z
  <2>2. /\ r.s \in Storage /\ segs \in SegMap /\ memo \in MemoMap
        /\ Sound(r.s) /\ Tracked(r.s, segs, memo) /\ Apart(r.s) /\ InFlight(r.s, segs)
    BY <2>1, PeerFacts
  <2>3. ~HeldIn(segs, i)
    BY <1>2, <2>1, NotHeld
  <2>4. \A d \in DOMAIN segs : segs[d].index \in DOMAIN r.s.pieces
    BY <2>2 DEF InFlight
  <2>5. Put(r.s, h, i, OffsetsOf(b), q, {b}) /\ HashedOn(r.s, h, i, At(b), BlockLength, q)
    BY DEF BlockStored
  <2>6. Peer # {}
    OBVIOUS
  <2>7. Tracked(h, segs, memo) /\ (Trusted(h) => PieceThere(h, i))
    BY <1>2, <1>5, <2>2, <2>3, <2>4, <2>5, <2>6, PutPeerTracked
  <2>8. Sound(h)
    <3>1. PICK B : B = {b}
      OBVIOUS
    <3>2. PICK O : O = OffsetsOf(b)
      OBVIOUS
    <3>3. Put(r.s, h, i, O, q, B)
      BY <2>5, <3>1, <3>2
    <3>4. Peer = {} => DownTo(h.pieces[i].blocks)
      BY <2>6
    <3> QED BY <1>5, <2>2, <2>7, <3>3, <3>4, PutSound
  <2>9. AllCarried(h, t) /\ DOMAIN t.pieces = DOMAIN h.pieces
    BY <1>3, <1>b, CancelBlocksCarried
  <2>10. Calm(h, t) /\ Steady(h, t) /\ \A j \in DOMAIN t.pieces : Same(h, t, j)
    BY <1>3, <2>9, CarriedCalm
  <2>11. Apart(h)
    BY <1>3, <2>2, <2>5 DEF Apart, Put
  <2>12. \A c \in DOMAIN segs : Same(h, t, segs[c].index)
    BY <1>3, <1>6, <2>4, <2>10
  <2>13. Sound(t)
    BY <1>3, <2>8, <2>10, <2>11, CalmSound
  <2>14. Tracked(t, segs, memo)
    BY <1>3, <2>2, <2>7, <2>10, <2>12, CalmTracked
  <2> QED BY <2>13, <2>14 DEF PeerKnown
<1> QED BY <1>2, <1>3, <1>4, <1>5, <1>6, <1>7, <1>8, <1>9, <1>10 DEF PieceAt, PairSane, PeerSane, PeerBooks

\* The storage and the record of an outcome.
PairOf(c) == [s |-> c.s, w |-> c.w]

\* An outcome of a message: the books are in order, or the download fails.
GoodOutcome(c, p) ==
    /\ c.ex \in {"none", "abort", "failure"}
    /\ c.ex # "failure" => PairSane(PairOf(c), p, {})
    /\ c.ex = "failure" => PairWeak(PairOf(c))

\* Piece i is the only one that may be complete.
LEMMA BookedRest ==
    ASSUME NEW s, NEW i, NEW j, NEW h, NEW a, Booked(s, j, h, a, {i}), j # i
    PROVE  Booked(s, j, h, a, {})
BY DEF Booked

\* What is known of a piece of a peer that may be complete.
LEMMA PieceAtIs ==
    ASSUME PeersBefore, NEW p \in Peer, NEW g, NEW i, PieceAt(g, p, i)
    PROVE  /\ g \in Pair /\ g.s \in Storage /\ g.w \in PeerRecord /\ i \in Piece
           /\ InTargets(g.w) /\ i \in DOMAIN g.s.pieces /\ i \notin g.s.have /\ i \in g.w.targets
           /\ \A j \in Piece : Booked(g.s, j, Holding(p, g.w, j), Asking(p, g.w, j), {i})
           /\ Holding(p, g.w, i) \cap Stream = {} /\ p \in Holding(p, g.w, i)
           /\ g.s.endGame \/ Single(Holding(p, g.w, i))
<1>1. /\ g \in Pair /\ g.s \in Storage /\ g.w \in PeerRecord /\ i \in Piece
      /\ InTargets(g.w) /\ i \in DOMAIN g.s.pieces /\ i \in g.w.targets
      /\ PeerSane(g.s, p, g.w, {i})
      /\ \A j \in Piece : Booked(g.s, j, Holding(p, g.w, j), Asking(p, g.w, j), {i})
  BY PairFields DEF PieceAt, PairSane, PeerSane, PeerBooks
<1>2. Booked(g.s, i, Holding(p, g.w, i), Asking(p, g.w, i), {i})
  BY <1>1
<1>3. i \notin g.s.have /\ (g.s.endGame \/ Single(Holding(p, g.w, i)))
  BY <1>1, <1>2 DEF Booked
<1>4. Holding(p, g.w, i) = OtherHeld(p, i) \cup {p}
  BY <1>1, HoldingIs
<1>5. OtherHeld(p, i) \cap Stream = {}
  <2> DEFINE J == {i}
  <2>1. PeerSane(g.s, p, g.w, J)
    BY <1>1
  <2> HIDE DEF J
  <2> QED BY <1>1, <2>1, AloneOutsideEndGame
<1>6. p \notin Stream
  BY TransferAssumption
<1> QED BY <1>1, <1>3, <1>4, <1>5, <1>6

\* A pair made of an outcome.
LEMMA PairOfIs ==
    ASSUME NEW s \in Storage, NEW w \in PeerRecord, NEW e, NEW c, c = [s |-> s, w |-> w, ex |-> e]
    PROVE  /\ c.ex = e /\ PairOf(c) \in Pair /\ PairOf(c).s = s /\ PairOf(c).w = w
           /\ c.s = s /\ c.w = w
BY DEF PairOf, Pair

\* A piece with the right hash is right.
LEMMA PieceRight ==
    ASSUME PeersBefore, NEW p \in Peer, NEW g, NEW i, PieceAt(g, p, i), PieceHashOk(g.s, i)
    PROVE  Right(g.s, i)
<1> DEFINE J == {i}
<1>1. PeerSane(g.s, p, g.w, J) /\ i \in Piece /\ i \in DOMAIN g.s.pieces /\ i \in g.w.targets
  BY DEF PieceAt, PairSane
<1> HIDE DEF J
<1>2. g.s \in Storage /\ Tracked(g.s, segs, memo)
  BY <1>1, PeerFacts
<1>3. ~HeldIn(segs, i)
  BY <1>1, NotHeld
<1>4. CASE ~g.s.endGame /\ isHashCalculated(g.s, i)
  <2>1. g.s.pieces[i].hashOk
    BY <1>4 DEF PieceHashOk
  <2>2. Digested(g.s, i, memo)
    BY <1>1, <1>2, <1>3, <1>4 DEF Tracked, Digests
  <2>3. Prefix(g.s, i) \/ Stuck(g.s, i)
    BY <2>2 DEF Digested
  <2> QED BY <1>1, <1>2, <1>4, <2>1, <2>3, DigestRight
<1>5. CASE ~(~g.s.endGame /\ isHashCalculated(g.s, i))
  <2>1. DigestWithCacheOk(g.s, i)
    BY <1>5 DEF PieceHashOk
  <2> QED BY <2>1, ReadRight
<1> QED BY <1>4, <1>5

\* A piece with the right hash is done, or the download fails.
LEMMA OnNewPieceIs ==
    ASSUME PeersBefore, NEW p \in Peer, NEW g, NEW i, PieceAt(g, p, i), NEW ok \in Outcomes,
           Right(g.s, i),
           NEW c, c = onNewPiece(g, i, ok)
    PROVE  GoodOutcome(c, p)
<1>1. /\ g \in Pair /\ g.s \in Storage /\ g.w \in PeerRecord /\ i \in Piece
      /\ InTargets(g.w) /\ i \in DOMAIN g.s.pieces /\ i \notin g.s.have /\ i \in g.w.targets
      /\ \A j \in Piece : Booked(g.s, j, Holding(p, g.w, j), Asking(p, g.w, j), {i})
      /\ Holding(p, g.w, i) \cap Stream = {} /\ p \in Holding(p, g.w, i)
      /\ g.s.endGame \/ Single(Holding(p, g.w, i))
  BY PieceAtIs
<1> DEFINE s == flushWrCache(g.s, i, ok)
           I == {i}
<1>2. FlushOf(g.s, s, I) /\ s \in Storage /\ SameBooks(g.s, s) /\ i \in DOMAIN s.pieces
  BY <1>1, FlushOneIs
<1>3. /\ s.pieces[i].entry /\ s.pieces[i].error =>
           c = [s |-> clearAllBlock(s, i), w |-> g.w, ex |-> "failure"]
      /\ ~(s.pieces[i].entry /\ s.pieces[i].error) =>
           c = [s |-> completePiece(s, i), w |-> g.w, ex |-> "none"]
  BY DEF onNewPiece
<1>a. s = flushWrCache(g.s, i, ok)
  OBVIOUS
<1> HIDE DEF s
<1>b. /\ segs \in SegMap /\ memo \in MemoMap /\ Sound(g.s) /\ Tracked(g.s, segs, memo)
      /\ Apart(g.s) /\ InFlight(g.s, segs) /\ ~HeldIn(segs, i)
  <2>1. PeerSane(g.s, p, g.w, I)
    BY DEF PieceAt, PairSane
  <2> HIDE DEF I
  <2> QED BY <1>1, <2>1, PeerFacts, NotHeld
<1>c. /\ Sound(s) /\ StillTracked(g.s, s)
      /\ ~(s.pieces[i].entry /\ s.pieces[i].error) =>
            (Sure(s) => \A o \in Offset : s.disk[i][o] = "good")
  BY <1>1, <1>a, <1>b, CompletedKnown
<1>d. Tracked(s, segs, memo)
  BY <1>b, <1>c DEF StillTracked
<1>4. CASE s.pieces[i].entry /\ s.pieces[i].error
  <2> DEFINE t == clearAllBlock(s, i)
  <2>1. FailOf(g.s, t, i)
    BY <1>1, <1>2, <1>4, FailOfFlush
  <2>2. \A j \in DOMAIN g.s.pieces : j # i => j \notin g.s.have /\ g.s.pieces[j].blocks # Block
    <3> TAKE j \in DOMAIN g.s.pieces
    <3> HAVE j # i
    <3>1. j \in Piece
      BY <1>1, StorageFields
    <3>2. Booked(g.s, j, Holding(p, g.w, j), Asking(p, g.w, j), {i})
      BY <1>1, <3>1
    <3> QED BY <3>2 DEF Booked
  <2>3. t \in Storage /\ Weak(t)
    <3> HIDE DEF t
    <3> QED BY <1>1, <2>1, <2>2, FailWeak
  <2>a. Sound(t)
    <3>1. Emptied(s, t, i)
      BY <1>2, ClearAllBlockIs
    <3>2. Calm(s, t)
      BY <1>2, <3>1, EmptiedCalm
    <3>3. Apart(s)
      BY <1>2, <1>b DEF Apart, SameBooks
    <3> QED BY <1>2, <1>c, <3>2, <3>3, CalmSound
  <2>4. c = [s |-> t, w |-> g.w, ex |-> "failure"]
    BY <1>3, <1>4
  <2> HIDE DEF t
  <2>5. c.ex = "failure" /\ PairOf(c) \in Pair /\ PairOf(c).s = t
    BY <1>1, <2>3, <2>4, PairOfIs
  <2> QED BY <2>3, <2>5, <2>a DEF GoodOutcome, PairWeak
<1>5. CASE ~(s.pieces[i].entry /\ s.pieces[i].error)
  <2> DEFINE t == completePiece(s, i)
  <2>1. c = [s |-> t, w |-> g.w, ex |-> "none"]
    BY <1>3, <1>5
  <2>2. i \in Piece \ s.have /\ s.endGame = g.s.endGame
    BY <1>1, <1>2 DEF SameBooks
  <2>3. t \in Storage
    BY <1>2, <2>2, CompletePieceIs
  <2>4. /\ \A k, a : Single(k) \/ s.endGame => (k \cap Stream = {} =>
              ((k \cap Peer = {} => a = {}) => Booked(t, i, k, a, {})))
        /\ \A j, h, a : j # i /\ Booked(s, j, h, a, I) => Booked(t, j, h, a, I)
    <3> HIDE DEF I
    <3> QED BY <1>2, <2>2, BookedDone
  <2>a. t = completePiece(s, i)
    OBVIOUS
  <2> HIDE DEF t
  <2>b. PeerKnown(t)
    <3>1. i \in DOMAIN s.pieces /\ i \notin s.have /\ s \in Storage
      BY <1>2, <2>2
    <3>2. Sound(t)
      BY <1>5, <1>c, <2>a, <3>1, DoneSound
    <3>3. \A c1 \in DOMAIN segs : segs[c1].index \in DOMAIN s.pieces
      BY <1>2, <1>b DEF InFlight, SameBooks
    <3>4. \A c1 \in DOMAIN segs : segs[c1].index # i
      BY <1>b DEF HeldIn
    <3>5. PICK k : k = segs
      OBVIOUS
    <3>6. /\ \A c1 \in DOMAIN k : c1 \in DOMAIN segs /\ k[c1] = segs[c1] /\ k[c1].index # i
          /\ \A c1 \in DOMAIN segs : segs[c1].index = i \/ c1 \in DOMAIN k
      BY <3>4, <3>5
    <3>7. Tracked(t, k, memo)
      BY <1>b, <1>d, <2>a, <3>1, <3>3, <3>6, DoneTracked
    <3> QED BY <3>2, <3>5, <3>7 DEF PeerKnown
  <2>5. ASSUME NEW j \in Piece PROVE Booked(t, j, Holding(p, g.w, j), Asking(p, g.w, j), {})
    <3> DEFINE h == Holding(p, g.w, j)
               a == Asking(p, g.w, j)
    <3>1. CASE j = i
      <4>1. (Single(h) \/ s.endGame) /\ h \cap Stream = {} /\ h \cap Peer # {}
        BY <1>1, <2>2, <3>1
      <4> HIDE DEF h, a
      <4>2. Booked(t, i, h, a, {})
        BY <2>4, <4>1
      <4> QED BY <3>1, <4>2 DEF h, a
    <3>2. CASE j # i
      <4>1. Booked(g.s, j, h, a, I)
        BY <1>1
      <4> HIDE DEF h, a, I
      <4>2. Booked(s, j, h, a, I)
        BY <1>2, <4>1, BookedData
      <4>3. Booked(t, j, h, a, I)
        BY <2>4, <3>2, <4>2
      <4>4. Booked(t, j, h, a, {})
        BY <3>2, <4>3, BookedRest DEF I
      <4> QED BY <4>4 DEF h, a
    <3> QED BY <3>1, <3>2
  <2>6. c.ex = "none" /\ PairOf(c) \in Pair /\ PairOf(c).s = t /\ PairOf(c).w = g.w
    BY <1>1, <2>1, <2>3, PairOfIs
  <2> QED BY <1>1, <2>3, <2>5, <2>6, <2>b DEF GoodOutcome, PairSane, PeerSane, PeerBooks
<1> QED BY <1>4, <1>5

\* A piece with a wrong hash is emptied and given back.
LEMMA OnWrongPieceIs ==
    ASSUME PeersBefore, NEW p \in Peer, NEW g, NEW i, PieceAt(g, p, i),
           g.s.pieces[i].blocks = Block, NEW c, c = onWrongPiece(g, i, p)
    PROVE  GoodOutcome(c, p)
<1>1. /\ g \in Pair /\ g.s \in Storage /\ g.w \in PeerRecord /\ i \in Piece
      /\ InTargets(g.w) /\ i \in DOMAIN g.s.pieces /\ i \in g.w.targets
      /\ \A j \in Piece : Booked(g.s, j, Holding(p, g.w, j), Asking(p, g.w, j), {i})
  BY PieceAtIs
<1> DEFINE e == clearAllBlock(g.s, i)
           h == destroyHashContext(e, i)
           d == [g EXCEPT !.s = h]
           I == {i}
           t == removeTargetPieces(d, I, p)
           k == [t.w EXCEPT !.banned = TRUE]
<1>2. Emptied(g.s, e, i)
  BY <1>1, ClearAllBlockIs
<1>3. e \in Storage /\ DOMAIN e.pieces = DOMAIN g.s.pieces
  BY <1>2 DEF Emptied
<1>4. HashGone(e, h, i)
  <2> HIDE DEF e
  <2> QED BY <1>1, <1>3, DestroyHashIs
<1>5. h \in Storage /\ SameBooks(e, h)
  BY <1>4 DEF HashGone
<1>6. c = [s |-> t.s, w |-> k, ex |-> "abort"]
  BY DEF onWrongPiece
<1>a. e = clearAllBlock(g.s, i)
  OBVIOUS
<1>7. ASSUME NEW j \in Piece PROVE Booked(e, j, Holding(p, g.w, j), Asking(p, g.w, j), {})
  <2> DEFINE H == Holding(p, g.w, j)
             a == Asking(p, g.w, j)
  <2>1. Booked(g.s, j, H, a, I)
    BY <1>1
  <2>2. CASE j = i
    <3>1. g.s.endGame \/ a = {}
      <4>1. g.s.endGame \/ Block \cap a = {}
        <5> HIDE DEF a, H
        <5> QED BY <1>1, <2>1, <2>2 DEF Booked
      <4>2. a \in SUBSET Block
        <5>1. OtherAsked(p, j) \in SUBSET Block
          BY Others
        <5> QED BY <5>1 DEF Asking, BlocksOf
      <4> HIDE DEF a
      <4> QED BY <4>1, <4>2
    <3> HIDE DEF H, a, I, e
    <3>2. Booked(e, i, H, a, {})
      BY <1>1, <1>a, <2>1, <2>2, <3>1, BookedClear
    <3> QED BY <2>2, <3>2 DEF H, a
  <2>3. CASE j # i
    <3> HIDE DEF H, a, I, e
    <3>1. Booked(e, j, H, a, I)
      BY SMTT(60), <1>1, <1>a, <2>1, <2>3, BookedClear
    <3>2. Booked(e, j, H, a, {})
      BY <2>3, <3>1, BookedRest DEF I
    <3> QED BY <3>2 DEF H, a
  <2> QED BY <2>2, <2>3
<1>b. d = [g EXCEPT !.s = h] /\ t = removeTargetPieces(d, I, p) /\ I = {i}
  OBVIOUS
<1> HIDE DEF e, h
<1>8. d \in Pair /\ d.s = h /\ d.w = g.w
  BY <1>1, <1>5 DEF Pair
<1> HIDE DEF d, t, I
<1>9. ASSUME NEW j \in Piece PROVE Booked(h, j, Holding(p, g.w, j), Asking(p, g.w, j), {})
  <2> DEFINE H == Holding(p, g.w, j)
             a == Asking(p, g.w, j)
             z == {}
  <2>1. Booked(e, j, H, a, z)
    BY <1>7
  <2> HIDE DEF H, a, z
  <2>2. Booked(h, j, H, a, z)
    BY <1>5, <2>1, BookedData
  <2> QED BY <2>2 DEF H, a, z
<1>c. PeerKnown(h)
  <2>1. PeerSane(g.s, p, g.w, I)
    BY <1>b DEF PieceAt, PairSane
  <2>2. InFlight(g.s, segs) /\ ~HeldIn(segs, i)
    BY <1>1, <2>1, PeerFacts, NotHeld
  <2>3. /\ Calm(g.s, h) /\ Steady(g.s, h)
        /\ \A j \in DOMAIN g.s.pieces : j # i => Same(g.s, h, j)
    BY <1>1, <1>2, <1>4, ClearedCalm
  <2>4. \A c1 \in DOMAIN segs : Same(g.s, h, segs[c1].index)
    BY <2>2, <2>3 DEF InFlight, HeldIn
  <2> QED BY <2>1, <2>3, <2>4, PeerCalm
<1>10. PairSane(d, p, {})
  BY <1>1, <1>5, <1>8, <1>9, <1>c DEF PairSane, PeerSane, PeerBooks
<1>11. I \in SUBSET d.w.targets
  BY <1>1, <1>8, <1>b
<1>12. t \in Pair /\ PairSane(t, p, {})
  <2> DEFINE z == {}
  <2>1. PairSane(d, p, z)
    BY <1>10
  <2> HIDE DEF z
  <2>2. t \in Pair /\ \A J : PeersBefore /\ PairSane(d, p, J) => PairSane(t, p, J)
    BY <1>8, <1>11, <1>b, RemoveTargetsIs
  <2>3. PairSane(t, p, z)
    BY <2>1, <2>2
  <2> QED BY <2>2, <2>3 DEF z
<1>13. t.s \in Storage /\ t.w \in PeerRecord /\ PeerSane(t.s, p, t.w, {})
  BY <1>12, PairFields DEF PairSane
<1>14. k \in PeerRecord /\ k.targets = t.w.targets /\ k.slots = t.w.slots
  BY <1>13 DEF PeerRecord
<1> HIDE DEF k
<1>15. PeerSane(t.s, p, k, {})
  BY <1>13, <1>14, SameToBooks
<1>16. c.ex = "abort" /\ PairOf(c) \in Pair /\ PairOf(c).s = t.s /\ PairOf(c).w = k
  BY <1>6, <1>13, <1>14, PairOfIs
<1> QED BY <1>15, <1>16 DEF GoodOutcome, PairSane

\* The blocks of the pieces are those of the storage before the answer.
LEMMA AnsweredBlocks ==
    ASSUME NEW r \in Pair, NEW h \in Storage, NEW x, NEW g, g = Answered(r, h, x),
           NEW i \in DOMAIN h.pieces
    PROVE  /\ pieceComplete(h, i) => g.s.pieces[i].blocks = Block
           /\ ~pieceComplete(h, i) => g.s.pieces[i].blocks # Block
<1> DEFINE X == {x}
<1>1. g.s = cancelBlocks(h, X)
  BY AnsweredFields
<1> HIDE DEF X
<1>2. g.s.pieces[i].blocks = h.pieces[i].blocks
  BY <1>1, CancelBlocksIs
<1>3. h.pieces[i].blocks \in SUBSET Block
  BY StorageFields, Fields
<1> QED BY <1>2, <1>3 DEF pieceComplete, hasBlock

\* A piece message.
LEMMA ReceivePieceIs ==
    ASSUME PeersBefore, NEW p \in Peer, NEW r, PairSane(r, p, {}), NEW x, NEW ok \in Outcomes,
           NEW c \in receivePiece(r, x, p, ok)
    PROVE  GoodOutcome(c, p)
<1>1. r \in Pair /\ r.s \in Storage /\ r.w \in PeerRecord /\ PeerSane(r.s, p, r.w, {})
      /\ InTargets(r.w)
  BY PairFields DEF PairSane, PeerSane
<1> DEFINE i == x[1]
           b == x[2]
           d == [r EXCEPT !.w.net = @ \ {x}]
           q == IF p \in BadPeer THEN "bad" ELSE "good"
           W == writeData(r.s, i, OffsetsOf(b), q, ok)
           h(s) == updateHash(completeBlocks(s, i, {b}), i, b * BlockLength, BlockLength, q)
           g(s) == Answered(r, h(s), x)
<1>2. CASE x \notin r.w.slots \/ hasBlock(r.s, i, b)
  <2>1. c = [s |-> d.s, w |-> d.w, ex |-> "none"]
    BY <1>2 DEF receivePiece
  <2>2. PairSane(d, p, {})
    BY FlagsIs
  <2> HIDE DEF d
  <2>3. d \in Pair /\ d.s \in Storage /\ d.w \in PeerRecord /\ PeerSane(d.s, p, d.w, {})
    BY <2>2, PairFields DEF PairSane
  <2>4. c.ex = "none" /\ PairOf(c) \in Pair /\ PairOf(c).s = d.s /\ PairOf(c).w = d.w
    BY <2>1, <2>3, PairOfIs
  <2> QED BY <2>3, <2>4 DEF GoodOutcome, PairSane
<1>3. CASE ~(x \notin r.w.slots \/ hasBlock(r.s, i, b))
  <2>1. PICK s \in W :
          c = IF ~pieceComplete(h(s), i)
              THEN [s |-> g(s).s, w |-> g(s).w, ex |-> "none"]
              ELSE IF PieceHashOk(g(s).s, i) THEN onNewPiece(g(s), i, ok)
              ELSE onWrongPiece(g(s), i, p)
    BY <1>3 DEF receivePiece, Answered
  <2>2. x \in r.w.slots /\ ~hasBlock(r.s, i, b)
    BY <1>3
  <2>3. i \in Piece /\ b \in Block /\ i \in r.w.targets
    BY <1>1, <2>2, PeerFields, RequestIs DEF InTargets
  <2>4. i \in DOMAIN r.s.pieces /\ i \notin r.s.have
    <3>1. i \notin r.s.have => i \in DOMAIN r.s.pieces
      BY <1>1, <2>3, AloneOutsideEndGame
    <3>2. i \in DOMAIN r.s.pieces
      BY <2>2, <3>1 DEF hasBlock
    <3>3. Booked(r.s, i, Holding(p, r.w, i), Asking(p, r.w, i), {})
      BY <1>1, <2>3 DEF PeerSane, PeerBooks
    <3> QED BY <3>2, <3>3 DEF Booked
  <2>5. q \in {"good", "bad"}
    OBVIOUS
  <2>6. i = x[1] /\ b = x[2]
    OBVIOUS
  <2> HIDE DEF i, b, q
  <2> DEFINE hh == h(s)
             gg == g(s)
  <2>a. Clean(r.s) /\ P2P /\ b \notin r.s.pieces[i].blocks
    BY <1>1, <2>2, <2>4, TransferAssumption DEF PeerSane, PeerKnown, Sound, hasBlock
  <2>7. BlockStored(r, hh, i, b, q)
    BY <1>1, <2>1, <2>3, <2>4, <2>5, <2>a, BlockStoredIs
  <2>8. gg = Answered(r, hh, x)
    OBVIOUS
  <2>9. c = IF ~pieceComplete(hh, i)
              THEN [s |-> gg.s, w |-> gg.w, ex |-> "none"]
              ELSE IF PieceHashOk(gg.s, i) THEN onNewPiece(gg, i, ok)
              ELSE onWrongPiece(gg, i, p)
    BY <2>1
  <2> HIDE DEF hh, gg
  <2>10. PieceAt(gg, p, i)
    BY <2>2, <2>4, <2>5, <2>6, <2>7, <2>8, <2>a, BlockCame
  <2>11. hh \in Storage /\ i \in DOMAIN hh.pieces
    BY <2>4, <2>7 DEF BlockStored
  <2>12. /\ pieceComplete(hh, i) => gg.s.pieces[i].blocks = Block
         /\ ~pieceComplete(hh, i) => gg.s.pieces[i].blocks # Block
    BY <1>1, <2>8, <2>11, AnsweredBlocks
  <2>13. CASE ~pieceComplete(hh, i)
    <3>1. c = [s |-> gg.s, w |-> gg.w, ex |-> "none"]
      BY <2>9, <2>13
    <3>2. /\ gg \in Pair /\ gg.s \in Storage /\ gg.w \in PeerRecord /\ InTargets(gg.w)
          /\ \A j \in Piece : Booked(gg.s, j, Holding(p, gg.w, j), Asking(p, gg.w, j), {i})
      BY <2>10, PieceAtIs
    <3>3. ASSUME NEW j \in Piece
          PROVE  Booked(gg.s, j, Holding(p, gg.w, j), Asking(p, gg.w, j), {})
      <4> DEFINE H == Holding(p, gg.w, j)
                 a == Asking(p, gg.w, j)
                 J == {i}
      <4>1. Booked(gg.s, j, H, a, J)
        BY <3>2
      <4> HIDE DEF H, a
      <4>2. CASE j = i
        <5>1. gg.s.pieces[j].blocks # Block
          BY <2>12, <2>13, <4>2
        <5> HIDE DEF J
        <5>2. Booked(gg.s, j, H, a, {})
          BY <4>1, <5>1, BookedIncomplete
        <5> QED BY <5>2 DEF H, a
      <4>3. CASE j # i
        <5>1. Booked(gg.s, j, H, a, {})
          BY <4>1, <4>3, BookedRest
        <5> QED BY <5>1 DEF H, a
      <4> QED BY <4>2, <4>3
    <3>4. c.ex = "none" /\ PairOf(c) \in Pair /\ PairOf(c).s = gg.s /\ PairOf(c).w = gg.w
      BY <3>1, <3>2, PairOfIs
    <3>5. PeerKnown(gg.s)
      BY <2>10 DEF PieceAt, PairSane, PeerSane
    <3> QED BY <3>2, <3>3, <3>4, <3>5 DEF GoodOutcome, PairSane, PeerSane, PeerBooks
  <2>14. CASE pieceComplete(hh, i) /\ PieceHashOk(gg.s, i)
    <3>1. c = onNewPiece(gg, i, ok)
      BY <2>9, <2>14
    <3>2. Right(gg.s, i)
      BY <2>10, <2>14, PieceRight
    <3> QED BY <2>10, <3>1, <3>2, OnNewPieceIs
  <2>15. CASE pieceComplete(hh, i) /\ ~PieceHashOk(gg.s, i)
    <3>1. c = onWrongPiece(gg, i, p)
      BY <2>9, <2>15
    <3> QED BY <2>10, <2>12, <2>15, <3>1, OnWrongPieceIs
  <2> QED BY <2>13, <2>14, <2>15
<1> QED BY <1>2, <1>3

\* An outcome without exception.
LEMMA PlainIs ==
    ASSUME NEW p, NEW y, PairSane(y, p, {}), NEW c, c = [s |-> y.s, w |-> y.w, ex |-> "none"]
    PROVE  GoodOutcome(c, p)
<1>1. y \in Pair /\ y.s \in Storage /\ y.w \in PeerRecord /\ PeerSane(y.s, p, y.w, {})
  BY PairFields DEF PairSane
<1>2. c.ex = "none" /\ PairOf(c) \in Pair /\ PairOf(c).s = y.s /\ PairOf(c).w = y.w
  BY <1>1, PairOfIs
<1> QED BY <1>1, <1>2 DEF GoodOutcome, PairSane

\* A message is received.
LEMMA ReceiveMessageIs ==
    ASSUME PeersBefore, NEW p \in Peer, NEW r, PairSane(r, p, {}), NEW msg,
           msg.type \in {"none", "choke", "unchoke", "reject", "piece"}, NEW ok \in Outcomes,
           NEW c \in receiveMessage(r, msg, p, ok)
    PROVE  GoodOutcome(c, p)
<1> DEFINE P(y) == [s |-> y.s, w |-> y.w, ex |-> "none"]
<1>1. CASE msg.type = "none"
  <2>1. c = P(r)
    BY <1>1 DEF receiveMessage
  <2> QED BY <2>1, PlainIs
<1>2. CASE msg.type = "choke"
  <2> DEFINE y == doChokedAction(r, p)
             e == {}
  <2>1. c = P(y)
    BY <1>2 DEF receiveMessage
  <2>2. PairSane(r, p, e)
    OBVIOUS
  <2> HIDE DEF e
  <2>3. PairSane(y, p, e)
    BY <2>2, ChokedIs
  <2> HIDE DEF y
  <2> QED BY <2>1, <2>3, PlainIs DEF e
<1>3. CASE msg.type = "unchoke"
  <2> DEFINE y == doUnchokedAction(r)
  <2>1. c = P(y)
    BY <1>3 DEF receiveMessage
  <2>2. PairSane(y, p, {})
    BY FlagsIs
  <2> HIDE DEF y
  <2> QED BY <2>1, <2>2, PlainIs
<1>4. CASE msg.type = "reject"
  <2> DEFINE d == [r EXCEPT !.w.net = @ \ {msg.x}]
             y == IF msg.x \in r.w.slots THEN removeOutstandingRequest(d, msg.x) ELSE d
             e == {}
  <2>1. c = P(y)
    BY <1>4 DEF receiveMessage
  <2>2. PairSane(d, p, {})
    BY FlagsIs
  <2>3. PairSane(d, p, e)
    BY <2>2
  <2>4. d.w.slots = r.w.slots
    BY DEF PairSane, Pair, PeerRecord
  <2>5. /\ msg.x \in d.w.slots => y = removeOutstandingRequest(d, msg.x)
        /\ msg.x \notin d.w.slots => y = d
    BY <2>4
  <2> HIDE DEF d, y, e
  <2>6. PairSane(y, p, e)
    <3>1. CASE msg.x \in d.w.slots
      BY <2>3, <2>5, <3>1, RemoveOutstandingIs
    <3>2. CASE msg.x \notin d.w.slots
      BY <2>3, <2>5, <3>2
    <3> QED BY <3>1, <3>2
  <2> QED BY <2>1, <2>6, PlainIs DEF e
<1>5. CASE msg.type = "piece"
  <2>1. c \in receivePiece(r, msg.x, p, ok)
    BY <1>5 DEF receiveMessage
  <2> QED BY <2>1, ReceivePieceIs
<1> QED BY <1>1, <1>2, <1>3, <1>4, <1>5

(***************************************************************************)
(* The steps of a peer.                                                    *)
(***************************************************************************)
PeerStart ==
    /\ PeersBefore /\ ps \in Storage /\ halted = FALSE
    /\ Books(ps, segs, peer, {}) /\ PeerKnown(ps)

PeerEnd ==
    /\ ps' \in Storage /\ peer' \in [Peer -> PeerRecord] /\ halted' \in BOOLEAN
    /\ \A x \in Peer : InTargets(peer'[x])
    /\ halted' => Weak(ps')
    /\ ~halted' => Books(ps', segs, peer', {}) /\ Tracked(ps', segs, memo)
    /\ Sound(ps')

\* The books seen from one peer are the books.
LEMMA PeerView ==
    ASSUME peer \in [Peer -> PeerRecord], NEW p \in Peer, NEW v,
           NEW w, w = [peer EXCEPT ![p] = v], NEW i
    PROVE  HeldBy(segs, w, i) = Holding(p, v, i) /\ Asked(w, i) = Asking(p, v, i)
<1>1. w[p] = v /\ \A x \in Peer : x # p => w[x] = peer[x]
  OBVIOUS
<1>2. HeldBy(segs, w, i) = Holding(p, v, i)
  BY <1>1 DEF HeldBy, Holding, OtherHeld
<1>3. \A b : b \in Asking(p, v, i) <=>
                b \in OtherAsked(p, i) \/ (b \in Block /\ <<i, b>> \in v.slots)
  BY HoldingIs
<1>4. \A b : b \in OtherAsked(p, i) <=> b \in Block /\ \E x \in Peer \ {p} : <<i, b>> \in peer[x].slots
  BY DEF OtherAsked
<1>5. \A b : b \in Asked(w, i) <=> b \in Block /\ \E x \in Peer : <<i, b>> \in w[x].slots
  BY DEF Asked
<1>6. \A b : (\E x \in Peer : <<i, b>> \in w[x].slots) <=>
              (<<i, b>> \in v.slots \/ \E x \in Peer \ {p} : <<i, b>> \in peer[x].slots)
  BY <1>1
<1> QED BY <1>2, <1>3, <1>4, <1>5, <1>6

\* The pair a step of a peer starts with.
LEMMA PairBefore ==
    ASSUME PeerStart, NEW p \in Peer, NEW r, r = [s |-> ps, w |-> peer[p]]
    PROVE  PairSane(r, p, {}) /\ r \in Pair
<1>1. peer \in [Peer -> PeerRecord] /\ peer[p] \in PeerRecord /\ ps \in Storage
      /\ InTargets(peer[p]) /\ Books(ps, segs, peer, {}) /\ PeerKnown(ps)
  BY DEF PeerStart, PeersBefore
<1>2. r \in Pair /\ r.s = ps /\ r.w = peer[p]
  BY <1>1 DEF Pair
<1> DEFINE w == [peer EXCEPT ![p] = peer[p]]
<1>3. w = peer
  BY <1>1
<1>4. ASSUME NEW i \in Piece PROVE Booked(ps, i, Holding(p, peer[p], i), Asking(p, peer[p], i), {})
  <2>1. HeldBy(segs, w, i) = Holding(p, peer[p], i) /\ Asked(w, i) = Asking(p, peer[p], i)
    BY <1>1, PeerView
  <2>2. Booked(ps, i, HeldBy(segs, peer, i), Asked(peer, i), {})
    BY <1>1 DEF Books
  <2> QED BY <1>3, <2>1, <2>2
<1> QED BY <1>1, <1>2, <1>4 DEF PairSane, PeerSane, PeerBooks

\* The pair a step of a peer ends with.
LEMMA PairAfter ==
    ASSUME PeerStart, NEW p \in Peer, NEW r \in Pair, InTargets(r.w), Sets(p, r),
           halted' \in BOOLEAN, halted' => Weak(r.s) /\ Sound(r.s), ~halted' => PairSane(r, p, {})
    PROVE  PeerEnd
<1>1. ps' = r.s /\ peer' = [peer EXCEPT ![p] = r.w] /\ r.s \in Storage /\ r.w \in PeerRecord
  BY PairFields DEF Sets
<1>2. peer \in [Peer -> PeerRecord] /\ \A x \in Peer : InTargets(peer[x])
  BY DEF PeerStart, PeersBefore
<1>3. peer' \in [Peer -> PeerRecord] /\ \A x \in Peer : InTargets(peer'[x])
  BY <1>1, <1>2
<1>4. ASSUME ~halted' PROVE Books(ps', segs, peer', {})
  <2>1. PeerBooks(r.s, p, r.w, {})
    BY <1>4 DEF PairSane, PeerSane
  <2>2. ASSUME NEW i \in Piece PROVE Booked(ps', i, HeldBy(segs, peer', i), Asked(peer', i), {})
    <3> DEFINE w == [peer EXCEPT ![p] = r.w]
    <3>1. HeldBy(segs, w, i) = Holding(p, r.w, i) /\ Asked(w, i) = Asking(p, r.w, i)
      BY <1>2, PeerView
    <3>2. Booked(r.s, i, Holding(p, r.w, i), Asking(p, r.w, i), {})
      BY <2>1 DEF PeerBooks
    <3> QED BY <1>1, <3>1, <3>2
  <2> QED BY <2>2 DEF Books
<1>5. ASSUME ~halted' PROVE Sound(ps') /\ Tracked(ps', segs, memo)
  BY <1>1, <1>5 DEF PairSane, PeerSane, PeerKnown
<1>6. Sound(ps')
  <2>1. CASE halted'
    BY <1>1, <2>1
  <2>2. CASE ~halted'
    BY <1>5, <2>2
  <2> QED BY <2>1, <2>2
<1> QED BY <1>1, <1>3, <1>4, <1>5, <1>6 DEF PeerEnd

\* A peer connects.
LEMMA ConnectKeeps ==
    ASSUME PeerStart, NEW p \in Peer, Connect(p)
    PROVE  PeerEnd
<1> DEFINE r == [s |-> ps, w |-> peer[p]]
           k == [peer[p] EXCEPT !.connected = TRUE]
           f == [s |-> ps, w |-> k]
<1>1. PairSane(r, p, {}) /\ r \in Pair /\ r.s = ps /\ r.w = peer[p]
  BY PairBefore
<1>2. PeerSane(ps, p, peer[p], {}) /\ peer[p] \in PeerRecord /\ ps \in Storage
  BY <1>1 DEF PairSane, PeerSane
<1>3. k \in PeerRecord /\ k.targets = peer[p].targets /\ k.slots = peer[p].slots
  BY <1>2 DEF PeerRecord
<1>4. peer' = [peer EXCEPT ![p] = k] /\ ps' = ps /\ halted' = halted
  BY DEF Connect
<1> HIDE DEF k
<1>5. PeerSane(ps, p, k, {})
  BY <1>2, <1>3, SameToBooks
<1>6. f \in Pair /\ f.s = ps /\ f.w = k
  BY <1>2, <1>3 DEF Pair
<1> HIDE DEF f
<1>7. PairSane(f, p, {}) /\ InTargets(f.w)
  BY <1>5, <1>6 DEF PairSane, PeerSane
<1>8. Sets(p, f)
  BY <1>4, <1>6 DEF Sets
<1>9. halted' = FALSE
  BY <1>4 DEF PeerStart
<1> QED BY <1>6, <1>7, <1>8, <1>9, PairAfter

\* A pair that is sane ends a step.
LEMMA SaneEnds ==
    ASSUME PeerStart, NEW p \in Peer, NEW r, PairSane(r, p, {}), Sets(p, r), halted' = halted
    PROVE  PeerEnd
<1>1. r \in Pair /\ InTargets(r.w)
  BY DEF PairSane, PeerSane
<1>2. halted' = FALSE
  BY DEF PeerStart
<1> QED BY <1>1, <1>2, PairAfter

\* A sane pair after the connection has been closed.
LEMMA SaneClosed ==
    ASSUME PeersBefore, NEW p \in Peer, NEW r, PairSane(r, p, {})
    PROVE  PairSane(disconnect(r, p), p, {})
<1> DEFINE z == {}
           f == disconnect(r, p)
<1>1. PairSane(r, p, z) /\ r \in Pair
  BY DEF PairSane
<1> HIDE DEF z
<1>2. \A J : PeersBefore /\ PairSane(r, p, J) => PairSane(f, p, J)
  BY <1>1, DisconnectIs
<1>3. PairSane(f, p, z)
  BY <1>1, <1>2
<1> QED BY <1>3 DEF z

\* A peer's connection ends.
LEMMA DisconnectKeeps ==
    ASSUME PeerStart, NEW p \in Peer, Disconnect(p)
    PROVE  PeerEnd
<1> DEFINE r == [s |-> ps, w |-> peer[p]]
           f == disconnect(r, p)
<1>1. PairSane(r, p, {})
  BY PairBefore
<1>2. PeersBefore
  BY DEF PeerStart
<1>3. PairSane(f, p, {})
  BY <1>1, <1>2, SaneClosed
<1>4. Sets(p, f) /\ halted' = halted
  BY DEF Disconnect
<1> HIDE DEF f
<1> QED BY <1>3, <1>4, SaneEnds

\* The kinds of messages.
LEMMA MessageIs ==
    ASSUME NEW v, NEW p, NEW msg \in Message(v) \cup Reject(v, p)
    PROVE  msg.type \in {"none", "choke", "unchoke", "reject", "piece"}
BY DEF Message, Reject

\* A peer's turn.
LEMMA InteractKeeps ==
    ASSUME PeerStart, NEW p \in Peer, NEW msg \in Message(peer[p]) \cup Reject(peer[p], p),
           NEW ok \in Outcomes, Interact(p, msg, ok)
    PROVE  PeerEnd
<1> DEFINE r0 == [s |-> ps, w |-> peer[p]]
<1>1. PICK k \in SlotChecks(r0) : \E c \in receiveMessage(k, msg, p, ok) :
        CASE c.ex = "abort" -> Sets(p, disconnect(PairOf(c), p)) /\ UNCHANGED halted
          [] c.ex = "failure" -> Sets(p, disconnect(PairOf(c), p)) /\ halted' = TRUE
          [] c.ex = "none" ->
               /\ \E n \in addRequests(removeCompletedPiece(PairOf(c)), p) : Sets(p, n)
               /\ UNCHANGED halted
  BY DEF Interact, PairOf
<1>2. PICK c \in receiveMessage(k, msg, p, ok) :
        CASE c.ex = "abort" -> Sets(p, disconnect(PairOf(c), p)) /\ UNCHANGED halted
          [] c.ex = "failure" -> Sets(p, disconnect(PairOf(c), p)) /\ halted' = TRUE
          [] c.ex = "none" ->
               /\ \E n \in addRequests(removeCompletedPiece(PairOf(c)), p) : Sets(p, n)
               /\ UNCHANGED halted
  BY <1>1
<1>3. PairSane(r0, p, {}) /\ PeersBefore
  BY PairBefore DEF PeerStart
<1>4. PairSane(k, p, {})
  <2> DEFINE z == {}
  <2>1. PairSane(r0, p, z)
    BY <1>3
  <2> HIDE DEF z, r0
  <2>2. PairSane(k, p, z)
    BY <1>1, <1>3, <2>1, SlotChecksIs
  <2> QED BY <2>2 DEF z
<1> HIDE DEF r0
<1>5. msg.type \in {"none", "choke", "unchoke", "reject", "piece"}
  BY MessageIs
<1>6. GoodOutcome(c, p)
  BY <1>3, <1>4, <1>5, ReceiveMessageIs
<1> DEFINE r == PairOf(c)
<1>7. /\ c.ex \in {"none", "abort", "failure"}
      /\ c.ex # "failure" => PairSane(r, p, {})
      /\ c.ex = "failure" => PairWeak(r)
  BY <1>6 DEF GoodOutcome
<1>8. /\ c.ex = "abort" => Sets(p, disconnect(r, p)) /\ halted' = halted
      /\ c.ex = "failure" => Sets(p, disconnect(r, p)) /\ halted' = TRUE
      /\ c.ex = "none" => /\ \E n \in addRequests(removeCompletedPiece(r), p) : Sets(p, n)
                          /\ halted' = halted
  BY <1>2
<1> HIDE DEF r
<1>9. CASE c.ex = "abort"
  <2> DEFINE f == disconnect(r, p)
  <2>1. PairSane(f, p, {})
    BY <1>3, <1>7, <1>9, SaneClosed
  <2>2. Sets(p, f) /\ halted' = halted
    BY <1>8, <1>9
  <2> HIDE DEF f
  <2> QED BY <2>1, <2>2, SaneEnds
<1>10. CASE c.ex = "failure"
  <2> DEFINE f == disconnect(r, p)
  <2>1. PairWeak(r) /\ r \in Pair
    BY <1>7, <1>10 DEF PairWeak
  <2>2. f \in Pair /\ InTargets(f.w) /\ (PairWeak(r) => PairWeak(f))
    BY <2>1, DisconnectIs
  <2>3. Sets(p, f) /\ halted' = TRUE
    BY <1>8, <1>10
  <2> HIDE DEF f
  <2>4. Weak(f.s) /\ Sound(f.s)
    BY <2>1, <2>2 DEF PairWeak
  <2> QED BY <2>2, <2>3, <2>4, PairAfter
<1>11. CASE c.ex = "none"
  <2>1. PICK n \in addRequests(removeCompletedPiece(r), p) : Sets(p, n)
    BY <1>8, <1>11
  <2> DEFINE f == removeCompletedPiece(r)
  <2>2. PairSane(f, p, {})
    BY <1>3, <1>7, <1>11, RemoveCompletedIs
  <2>3. n \in addRequests(f, p)
    OBVIOUS
  <2> HIDE DEF f
  <2>4. PairSane(n, p, {})
    BY <1>3, <2>2, <2>3, AddRequestsIs
  <2>5. halted' = halted
    BY <1>8, <1>11
  <2> QED BY <2>1, <2>4, <2>5, SaneEnds
<1> QED BY <1>7, <1>9, <1>10, <1>11

\* Every step of a peer keeps the books, or ends the download.
LEMMA PeerKeeps ==
    ASSUME PeerStart, NEW p \in Peer, PeerNext(p)
    PROVE  PeerEnd
<1>1. CASE Connect(p)
  BY <1>1, ConnectKeeps
<1>2. CASE Disconnect(p)
  BY <1>2, DisconnectKeeps
<1>3. CASE \E msg \in Message(peer[p]) \cup Reject(peer[p], p), ok \in DiskOutcome(ps) :
              Interact(p, msg, ok)
  <2>1. PICK msg \in Message(peer[p]) \cup Reject(peer[p], p), ok \in DiskOutcome(ps) :
              Interact(p, msg, ok)
    BY <1>3
  <2>2. ok \in Outcomes
    BY DiskOutcomeIs DEF PeerStart
  <2> QED BY <2>1, <2>2, InteractKeeps
<1> QED BY <1>1, <1>2, <1>3 DEF PeerNext

(***************************************************************************)
(* The download as a whole.                                                *)
(***************************************************************************)
\* What a control file may say: no piece is both done and in flight, and
\* none in flight is complete.
FileOK(f) ==
    /\ f.have \in SUBSET Piece
    /\ DOMAIN f.blocks \in SUBSET Piece
    /\ \A i \in DOMAIN f.blocks :
         i \notin f.have /\ f.blocks[i] \in SUBSET Block /\ f.blocks[i] # Block

Typed ==
    /\ ps \in Storage /\ segs \in SegMap /\ memo \in MemoMap /\ halted \in BOOLEAN
    /\ con \in [Stream -> Connection]
    /\ session \in [empty : BOOLEAN, alwaysResume : BOOLEAN]
    /\ peer \in [Peer -> PeerRecord] /\ up \in BOOLEAN
    /\ saveFailures \in 0 .. MaxSaveFailures

FilesOK == FileOK(controlFile) /\ lastDigest.have \in SUBSET Piece

\* While the process is down nobody works on the download.
DownIsEmpty ==
    ~up => segs = <<>> /\ halted = FALSE /\ peer = [p \in Peer |-> NewPeer]

InOrder ==
    up /\ ~halted => Books(ps, segs, peer, {}) /\ Idle(segs, con)

\* The inductive invariant: the books are in order while the download runs,
\* and what is left of them when it fails can be saved and loaded.
BooksInv ==
    /\ Typed /\ FilesOK /\ DownIsEmpty /\ InOrder
    /\ Weak(ps) /\ \A x \in Peer : InTargets(peer[x])

\* The control file that says nothing.
LEMMA NoFileIs ==
    FileOK(NoFile) /\ NoFile.have \in SUBSET Piece
BY EmptyMaps DEF NoFile, FileOK

\* What is saved.
LEMMA ContentsIs ==
    ASSUME NEW s \in Storage, Weak(s)
    PROVE  FileOK(Contents(s)) /\ Contents(s).have \in SUBSET Piece
<1>1. /\ s.have \in SUBSET Piece /\ DOMAIN s.pieces \in SUBSET Piece
      /\ \A i \in DOMAIN s.pieces : s.pieces[i] \in Rec
  BY StorageFields
<1> DEFINE B == [i \in DOMAIN s.pieces |-> s.pieces[i].blocks]
<1>2. Contents(s).have = s.have /\ Contents(s).blocks = B
  BY DEF Contents
<1>3. DOMAIN B = DOMAIN s.pieces
  OBVIOUS
<1>4. \A i \in DOMAIN s.pieces : B[i] = s.pieces[i].blocks /\ B[i] \in SUBSET Block
  BY <1>1, Fields
<1> HIDE DEF B
<1>5. \A i \in DOMAIN B : i \notin s.have /\ B[i] \in SUBSET Block /\ B[i] # Block
  BY <1>3, <1>4 DEF Weak
<1> QED BY <1>1, <1>2, <1>3, <1>5 DEF FileOK

\* The storage before anything is known.
LEMMA InitStorageIs ==
    /\ InitStorage \in Storage /\ InitStorage.have = {} /\ InitStorage.use = {}
    /\ InitStorage.pieces = <<>> /\ Nothing \in [Offset -> Byte]
<1>1. Nothing \in [Offset -> Byte]
  BY DEF Nothing, Byte
<1>2. [i \in Piece |-> Nothing] \in [Piece -> [Offset -> Byte]]
  BY <1>1
<1>3. <<>> \in PieceMap /\ 0 \in 0 .. MaxDiskFailures
  BY EmptyMaps, Numbers
<1> QED BY <1>1, <1>2, <1>3 DEF InitStorage, Storage

\* The books of a storage nobody uses.
LEMMA UnusedBooks ==
    ASSUME NEW s \in Storage, s.use = {}, Weak(s),
           \A i \in DOMAIN s.pieces : s.pieces[i].users = {} /\ s.pieces[i].useBlocks = {},
           NEW g, g = <<>>, NEW w, w = [p \in Peer |-> NewPeer]
    PROVE  Books(s, g, w, {})
<1>1. \A i : HeldBy(g, w, i) = {} /\ Asked(w, i) = {}
  BY EmptyMaps, NewPeerIs DEF HeldBy, Asked
<1>2. ASSUME NEW i \in Piece PROVE Booked(s, i, {}, {}, {})
  BY DEF Booked, Weak, Single
<1> QED BY <1>1, <1>2 DEF Books

\* A storage without pieces.
LEMMA FreshStorage ==
    ASSUME NEW d \in [Piece -> [Offset -> Byte]], NEW n \in 0 .. MaxDiskFailures,
           NEW s, s = [InitStorage EXCEPT !.disk = d, !.failures = n]
    PROVE  s \in Storage /\ Weak(s) /\ s.use = {} /\ DOMAIN s.pieces = {} /\ s.have = {}
<1>1. s \in Storage /\ s.use = {} /\ s.pieces = <<>> /\ s.have = {}
  BY InitStorageIs DEF Storage
<1>2. DOMAIN s.pieces = {}
  BY <1>1, EmptyMaps
<1> QED BY <1>1, <1>2 DEF Weak

\* Connections at the start.
LEMMA NoConnectionsIs ==
    [c \in Stream |-> NoConnection(FALSE)] \in [Stream -> Connection]
<1>1. NoConnection(FALSE) \in Connection
  BY FilePositions DEF NoConnection, Connection
<1> QED BY <1>1

\* The invariant holds at the start.
LEMMA BooksInit ==
    Init => BooksInv
<1> SUFFICES ASSUME Init PROVE BooksInv
  OBVIOUS
<1>1. /\ ps = InitStorage /\ segs = <<>> /\ memo = <<>> /\ halted = FALSE
      /\ con = [c \in Stream |-> NoConnection(FALSE)]
      /\ session = [empty |-> TRUE, alwaysResume |-> FALSE]
      /\ peer = [p \in Peer |-> NewPeer] /\ up = TRUE /\ controlFile = NoFile
      /\ lastDigest = NoFile /\ saveFailures = 0
  BY DEF Init, StreamInit, PeerInit
<1>2. ps \in Storage /\ ps.use = {} /\ DOMAIN ps.pieces = {} /\ Weak(ps)
  BY <1>1, InitStorageIs, EmptyMaps DEF Weak
<1>3. Books(ps, segs, peer, {})
  BY <1>1, <1>2, UnusedBooks
<1>4. Idle(segs, con)
  BY <1>1, EmptyMaps DEF Idle
<1>5. con \in [Stream -> Connection]
  BY <1>1, NoConnectionsIs
<1>6. peer \in [Peer -> PeerRecord] /\ \A x \in Peer : InTargets(peer[x])
  BY <1>1, NewPeerIs
<1>7. saveFailures \in 0 .. MaxSaveFailures
  BY <1>1, TransferAssumption
<1>8. segs \in SegMap /\ memo \in MemoMap
  BY <1>1, EmptyMaps
<1>9. session \in [empty : BOOLEAN, alwaysResume : BOOLEAN]
  BY <1>1
<1>10. Typed
  BY <1>1, <1>2, <1>5, <1>6, <1>7, <1>8, <1>9 DEF Typed
<1>11. FilesOK
  BY <1>1, NoFileIs DEF FilesOK
<1>12. InOrder /\ DownIsEmpty
  BY <1>1, <1>3, <1>4 DEF InOrder, DownIsEmpty
<1> QED BY <1>2, <1>6, <1>10, <1>11, <1>12 DEF BooksInv

(***************************************************************************)
(* The data of the download as a whole.                                    *)
(***************************************************************************)
\* What is known of the data in every state.
Solid(s) ==
    Clean(s) /\ There(s) /\ Good(s) /\ (s.endGame => P2P) /\ InSequence(s)

\* The pieces that the control file has are right: their hashes have been
\* checked and a done piece is never forgotten, or nobody sends wrong data
\* and no failed write is forgotten.
SureFile(s) == (HashKnown /\ P2P) \/ (Honest /\ Trusted(s))

BlocksOnDisk(f, s) ==
    s.failures = 0 => \A i \in DOMAIN f.blocks : \A b \in f.blocks[i] :
                         \A o \in OffsetsOf(b) : s.disk[i][o] # "none"
PiecesOnDisk(f, s) ==
    SureFile(s) => \A i \in f.have : \A o \in Offset : s.disk[i][o] = "good"
FileSorted(f) == Peer = {} => \A i \in DOMAIN f.blocks : DownTo(f.blocks[i])

\* Control file f is right about the file of storage s.
OnRecord(f, s) == BlocksOnDisk(f, s) /\ PiecesOnDisk(f, s) /\ FileSorted(f)

\* A download with peers keeps the pieces that its control file has.
Owned(f, s) == P2P => f.have \subseteq s.have

\* The inductive invariant of the data: what the file, the cache and the
\* control file hold, and, while the download runs, what the segments, the
\* memo, the digests and the connections say of it.
DataInv ==
    /\ starts \in Nat /\ Solid(ps)
    /\ up /\ ~halted => Tracked(ps, segs, memo) /\ Aligned(segs, con)
    /\ ~up => memo = <<>>
    /\ OnRecord(controlFile, ps)
    /\ up => Owned(controlFile, ps)

\* What is known of a storage, compared with the beginning of the step.
LEMMA SoundIs ==
    ASSUME NEW s
    PROVE  /\ Sound(s) <=> Solid(s) /\ Grown(s)
           /\ Grown(ps)
BY DEF Sound, Solid, Grown, Later

\* A control file stays right about a later storage.
LEMMA RecordStays ==
    ASSUME NEW f, FileOK(f), NEW s \in Storage, NEW t \in Storage, OnRecord(f, s), Owned(f, s),
           Later(s, t), P2P => s.have \subseteq t.have, Solid(t)
    PROVE  OnRecord(f, t) /\ Owned(f, t)
<1>1. Owned(f, t)
  BY DEF Owned
<1>2. /\ f.have \in SUBSET Piece /\ DOMAIN f.blocks \in SUBSET Piece
      /\ \A i \in DOMAIN f.blocks : f.blocks[i] \in SUBSET Block
  BY DEF FileOK
<1>3. \A b \in Block : OffsetsOf(b) \in SUBSET Offset
  BY BlockOffsets
<1>4. BlocksOnDisk(f, t)
  BY <1>2, <1>3 DEF OnRecord, BlocksOnDisk, Later
<1>5. ASSUME HashKnown /\ P2P PROVE \A i \in f.have : \A o \in Offset : t.disk[i][o] = "good"
  BY <1>1, <1>5 DEF Owned, Solid, Good, Sure
<1>6. ASSUME Honest, Trusted(t), NEW i \in f.have, NEW o \in Offset PROVE t.disk[i][o] = "good"
  <2>1. Trusted(s)
    BY <1>6, LaterTrusted
  <2>2. s.disk[i][o] = "good"
    BY <1>6, <2>1 DEF OnRecord, PiecesOnDisk, SureFile
  <2>3. i \in Piece
    BY <1>2
  <2>4. t.disk[i][o] # "none"
    BY <2>2, <2>3 DEF Later
  <2>5. t.disk[i][o] # "bad"
    BY <1>6, <2>3 DEF Solid, Clean, NoBad
  <2>6. t.disk[i][o] \in Byte
    BY <2>3, StorageFields
  <2> QED BY <2>4, <2>5, <2>6 DEF Byte
<1>7. PiecesOnDisk(f, t)
  BY <1>5, <1>6 DEF PiecesOnDisk, SureFile
<1> QED BY <1>1, <1>4, <1>7 DEF OnRecord

\* A control file that says nothing is right.
LEMMA RecordNone ==
    ASSUME NEW s PROVE OnRecord(NoFile, s) /\ Owned(NoFile, s)
BY EmptyMaps DEF OnRecord, Owned, BlocksOnDisk, PiecesOnDisk, FileSorted, NoFile

\* What is saved after the cache has been flushed is right, unless a write
\* has failed.
LEMMA RecordNew ==
    ASSUME NEW s \in Storage, Solid(s), \A i \in DOMAIN s.pieces :
             ~(s.pieces[i].entry /\ s.pieces[i].error) => Flat(s, i)
    PROVE  OnRecord(Contents(s), s) /\ Owned(Contents(s), s)
<1> DEFINE B == [i \in DOMAIN s.pieces |-> s.pieces[i].blocks]
<1>1. Contents(s).have = s.have /\ Contents(s).blocks = B
  BY DEF Contents
<1>2. DOMAIN B = DOMAIN s.pieces /\ \A i \in DOMAIN s.pieces : B[i] = s.pieces[i].blocks
  OBVIOUS
<1> HIDE DEF B
<1>3. ASSUME s.failures = 0, NEW i \in DOMAIN s.pieces, NEW b \in s.pieces[i].blocks,
             NEW o \in OffsetsOf(b)
      PROVE  s.disk[i][o] # "none"
  <2>1. ~s.pieces[i].error
    BY <1>3 DEF Solid, Clean, Faults
  <2>2. Flat(s, i)
    BY <2>1
  <2>3. Trusted(s)
    BY <1>3 DEF Trusted
  <2>4. Seen(s, i, o) # "none"
    BY <1>3, <2>1, <2>3 DEF Solid, There, PieceThere
  <2>5. b \in Block
    BY StorageFields, Fields
  <2>6. o \in Offset
    BY <1>3, <2>5, BlockOffsets
  <2>7. s.pieces[i].cells[o] = "none"
    BY <2>2, <2>6 DEF Flat, Nothing
  <2> QED BY <2>4, <2>7 DEF Seen
<1>4. BlocksOnDisk(Contents(s), s)
  BY <1>1, <1>2, <1>3 DEF BlocksOnDisk
<1>5. SureFile(s) => Sure(s)
  BY DEF SureFile, Sure
<1>6. PiecesOnDisk(Contents(s), s)
  BY <1>1, <1>5 DEF PiecesOnDisk, Solid, Good
<1>7. FileSorted(Contents(s))
  BY <1>1, <1>2 DEF FileSorted, Solid, InSequence
<1>8. Owned(Contents(s), s)
  BY <1>1 DEF Owned
<1> QED BY <1>4, <1>6, <1>7, <1>8 DEF OnRecord

\* The state after a step of a running process.
LEMMA DataNext ==
    ASSUME starts \in Nat, starts' = starts, up', Solid(ps'),
           ~halted' => Tracked(ps', segs', memo') /\ Aligned(segs', con'),
           OnRecord(controlFile', ps'), Owned(controlFile', ps')
    PROVE  DataInv'
<1>1. Trusted(ps') <=> Trusted(ps)'
  BY DEF Trusted
<1>2. Sure(ps') <=> Sure(ps)'
  BY <1>1 DEF Sure, Honest, Trusted
<1>3. Solid(ps)'
  BY <1>1, <1>2 DEF Solid, There, Good
<1>4. ~halted' => Tracked(ps, segs, memo)' /\ Aligned(segs', con')
  BY <1>1 DEF Tracked, MemoThere, SegsThere
<1>5. OnRecord(controlFile, ps)'
  BY <1>1 DEF OnRecord, PiecesOnDisk, SureFile
<1> QED BY <1>3, <1>4, <1>5 DEF DataInv

\* The control file stays, and the storage is a later one.
LEMMA RecordGrows ==
    ASSUME DataInv, up, Typed, FilesOK, controlFile' = controlFile, ps' \in Storage, Sound(ps')
    PROVE  OnRecord(controlFile', ps') /\ Owned(controlFile', ps')
<1>1. Solid(ps') /\ Grown(ps')
  BY SoundIs
<1>2. ps \in Storage /\ FileOK(controlFile) /\ OnRecord(controlFile, ps) /\ Owned(controlFile, ps)
  BY DEF DataInv, Typed, FilesOK
<1>3. Later(ps, ps') /\ (P2P => ps.have \subseteq ps'.have)
  BY <1>1 DEF Grown
<1>4. PICK f, t : f = controlFile /\ t = ps'
  OBVIOUS
<1>5. OnRecord(f, t) /\ Owned(f, t)
  BY <1>1, <1>2, <1>3, <1>4, RecordStays
<1> QED BY <1>4, <1>5

\* A step of a stream.
LEMMA StreamStepKeeps ==
    ASSUME BooksInv, DataInv, NEW c \in Stream, StreamStep(c)
    PROVE  BooksInv' /\ DataInv'
<1> PICK w : w = peer
  OBVIOUS
<1>1. Typed /\ FilesOK /\ DownIsEmpty /\ InOrder /\ Weak(ps) /\ \A x \in Peer : InTargets(peer[x])
  BY DEF BooksInv
<1>2. /\ up /\ StreamNext(c) /\ peer' = peer /\ up' = up /\ controlFile' = controlFile
      /\ lastDigest' = lastDigest /\ saveFailures' = saveFailures /\ starts' = starts
  BY SMTT(60) DEF StreamStep, fileVars
<1>3. ~halted
  BY <1>2 DEF StreamNext, AcquireSegment, RequestSegment, DropConnection, CannotResume,
              SegmentsCanceled, Receive, Running
<1>4. StreamBefore(w)
  <2>1. halted = FALSE
    BY <1>1, <1>3 DEF Typed
  <2>2. Books(ps, segs, w, {}) /\ Idle(segs, con)
    BY <1>1, <1>2, <1>3 DEF InOrder
  <2>3. Tracked(ps, segs, memo) /\ Aligned(segs, con)
    BY <1>2, <1>3 DEF DataInv
  <2>4. Sound(ps)
    BY SoundIs DEF DataInv
  <2> QED BY <1>1, <2>1, <2>2, <2>3, <2>4 DEF StreamBefore, Typed
<1>5. StreamAfter(w)
  BY <1>2, <1>4, StreamKeeps
<1>6. /\ ps' \in Storage /\ segs' \in SegMap /\ memo' \in MemoMap /\ halted' \in BOOLEAN
      /\ con' \in [Stream -> Connection]
  BY <1>5 DEF StreamAfter
<1>7. session' \in [empty : BOOLEAN, alwaysResume : BOOLEAN]
  BY <1>1, <1>2, SessionTyped DEF Typed
<1>8. Typed'
  BY <1>1, <1>2, <1>6, <1>7 DEF Typed
<1>9. FilesOK' /\ DownIsEmpty'
  BY <1>1, <1>2 DEF FilesOK, DownIsEmpty, FileOK
<1>10. ~halted' => Books(ps', segs', w, {}) /\ Idle(segs', con')
  BY <1>5 DEF StreamAfter
<1>11. InOrder'
  <2>1. w = peer'
    BY <1>2
  <2>2. ~halted' => Books(ps', segs', peer', {}) /\ Idle(segs', con')
    BY <1>10, <2>1
  <2> QED BY <2>2 DEF InOrder
<1>12. Weak(ps')
  <2>1. CASE halted'
    BY <1>5, <2>1 DEF StreamAfter
  <2>2. CASE ~halted'
    BY <1>6, <1>10, <2>2, BooksWeak
  <2> QED BY <2>1, <2>2
<1>13. \A x \in Peer : InTargets(peer'[x])
  BY <1>1, <1>2
<1>14. BooksInv'
  BY <1>8, <1>9, <1>11, <1>12, <1>13 DEF BooksInv
<1>15. DataInv'
  <2>1. /\ Sound(ps')
        /\ ~halted' => Tracked(ps', segs', memo') /\ Aligned(segs', con')
    BY <1>5 DEF StreamAfter
  <2>2. OnRecord(controlFile', ps') /\ Owned(controlFile', ps')
    BY <1>1, <1>2, <1>6, <2>1, RecordGrows
  <2>3. Solid(ps') /\ starts \in Nat /\ up'
    BY <1>2, <2>1, SoundIs DEF DataInv
  <2> QED BY <1>2, <2>1, <2>2, <2>3, DataNext
<1> QED BY <1>14, <1>15

\* A step of a peer.
LEMMA PeerStepKeeps ==
    ASSUME BooksInv, DataInv, NEW p \in Peer, PeerStep(p)
    PROVE  BooksInv' /\ DataInv'
<1>1. Typed /\ FilesOK /\ DownIsEmpty /\ InOrder /\ Weak(ps) /\ \A x \in Peer : InTargets(peer[x])
  BY DEF BooksInv
<1>2. /\ up /\ PeerNext(p) /\ segs' = segs /\ memo' = memo /\ con' = con /\ session' = session
      /\ up' = up /\ controlFile' = controlFile
      /\ lastDigest' = lastDigest /\ saveFailures' = saveFailures /\ starts' = starts
  BY DEF PeerStep, fileVars, streamVars
<1>3. ~halted
  BY <1>2 DEF PeerNext, Connect, Disconnect, Interact
<1>4. PeerStart
  <2>1. halted = FALSE
    BY <1>1, <1>3 DEF Typed
  <2>2. Books(ps, segs, peer, {})
    BY <1>1, <1>2, <1>3 DEF InOrder
  <2>3. PeerKnown(ps)
    BY <1>2, <1>3, SoundIs DEF DataInv, PeerKnown
  <2> QED BY <1>1, <2>1, <2>2, <2>3 DEF PeerStart, PeersBefore, Typed
<1>5. PeerEnd
  BY <1>2, <1>4, PeerKeeps
<1>6. ps' \in Storage /\ peer' \in [Peer -> PeerRecord] /\ halted' \in BOOLEAN
  BY <1>5 DEF PeerEnd
<1>8. Typed'
  BY <1>1, <1>2, <1>6 DEF Typed
<1>9. FilesOK' /\ DownIsEmpty'
  BY <1>1, <1>2 DEF FilesOK, DownIsEmpty, FileOK
<1>10. ~halted' => Books(ps', segs, peer', {})
  BY <1>5 DEF PeerEnd
<1>11. InOrder'
  <2>1. Idle(segs, con)
    BY <1>1, <1>2, <1>3 DEF InOrder
  <2>2. Idle(segs', con')
    BY <2>1, <1>2
  <2>3. ~halted' => Books(ps', segs', peer', {})
    BY <1>10, <1>2
  <2> QED BY <2>2, <2>3 DEF InOrder
<1>12. Weak(ps')
  <2>1. CASE halted'
    BY <1>5, <2>1 DEF PeerEnd
  <2>2. CASE ~halted'
    BY <1>6, <1>10, <2>2, BooksWeak
  <2> QED BY <2>1, <2>2
<1>13. \A x \in Peer : InTargets(peer'[x])
  BY <1>5 DEF PeerEnd
<1>14. BooksInv'
  BY <1>8, <1>9, <1>11, <1>12, <1>13 DEF BooksInv
<1>15. DataInv'
  <2>1. /\ Sound(ps')
        /\ ~halted' => Tracked(ps', segs, memo)
    BY <1>5 DEF PeerEnd
  <2>2. Aligned(segs, con)
    BY <1>2, <1>3 DEF DataInv
  <2>3. ~halted' => Tracked(ps', segs', memo') /\ Aligned(segs', con')
    BY <1>2, <2>1, <2>2
  <2>4. OnRecord(controlFile', ps') /\ Owned(controlFile', ps')
    BY <1>1, <1>2, <1>6, <2>1, RecordGrows
  <2>5. Solid(ps') /\ starts \in Nat /\ up'
    BY <1>2, <2>1, SoundIs DEF DataInv
  <2> QED BY <1>2, <2>3, <2>4, <2>5, DataNext
<1> QED BY <1>14, <1>15

\* The cache is flushed: the books are as they were.
LEMMA FlushAll ==
    ASSUME NEW s \in Storage, Weak(s), NEW ok \in Outcomes,
           NEW t, t = flushWrDiskCacheEntry(s, ok)
    PROVE  t \in Storage /\ SameBooks(s, t) /\ Weak(t)
<1> PICK I : I = DOMAIN s.pieces
  OBVIOUS
<1>1. I \in SUBSET (DOMAIN s.pieces) /\ t = Flushed(s, I, ok)
  BY DEF flushWrDiskCacheEntry
<1>2. FlushOf(s, t, I)
  BY <1>1, FlushedIs DEF Outcomes
<1>3. t \in Storage /\ SameBooks(s, t)
  BY <1>2 DEF FlushOf
<1>4. Weak(t)
  BY <1>3 DEF Weak, SameBooks, SameUse
<1> QED BY <1>3, <1>4

\* A save leaves a control file in order.
LEMMA SaveIs ==
    ASSUME FileOK(controlFile), saveFailures \in 0 .. MaxSaveFailures,
           NEW s \in Storage, Weak(s), Save(s)
    PROVE  FileOK(controlFile') /\ saveFailures' \in 0 .. MaxSaveFailures
<1>1. FileOK(Contents(s))
  BY ContentsIs
<1>2. CASE controlFile' = controlFile /\ saveFailures' = saveFailures
  BY <1>2
<1>3. CASE controlFile' = Contents(s) /\ saveFailures' = saveFailures
  BY <1>1, <1>3
<1>4. CASE saveFailures < MaxSaveFailures /\ saveFailures' = saveFailures + 1 /\ controlFile' = controlFile
  BY <1>4, TransferAssumption
<1> QED BY <1>2, <1>3, <1>4 DEF Save

\* The progress is saved while the download runs.
LEMMA AutoSaveKeeps ==
    ASSUME BooksInv, AutoSave
    PROVE  BooksInv'
<1>1. Typed /\ FilesOK /\ DownIsEmpty /\ InOrder /\ Weak(ps) /\ \A x \in Peer : InTargets(peer[x])
  BY DEF BooksInv
<1>2. /\ up /\ segs' = segs /\ memo' = memo /\ con' = con /\ session' = session
      /\ halted' = halted /\ peer' = peer /\ up' = up
  BY DEF AutoSave, streamVars
<1>3. /\ ps' \in Storage /\ SameBooks(ps, ps') /\ Weak(ps') /\ FileOK(controlFile')
      /\ lastDigest'.have \in SUBSET Piece /\ saveFailures' \in 0 .. MaxSaveFailures
  <2>1. CASE controlFile' = NoFile /\ ps' = ps /\ lastDigest' = lastDigest /\ saveFailures' = saveFailures
    <3>1. SameBooks(ps, ps)
      BY DEF SameBooks, SameUse
    <3> QED BY <2>1, <3>1, <1>1, NoFileIs DEF Typed, FilesOK
  <2>2. ASSUME NEW ok \in DiskOutcome(ps), ps' = flushWrDiskCacheEntry(ps, ok), Save(ps'),
               lastDigest' = Contents(ps')
        PROVE  /\ ps' \in Storage /\ SameBooks(ps, ps') /\ Weak(ps') /\ FileOK(controlFile')
               /\ lastDigest'.have \in SUBSET Piece /\ saveFailures' \in 0 .. MaxSaveFailures
    <3>1. ps \in Storage /\ ok \in Outcomes /\ Weak(ps)
      BY <1>1, <2>2, DiskOutcomeIs DEF Typed
    <3>2. ps' \in Storage /\ SameBooks(ps, ps') /\ Weak(ps')
      BY <3>1, <2>2, FlushAll
    <3>3. FileOK(controlFile) /\ saveFailures \in 0 .. MaxSaveFailures
      BY <1>1 DEF Typed, FilesOK
    <3>4. FileOK(controlFile') /\ saveFailures' \in 0 .. MaxSaveFailures
      BY <3>2, <3>3, <2>2, SaveIs
    <3>5. Contents(ps').have \in SUBSET Piece
      BY <3>2, ContentsIs
    <3> QED BY <2>2, <3>2, <3>4, <3>5
  <2> QED BY <2>1, <2>2 DEF AutoSave
<1>4. Typed'
  BY <1>1, <1>2, <1>3 DEF Typed
<1>5. FilesOK' /\ DownIsEmpty'
  BY <1>1, <1>2, <1>3 DEF FilesOK, DownIsEmpty
<1>6. InOrder'
  <2>1. SUFFICES ASSUME up /\ ~halted PROVE Books(ps', segs', peer', {}) /\ Idle(segs', con')
    BY <1>2 DEF InOrder
  <2>2. Books(ps, segs, peer, {}) /\ Idle(segs, con)
    BY <1>1, <2>1 DEF InOrder
  <2>3. Books(ps', segs, peer, {})
    BY <2>2, <1>3, BooksData
  <2> QED BY <2>2, <2>3, <1>2
<1> QED BY <1>1, <1>2, <1>3, <1>4, <1>5, <1>6 DEF BooksInv

\* The cache is flushed and nothing is forgotten.
LEMMA FlushAllKnown ==
    ASSUME BooksInv, DataInv, NEW ok \in Outcomes, NEW t, t = flushWrDiskCacheEntry(ps, ok)
    PROVE  /\ t \in Storage /\ Weak(t) /\ Sound(t) /\ StillTracked(ps, t)
           /\ OnRecord(Contents(t), t) /\ Owned(Contents(t), t)
<1>1. ps \in Storage /\ Weak(ps) /\ Sound(ps)
  BY SoundIs DEF BooksInv, Typed, DataInv
<1>2. t \in Storage /\ Weak(t) /\ SameBooks(ps, t)
  BY <1>1, FlushAll
<1>3. PICK I : I = DOMAIN ps.pieces
  OBVIOUS
<1>4. I \in SUBSET (DOMAIN ps.pieces) /\ t = Flushed(ps, I, ok)
  BY <1>3 DEF flushWrDiskCacheEntry
<1>5. Apart(ps)
  BY <1>1 DEF Weak, Apart
<1>6. FlushedKept(ps, t, I)
  BY <1>1, <1>4, <1>5, FlushKnown
<1>7. Sound(t) /\ StillTracked(ps, t)
      /\ \A i \in I : ~(t.pieces[i].entry /\ t.pieces[i].error) => Flat(t, i)
  BY <1>6 DEF FlushedKept
<1>8. DOMAIN t.pieces = I
  BY <1>2, <1>3 DEF SameBooks
<1>9. Solid(t)
  BY <1>7, SoundIs
<1>10. OnRecord(Contents(t), t) /\ Owned(Contents(t), t)
  BY <1>2, <1>7, <1>8, <1>9, RecordNew
<1> QED BY <1>2, <1>7, <1>10

\* After a save the control file is right about the file.
LEMMA SaveKnown ==
    ASSUME DataInv, up, FileOK(controlFile), ps \in Storage, NEW t \in Storage, Sound(t),
           OnRecord(Contents(t), t), Owned(Contents(t), t), Save(t)
    PROVE  OnRecord(controlFile', t) /\ Owned(controlFile', t)
<1>1. CASE controlFile' = Contents(t)
  BY <1>1
<1>2. CASE controlFile' = controlFile
  <2>1. Solid(t) /\ Later(ps, t) /\ (P2P => ps.have \subseteq t.have)
    BY SoundIs DEF Grown
  <2>2. OnRecord(controlFile, ps) /\ Owned(controlFile, ps)
    BY DEF DataInv
  <2>3. PICK f : f = controlFile
    OBVIOUS
  <2>4. OnRecord(f, t) /\ Owned(f, t)
    BY <2>1, <2>2, <2>3, RecordStays
  <2> QED BY <1>2, <2>3, <2>4
<1> QED BY <1>1, <1>2 DEF Save

\* The progress is saved while the download runs: what is known stays known.
LEMMA AutoSaveData ==
    ASSUME BooksInv, DataInv, AutoSave
    PROVE  DataInv'
<1>1. Typed /\ FilesOK /\ InOrder /\ ps \in Storage /\ FileOK(controlFile)
  BY DEF BooksInv, Typed, FilesOK
<1>2. /\ up /\ segs' = segs /\ memo' = memo /\ con' = con
      /\ halted' = halted /\ up' = up /\ starts' = starts
  BY DEF AutoSave, streamVars
<1>3. /\ Solid(ps') /\ OnRecord(controlFile', ps') /\ Owned(controlFile', ps')
      /\ ~halted => Tracked(ps', segs, memo)
  <2>1. CASE controlFile' = NoFile /\ ps' = ps
    <3>1. OnRecord(NoFile, ps) /\ Owned(NoFile, ps)
      BY RecordNone
    <3> QED BY <1>2, <2>1, <3>1 DEF DataInv
  <2>2. ASSUME NEW ok \in DiskOutcome(ps), ps' = flushWrDiskCacheEntry(ps, ok), Save(ps')
        PROVE  /\ Solid(ps') /\ OnRecord(controlFile', ps') /\ Owned(controlFile', ps')
               /\ ~halted => Tracked(ps', segs, memo)
    <3>1. ok \in Outcomes
      BY <1>1, DiskOutcomeIs
    <3>2. PICK t : t = ps'
      OBVIOUS
    <3>3. /\ t \in Storage /\ Sound(t) /\ StillTracked(ps, t)
          /\ OnRecord(Contents(t), t) /\ Owned(Contents(t), t)
      BY <2>2, <3>1, <3>2, FlushAllKnown
    <3>4. Save(t)
      BY <2>2, <3>2
    <3>5. OnRecord(controlFile', t) /\ Owned(controlFile', t)
      BY <1>1, <1>2, <3>3, <3>4, SaveKnown
    <3>6. Solid(t)
      BY <3>3, SoundIs
    <3>7. ASSUME ~halted PROVE Tracked(t, segs, memo)
      <4>1. Tracked(ps, segs, memo) /\ segs \in SegMap /\ memo \in MemoMap
        BY <1>1, <1>2, <3>7 DEF DataInv, Typed
      <4>2. InFlight(ps, segs)
        <5>1. PICK w, J : w = peer /\ J = {}
          OBVIOUS
        <5>2. Books(ps, segs, w, J)
          BY <1>1, <1>2, <3>7, <5>1 DEF InOrder
        <5> QED BY <1>1, <4>1, <5>2, BooksFacts
      <4> QED BY <3>3, <4>1, <4>2 DEF StillTracked
    <3> QED BY <3>2, <3>5, <3>6, <3>7
  <2> QED BY <2>1, <2>2 DEF AutoSave
<1>4. ~halted' => Tracked(ps', segs', memo') /\ Aligned(segs', con')
  BY <1>2, <1>3 DEF DataInv
<1>5. starts \in Nat /\ up'
  BY <1>2 DEF DataInv
<1> QED BY <1>2, <1>3, <1>4, <1>5, DataNext

\* What the process leaves when it stops or dies.
AllGone ==
    /\ ps' \in Storage /\ Weak(ps') /\ segs' = <<>> /\ memo' = <<>> /\ halted' = FALSE
    /\ con' \in [Stream -> Connection]
    /\ session' \in [empty : BOOLEAN, alwaysResume : BOOLEAN]
    /\ peer' = [p \in Peer |-> NewPeer]

\* Only the file outlives the process.
LEMMA VolatileIs ==
    ASSUME NEW d \in [Piece -> [Offset -> Byte]], NEW n \in 0 .. MaxDiskFailures, Volatile(d, n)
    PROVE  AllGone
<1>1. ps' = [InitStorage EXCEPT !.disk = d, !.failures = n]
  BY DEF Volatile
<1>2. ps' \in Storage /\ Weak(ps')
  BY <1>1, FreshStorage
<1>3. con' \in [Stream -> Connection]
  BY NoConnectionsIs DEF Volatile
<1> QED BY <1>2, <1>3 DEF AllGone, Volatile

\* The process is down.
LEMMA DownKeeps ==
    ASSUME AllGone, up' = FALSE, FileOK(controlFile'), lastDigest'.have \in SUBSET Piece,
           saveFailures' \in 0 .. MaxSaveFailures
    PROVE  BooksInv'
<1>1. segs' \in SegMap /\ memo' \in MemoMap
  BY EmptyMaps DEF AllGone
<1>2. peer' \in [Peer -> PeerRecord] /\ \A x \in Peer : InTargets(peer'[x])
  BY NewPeerIs DEF AllGone
<1>3. Typed'
  BY <1>1, <1>2 DEF AllGone, Typed
<1>4. FilesOK' /\ DownIsEmpty' /\ InOrder'
  BY DEF AllGone, FilesOK, DownIsEmpty, InOrder
<1>5. Weak(ps')
  BY DEF AllGone
<1> QED BY <1>2, <1>3, <1>4, <1>5 DEF BooksInv

\* The process dies.
LEMMA CrashKeeps ==
    ASSUME BooksInv, Crash
    PROVE  BooksInv'
<1>1. ps.disk \in [Piece -> [Offset -> Byte]] /\ ps.failures \in 0 .. MaxDiskFailures
  BY StorageFields DEF BooksInv, Typed
<1>2. AllGone
  BY <1>1, VolatileIs DEF Crash
<1>3. FileOK(controlFile') /\ saveFailures' \in 0 .. MaxSaveFailures
  BY DEF BooksInv, Typed, FilesOK, Crash
<1>4. up' = FALSE /\ lastDigest'.have \in SUBSET Piece
  BY NoFileIs DEF Crash
<1> QED BY <1>2, <1>3, <1>4, DownKeeps

\* The process is stopped.
LEMMA StopKeeps ==
    ASSUME BooksInv, Stop
    PROVE  BooksInv'
<1> PICK ok \in DiskOutcome(ps) :
       LET s == flushWrDiskCacheEntry(ps, ok) IN
       /\ Volatile(s.disk, s.failures)
       /\ IF downloadFinished(s) THEN controlFile' = NoFile /\ UNCHANGED saveFailures ELSE Save(s)
  BY DEF Stop
<1> PICK s : s = flushWrDiskCacheEntry(ps, ok)
  OBVIOUS
<1>1. /\ Volatile(s.disk, s.failures)
      /\ (controlFile' = NoFile /\ saveFailures' = saveFailures) \/ Save(s)
  OBVIOUS
<1>2. ps \in Storage /\ Weak(ps) /\ ok \in Outcomes
  BY DiskOutcomeIs DEF BooksInv, Typed
<1>3. s \in Storage /\ Weak(s)
  BY <1>2, FlushAll
<1>4. s.disk \in [Piece -> [Offset -> Byte]] /\ s.failures \in 0 .. MaxDiskFailures
  BY <1>3, StorageFields
<1>5. AllGone
  BY <1>1, <1>4, VolatileIs
<1>6. FileOK(controlFile) /\ saveFailures \in 0 .. MaxSaveFailures
  BY DEF BooksInv, Typed, FilesOK
<1>7. FileOK(controlFile') /\ saveFailures' \in 0 .. MaxSaveFailures
  BY <1>1, <1>3, <1>6, NoFileIs, SaveIs
<1>8. up' = FALSE /\ lastDigest'.have \in SUBSET Piece
  BY NoFileIs DEF Stop
<1> QED BY <1>5, <1>7, <1>8, DownKeeps

\* The process has stopped with the file and the counters of storage t.
LEMMA DownData ==
    ASSUME NEW t \in Storage, Solid(t), starts \in Nat, starts' = starts, up' = FALSE,
           Volatile(t.disk, t.failures), OnRecord(controlFile', t)
    PROVE  DataInv'
<1>1. t.disk \in [Piece -> [Offset -> Byte]] /\ t.failures \in 0 .. MaxDiskFailures
  BY StorageFields
<1>2. ps' = [InitStorage EXCEPT !.disk = t.disk, !.failures = t.failures] /\ memo' = <<>>
  BY DEF Volatile
<1>3. PICK u, f : u = ps' /\ f = controlFile'
  OBVIOUS
<1>4. u \in Storage /\ DOMAIN u.pieces = {} /\ u.have = {}
  BY <1>1, <1>2, <1>3, FreshStorage
<1>5. u.disk = t.disk /\ u.failures = t.failures /\ u.endGame = FALSE
  BY <1>2, <1>3 DEF InitStorage
<1>6. Solid(u)
  BY <1>4, <1>5 DEF Solid, Clean, Tidy, Faults, NoBad, There, Good, InSequence
<1>7. OnRecord(f, u)
  BY <1>3, <1>5 DEF OnRecord, BlocksOnDisk, PiecesOnDisk, SureFile, Trusted
<1>8. Trusted(ps') <=> Trusted(ps)'
  BY DEF Trusted
<1>9. Sure(ps') <=> Sure(ps)'
  BY <1>8 DEF Sure, Honest, Trusted
<1>10. Solid(ps)'
  BY <1>3, <1>6, <1>8, <1>9 DEF Solid, There, Good
<1>11. OnRecord(controlFile, ps)'
  BY <1>3, <1>7, <1>8 DEF OnRecord, PiecesOnDisk, SureFile
<1> QED BY <1>2, <1>10, <1>11 DEF DataInv

\* The process dies: the file and the control file stay as they are.
LEMMA CrashData ==
    ASSUME BooksInv, DataInv, Crash
    PROVE  DataInv'
<1>1. /\ up' = FALSE /\ Volatile(ps.disk, ps.failures) /\ controlFile' = controlFile
      /\ starts' = starts
  BY DEF Crash
<1>2. ps \in Storage /\ Solid(ps) /\ starts \in Nat /\ OnRecord(controlFile, ps)
  BY DEF BooksInv, Typed, DataInv
<1>3. OnRecord(controlFile', ps)
  BY <1>1, <1>2
<1> QED BY <1>1, <1>2, <1>3, DownData

\* The process is stopped: the cache is flushed and the progress saved.
LEMMA StopData ==
    ASSUME BooksInv, DataInv, Stop
    PROVE  DataInv'
<1> PICK ok \in DiskOutcome(ps) :
       LET s == flushWrDiskCacheEntry(ps, ok) IN
       /\ Volatile(s.disk, s.failures)
       /\ IF downloadFinished(s) THEN controlFile' = NoFile /\ UNCHANGED saveFailures ELSE Save(s)
  BY DEF Stop
<1> PICK s : s = flushWrDiskCacheEntry(ps, ok)
  OBVIOUS
<1>1. Volatile(s.disk, s.failures) /\ (controlFile' = NoFile \/ Save(s))
  OBVIOUS
<1>2. ps \in Storage /\ ok \in Outcomes /\ FileOK(controlFile)
  BY DiskOutcomeIs DEF BooksInv, Typed, FilesOK
<1>3. /\ s \in Storage /\ Sound(s)
      /\ OnRecord(Contents(s), s) /\ Owned(Contents(s), s)
  BY <1>2, FlushAllKnown
<1>4. up /\ up' = FALSE /\ starts' = starts /\ starts \in Nat
  BY DEF Stop, DataInv
<1>5. OnRecord(controlFile', s)
  <2>1. CASE controlFile' = NoFile
    BY <2>1, RecordNone
  <2>2. CASE Save(s)
    BY <1>2, <1>3, <1>4, <2>2, SaveKnown
  <2> QED BY <1>1, <2>1, <2>2
<1>6. Solid(s)
  BY <1>3, SoundIs
<1> QED BY <1>1, <1>3, <1>4, <1>5, <1>6, DownData

\* What the control file says is a storage nobody uses.
LEMMA LoadedIs ==
    ASSUME FileOK(controlFile), ps \in Storage, NEW t, t = Loaded
    PROVE  /\ t \in Storage /\ Weak(t) /\ t.use = {}
           /\ \A i \in DOMAIN t.pieces : t.pieces[i].users = {} /\ t.pieces[i].useBlocks = {}
<1> DEFINE D == DOMAIN controlFile.blocks
           F == [i \in D |-> [NewPiece EXCEPT !.blocks = controlFile.blocks[i]]]
           d == [i \in Piece |-> [o \in Offset |->
                   IF Recorded(controlFile, i, o) THEN ps.disk[i][o] ELSE "none"]]
<1>1. /\ controlFile.have \in SUBSET Piece /\ D \in SUBSET Piece
      /\ \A i \in D : i \notin controlFile.have /\ controlFile.blocks[i] \in SUBSET Block
                      /\ controlFile.blocks[i] # Block
  BY DEF FileOK
<1>2. t = [InitStorage EXCEPT !.have = controlFile.have, !.pieces = F, !.disk = d,
                              !.failures = ps.failures]
  BY DEF Loaded
<1>3. /\ DOMAIN F = D
      /\ \A i \in D : F[i] = [NewPiece EXCEPT !.blocks = controlFile.blocks[i]]
  OBVIOUS
<1> HIDE DEF F, D
<1>4. ASSUME NEW i \in D
      PROVE  /\ F[i] \in Rec /\ F[i].users = {} /\ F[i].useBlocks = {}
             /\ F[i].blocks = controlFile.blocks[i]
  <2>1. NewPiece \in Rec /\ NewPiece.users = {} /\ NewPiece.useBlocks = {}
    BY NewPieceIs
  <2> QED BY <1>1, <1>3, <2>1 DEF Rec, PieceRecord
<1>5. F \in PieceMap
  <2>1. F = [i \in D |-> [NewPiece EXCEPT !.blocks = controlFile.blocks[i]]]
    BY DEF F
  <2>2. F \in [D -> Rec]
    BY <1>3, <1>4, <2>1
  <2> QED BY <1>1, <2>2, MakeMap
<1>6. d \in [Piece -> [Offset -> Byte]]
  <2>1. \A i \in Piece : \A o \in Offset : ps.disk[i][o] \in Byte
    BY StorageFields
  <2>2. "none" \in Byte
    BY DEF Byte
  <2> QED BY <2>1, <2>2
<1>7. ps.failures \in 0 .. MaxDiskFailures
  BY StorageFields
<1> HIDE DEF d
<1>8. t \in Storage /\ t.use = {} /\ t.pieces = F /\ t.have = controlFile.have
  BY <1>1, <1>2, <1>5, <1>6, <1>7, InitStorageIs DEF Storage
<1>9. DOMAIN t.pieces = D /\ \A i \in D : t.pieces[i] = F[i]
  BY <1>3, <1>8
<1>10. Weak(t)
  BY <1>1, <1>4, <1>8, <1>9 DEF Weak
<1> QED BY <1>4, <1>8, <1>9, <1>10

\* The process starts again.
LEMMA StartKeeps ==
    ASSUME BooksInv, Start
    PROVE  BooksInv'
<1>1. Typed /\ FilesOK /\ DownIsEmpty /\ \A x \in Peer : InTargets(peer[x])
  BY DEF BooksInv
<1>2. /\ ~up /\ up' = TRUE /\ ps' = Loaded
      /\ segs' = segs /\ memo' = memo /\ con' = con /\ session' = session
      /\ halted' = halted /\ peer' = peer /\ controlFile' = controlFile
      /\ lastDigest' = lastDigest /\ saveFailures' = saveFailures
  BY DEF Start, streamVars
<1>3. FileOK(controlFile) /\ ps \in Storage
  BY <1>1 DEF FilesOK, Typed
<1>4. /\ ps' \in Storage /\ Weak(ps') /\ ps'.use = {}
      /\ \A i \in DOMAIN ps'.pieces : ps'.pieces[i].users = {} /\ ps'.pieces[i].useBlocks = {}
  BY <1>2, <1>3, LoadedIs
<1>5. segs = <<>> /\ peer = [p \in Peer |-> NewPeer]
  BY <1>1, <1>2 DEF DownIsEmpty
<1>6. Books(ps', segs, peer, {})
  BY <1>4, <1>5, UnusedBooks
<1>7. Idle(segs, con)
  BY <1>5, EmptyMaps DEF Idle
<1>8. Typed'
  BY <1>1, <1>2, <1>4 DEF Typed
<1>9. FilesOK' /\ DownIsEmpty'
  BY <1>1, <1>2 DEF FilesOK, DownIsEmpty
<1>10. Books(ps', segs', peer', {}) /\ Idle(segs', con')
  BY <1>2, <1>6, <1>7
<1>11. InOrder'
  BY <1>10 DEF InOrder
<1>12. \A x \in Peer : InTargets(peer'[x])
  BY <1>1, <1>2
<1> QED BY <1>4, <1>8, <1>9, <1>11, <1>12 DEF BooksInv

\* What storage t has after it has been loaded from control file f, the file
\* being that of storage s.
LoadedFrom(f, s, t) ==
    /\ t.have = f.have /\ DOMAIN t.pieces = DOMAIN f.blocks
    /\ t.endGame = FALSE /\ t.failures = s.failures
    /\ \A i \in DOMAIN f.blocks :
         /\ t.pieces[i].blocks = f.blocks[i] /\ t.pieces[i].nextBegin = 0
         /\ t.pieces[i].cells = Nothing /\ t.pieces[i].error = FALSE
    /\ \A i \in Piece : \A o \in Offset :
         t.disk[i][o] = IF Recorded(f, i, o) THEN s.disk[i][o] ELSE "none"

\* The data of a storage that has been loaded.
LEMMA LoadedData ==
    ASSUME NEW t, t = Loaded
    PROVE  LoadedFrom(controlFile, ps, t)
<1> DEFINE D == DOMAIN controlFile.blocks
           F == [i \in D |-> [NewPiece EXCEPT !.blocks = controlFile.blocks[i]]]
           d == [i \in Piece |-> [o \in Offset |->
                   IF Recorded(controlFile, i, o) THEN ps.disk[i][o] ELSE "none"]]
<1>1. t = [InitStorage EXCEPT !.have = controlFile.have, !.pieces = F, !.disk = d,
                              !.failures = ps.failures]
  BY DEF Loaded
<1>2. /\ DOMAIN F = D
      /\ \A i \in D : F[i] = [NewPiece EXCEPT !.blocks = controlFile.blocks[i]]
  OBVIOUS
<1>3. \A i \in Piece : \A o \in Offset :
         d[i][o] = IF Recorded(controlFile, i, o) THEN ps.disk[i][o] ELSE "none"
  OBVIOUS
<1> HIDE DEF F, d, D
<1>4. /\ t.have = controlFile.have /\ t.pieces = F /\ t.disk = d
      /\ t.endGame = FALSE /\ t.failures = ps.failures
  BY <1>1 DEF InitStorage
<1>5. ASSUME NEW i \in D
      PROVE  /\ F[i].blocks = controlFile.blocks[i] /\ F[i].nextBegin = 0
             /\ F[i].cells = Nothing /\ F[i].error = FALSE
  BY <1>2 DEF NewPiece
<1>6. /\ DOMAIN t.pieces = D
      /\ \A i \in D : /\ t.pieces[i].blocks = controlFile.blocks[i] /\ t.pieces[i].nextBegin = 0
                       /\ t.pieces[i].cells = Nothing /\ t.pieces[i].error = FALSE
  BY <1>2, <1>4, <1>5
<1>7. \A i \in Piece : \A o \in Offset :
         t.disk[i][o] = IF Recorded(controlFile, i, o) THEN ps.disk[i][o] ELSE "none"
  BY <1>3, <1>4
<1> QED BY <1>4, <1>6, <1>7 DEF LoadedFrom, D

\* A loaded storage is as clean as the file, and its pieces are where the
\* control file has them.
LEMMA LoadedSolid ==
    ASSUME NEW f, FileOK(f), NEW s \in Storage, Solid(s), OnRecord(f, s), NEW t \in Storage,
           LoadedFrom(f, s, t)
    PROVE  /\ Clean(t) /\ InSequence(t) /\ (t.endGame => P2P) /\ BlocksOnDisk(f, t)
           /\ s.failures = 0 => \A i \in DOMAIN t.pieces : PieceThere(t, i)
           /\ SureFile(s) => \A i \in f.have : \A o \in Offset : t.disk[i][o] = "good"
           /\ FileSorted(f)
<1>1. /\ f.have \in SUBSET Piece /\ DOMAIN f.blocks \in SUBSET Piece
      /\ \A i \in DOMAIN f.blocks : f.blocks[i] \in SUBSET Block
  BY DEF FileOK
<1>2. \A b \in Block : OffsetsOf(b) \in SUBSET Offset
  BY BlockOffsets
<1>3. \A o \in Offset : Nothing[o] = "none"
  BY DEF Nothing
<1>4. Tidy(t) /\ Faults(t)
  BY DEF LoadedFrom, Tidy, Faults
<1>5. NoBad(t)
  <2>1. SUFFICES ASSUME Honest
                 PROVE  /\ \A i \in Piece : \A o \in Offset : t.disk[i][o] # "bad"
                        /\ \A i \in DOMAIN t.pieces : \A o \in Offset : t.pieces[i].cells[o] # "bad"
    BY DEF NoBad
  <2>2. \A i \in Piece : \A o \in Offset : s.disk[i][o] # "bad"
    BY <2>1 DEF Solid, Clean, NoBad
  <2>3. ASSUME NEW i \in Piece, NEW o \in Offset PROVE t.disk[i][o] # "bad"
    BY <2>2 DEF LoadedFrom
  <2>4. ASSUME NEW i \in DOMAIN t.pieces, NEW o \in Offset PROVE t.pieces[i].cells[o] # "bad"
    BY <1>3 DEF LoadedFrom
  <2> QED BY <2>3, <2>4
<1>6. ASSUME s.failures = 0, NEW i \in DOMAIN f.blocks, NEW b \in f.blocks[i], NEW o \in OffsetsOf(b)
      PROVE  t.disk[i][o] # "none" /\ o \in Offset
  <2>1. s.disk[i][o] # "none"
    BY <1>6 DEF OnRecord, BlocksOnDisk
  <2>2. i \in Piece /\ b \in Block /\ o \in Offset
    BY <1>1, <1>2, <1>6
  <2>3. Recorded(f, i, o)
    BY <1>6 DEF Recorded
  <2>4. t.disk[i][o] = s.disk[i][o]
    BY <2>2, <2>3 DEF LoadedFrom
  <2> QED BY <2>1, <2>2, <2>4
<1>7. ASSUME s.failures = 0, NEW i \in DOMAIN t.pieces PROVE PieceThere(t, i)
  <2>1. i \in DOMAIN f.blocks /\ t.pieces[i].blocks = f.blocks[i] /\ t.pieces[i].cells = Nothing
    BY DEF LoadedFrom
  <2>2. ASSUME NEW b \in t.pieces[i].blocks, NEW o \in OffsetsOf(b) PROVE Seen(t, i, o) # "none"
    <3>1. t.disk[i][o] # "none" /\ o \in Offset
      BY <1>6, <1>7, <2>1, <2>2
    <3> QED BY <1>3, <2>1, <3>1 DEF Seen
  <2> QED BY <2>2 DEF PieceThere
<1>8. ASSUME SureFile(s), NEW i \in f.have, NEW o \in Offset PROVE t.disk[i][o] = "good"
  <2>1. i \in Piece /\ Recorded(f, i, o)
    BY <1>1 DEF Recorded
  <2>2. s.disk[i][o] = "good"
    BY <1>8 DEF OnRecord, PiecesOnDisk
  <2> QED BY <2>1, <2>2 DEF LoadedFrom
<1>9. FileSorted(f)
  BY DEF OnRecord
<1>10. InSequence(t) /\ (t.endGame => P2P)
  BY <1>9 DEF InSequence, FileSorted, LoadedFrom
<1>11. BlocksOnDisk(f, t)
  BY <1>6 DEF BlocksOnDisk, LoadedFrom
<1> QED BY <1>4, <1>5, <1>7, <1>8, <1>9, <1>10, <1>11 DEF Clean

\* A piece of which no digest has been begun.
LEMMA UndigestedIs ==
    ASSUME NEW t, NEW i, NEW mm, t.pieces[i].nextBegin = 0
    PROVE  Digested(t, i, mm)
<1>1. \A o \in Offset : ~(o < 0)
  BY OffsetIs
<1>2. \A b \in Block : At(b) \in Nat /\ At(b + 1) \in Nat /\ At(b + 1) > 0
  BY BlockPositions, Numbers
<1>3. \A b \in Block : ~Inside(0, b)
  BY <1>2 DEF Inside
<1>4. Prefix(t, i) /\ DoneBelow(t, i, 0)
  BY <1>1, <1>2 DEF Prefix, DoneBelow
<1> QED BY <1>3, <1>4 DEF Digested

\* The process starts again: the control file is believed.
LEMMA StartData ==
    ASSUME BooksInv, DataInv, Start
    PROVE  DataInv'
<1>1. /\ ~up /\ up' = TRUE /\ ps' = Loaded /\ starts' = starts + 1
      /\ segs' = segs /\ memo' = memo /\ con' = con /\ controlFile' = controlFile
  BY DEF Start, streamVars
<1>2. FileOK(controlFile) /\ ps \in Storage /\ Solid(ps) /\ OnRecord(controlFile, ps)
      /\ starts \in Nat
  BY DEF BooksInv, Typed, FilesOK, DataInv
<1>3. segs = <<>> /\ memo = <<>>
  BY <1>1 DEF BooksInv, DownIsEmpty, DataInv
<1>4. PICK t : t = ps'
  OBVIOUS
<1>5. t \in Storage /\ LoadedFrom(controlFile, ps, t)
  BY <1>1, <1>2, <1>4, LoadedIs, LoadedData
<1>6. PICK f : f = controlFile
  OBVIOUS
<1>7. /\ Clean(t) /\ InSequence(t) /\ (t.endGame => P2P) /\ BlocksOnDisk(f, t)
      /\ ps.failures = 0 => \A i \in DOMAIN t.pieces : PieceThere(t, i)
      /\ SureFile(ps) => \A i \in f.have : \A o \in Offset : t.disk[i][o] = "good"
      /\ FileSorted(f)
  BY <1>2, <1>5, <1>6, LoadedSolid
<1>8. starts' \in Nat /\ starts' # 0
  BY <1>1, <1>2
<1>9. Trusted(ps)' => ps.failures = 0
  BY <1>4, <1>5, <1>8 DEF Trusted, LoadedFrom
<1>10. Sure(ps)' => SureFile(ps)
  BY <1>8, <1>9 DEF Sure, SureFile, Trusted, Honest
<1>11. SureFile(ps)' => SureFile(ps)
  BY <1>9 DEF SureFile, Trusted, Honest
<1>12. t.have = f.have
  BY <1>5, <1>6 DEF LoadedFrom
<1>13. There(ps)'
  BY <1>4, <1>7, <1>9 DEF There
<1>14. Good(ps)'
  BY <1>4, <1>7, <1>10, <1>12 DEF Good
<1>15. Solid(ps)'
  BY <1>4, <1>7, <1>13, <1>14 DEF Solid
<1>16. OnRecord(controlFile, ps)'
  <2>1. BlocksOnDisk(controlFile', ps') /\ FileSorted(controlFile')
    BY <1>1, <1>4, <1>6, <1>7
  <2>2. PiecesOnDisk(controlFile, ps)'
    BY <1>1, <1>4, <1>6, <1>7, <1>11 DEF PiecesOnDisk
  <2> QED BY <2>1, <2>2 DEF OnRecord
<1>17. Owned(controlFile', ps')
  BY <1>1, <1>4, <1>6, <1>12 DEF Owned
<1>18. Tracked(ps, segs, memo)'
  <2>1. DOMAIN segs' = {} /\ DOMAIN memo' = {}
    BY <1>1, <1>3, EmptyMaps
  <2>2. MemoThere(ps, memo)' /\ SegsThere(ps, segs)'
    BY <2>1 DEF MemoThere, SegsThere
  <2>3. Ordered(ps', segs')
    BY <2>1 DEF Ordered
  <2>4. Digests(ps', segs', memo')
    <3>1. \A i \in DOMAIN t.pieces : t.pieces[i].nextBegin = 0
      BY <1>5 DEF LoadedFrom
    <3>2. \A mm : \A i \in DOMAIN t.pieces : Digested(t, i, mm)
      BY <3>1, UndigestedIs
    <3> QED BY <1>4, <2>1, <3>2 DEF Digests
  <2> QED BY <2>2, <2>3, <2>4 DEF Tracked
<1>19. Aligned(segs', con')
  BY <1>1, <1>3, EmptyMaps DEF Aligned, AlignedAt
<1> QED BY <1>1, <1>8, <1>15, <1>16, <1>17, <1>18, <1>19 DEF DataInv

\* The invariant of the data holds at the start.
LEMMA DataInit ==
    Init => DataInv
<1> SUFFICES ASSUME Init PROVE DataInv
  OBVIOUS
<1>1. /\ ps = InitStorage /\ segs = <<>> /\ memo = <<>> /\ up = TRUE
      /\ controlFile = NoFile /\ starts = 0
  BY DEF Init, StreamInit
<1>2. ps.have = {} /\ ps.pieces = <<>> /\ ps.endGame = FALSE /\ DOMAIN ps.pieces = {}
  BY <1>1, InitStorageIs, EmptyMaps DEF InitStorage
<1>3. \A i \in Piece : \A o \in Offset : ps.disk[i][o] = "none"
  BY <1>1 DEF InitStorage, Nothing
<1>4. Solid(ps)
  BY <1>2, <1>3 DEF Solid, Clean, Tidy, Faults, NoBad, There, Good, InSequence
<1>5. DOMAIN segs = {} /\ DOMAIN memo = {}
  BY <1>1, EmptyMaps
<1>6. Tracked(ps, segs, memo) /\ Aligned(segs, con)
  BY <1>2, <1>5 DEF Tracked, MemoThere, SegsThere, Digests, Ordered, Aligned, AlignedAt
<1>7. OnRecord(NoFile, ps) /\ Owned(NoFile, ps)
  BY RecordNone
<1> QED BY <1>1, <1>4, <1>6, <1>7 DEF DataInv

\* The books are in order in every state of the download, and what is known
\* of the data is true.
LEMMA BooksKept ==
    Spec => []BooksInv /\ []DataInv
<1>1. BooksInv /\ DataInv /\ [Next]_vars => BooksInv' /\ DataInv'
  <2> SUFFICES ASSUME BooksInv, DataInv, [Next]_vars PROVE BooksInv' /\ DataInv'
    OBVIOUS
  <2>1. CASE UNCHANGED vars
    <3>1. /\ ps' = ps /\ segs' = segs /\ memo' = memo /\ con' = con /\ session' = session
          /\ halted' = halted /\ peer' = peer /\ up' = up /\ controlFile' = controlFile
          /\ lastDigest' = lastDigest /\ saveFailures' = saveFailures /\ starts' = starts
      BY <2>1 DEF vars, streamVars
    <3>2. Typed' /\ FilesOK'
      BY <3>1 DEF BooksInv, Typed, FilesOK
    <3>3. DownIsEmpty' /\ InOrder'
      BY <3>1 DEF BooksInv, DownIsEmpty, InOrder
    <3>4. Weak(ps') /\ \A x \in Peer : InTargets(peer'[x])
      BY <3>1 DEF BooksInv
    <3>5. BooksInv'
      BY <3>2, <3>3, <3>4 DEF BooksInv
    <3>6. DataInv'
      BY <3>1 DEF DataInv, Solid, There, Good, Sure, Trusted, Honest, Tracked, MemoThere,
                  SegsThere, OnRecord, PiecesOnDisk, SureFile
    <3> QED BY <3>5, <3>6
  <2>2. CASE \E c \in Stream : StreamStep(c)
    BY <2>2, StreamStepKeeps
  <2>3. CASE \E p \in Peer : PeerStep(p)
    BY <2>3, PeerStepKeeps
  <2>4. CASE AutoSave
    BY <2>4, AutoSaveKeeps, AutoSaveData
  <2>5. CASE Stop
    BY <2>5, StopKeeps, StopData
  <2>6. CASE Crash
    BY <2>6, CrashKeeps, CrashData
  <2>7. CASE Start
    BY <2>7, StartKeeps, StartData
  <2> QED BY <2>1, <2>2, <2>3, <2>4, <2>5, <2>6, <2>7 DEF Next, Over
<1> QED BY <1>1, BooksInit, DataInit, PTL DEF Spec

(***************************************************************************)
(* What the books say of the download.                                     *)
(***************************************************************************)
\* Those who hold a piece, as the books have them.
LEMMA HoldersIs ==
    \A i : Holders(i) = HeldBy(segs, peer, i)
BY DEF Holders, HeldBy

\* A set of one member at most has no two.
LEMMA SingleCard ==
    ASSUME NEW h, Single(h) PROVE ~(Cardinality(h) > 1)
<1>1. CASE h = {}
  BY <1>1, FS_EmptySet
<1>2. CASE h # {}
  <2>1. PICK x : x \in h
    BY <1>2
  <2>2. h = {x}
    BY <2>1 DEF Single
  <2>3. Cardinality({x}) = 1
    BY FS_Singleton
  <2> QED BY <2>2, <2>3
<1> QED BY <1>1, <1>2

\* The type invariant of the download: storage, segments, connections, peers
\* and files keep their shapes through every step, crash and restart.
THEOREM TransferTyped == Spec => []TypeOK
<1>1. BooksInv => TypeOK
  <2> SUFFICES ASSUME BooksInv PROVE TypeOK
    OBVIOUS
  <2>1. IsStorage(ps, Stream \cup Peer)
    BY StorageTyped DEF BooksInv, Typed, Cuid
  <2>2. /\ DOMAIN segs \subseteq Stream
        /\ \A c \in DOMAIN segs : segs[c] \in [index: Piece, written: 0 .. PieceLength]
    BY DEF BooksInv, Typed, SegMap, SegRec
  <2>3. DOMAIN memo \subseteq Piece /\ \A i \in DOMAIN memo : memo[i] \in 0 .. PieceLength
    BY DEF BooksInv, Typed, MemoMap
  <2>4. StreamTypeOK
    BY <2>2, <2>3 DEF BooksInv, Typed, StreamTypeOK
  <2>5. PeerTypeOK /\ up \in BOOLEAN /\ saveFailures \in 0 .. MaxSaveFailures
    BY DEF BooksInv, Typed, PeerTypeOK
  <2>6. controlFile.have \subseteq Piece /\ lastDigest.have \subseteq Piece
    BY DEF BooksInv, FilesOK, FileOK
  <2> QED BY <2>1, <2>4, <2>5, <2>6 DEF TypeOK
<1> QED BY <1>1, BooksKept, PTL

\* The users and the use bit of a piece are the commands that work on it,
\* whatever was cancelled, completed, rejected or lost before, and two share
\* a piece only in end game and never with a stream: DefaultPieceStorage's
\* checkOutPiece, cancelPiece and completePiece keep usedPieces_ exact.
THEOREM HoldersCorrect == Spec => []PieceHolders
<1>1. BooksInv => PieceHolders
  <2> SUFFICES ASSUME BooksInv, up, ~halted
               PROVE  /\ ps.use = {i \in Piece : Holders(i) # {}} \ ps.have
                      /\ \A i \in Piece \ ps.have :
                           /\ i \in DOMAIN ps.pieces => ps.pieces[i].users = Holders(i)
                           /\ Holders(i) # {} => i \in DOMAIN ps.pieces
                           /\ Cardinality(Holders(i)) > 1 =>
                                 ps.endGame /\ Holders(i) \subseteq Peer
    BY DEF PieceHolders
  <2>1. ps \in Storage /\ segs \in SegMap /\ Books(ps, segs, peer, {})
    BY DEF BooksInv, InOrder, Typed
  <2>2. ps.use \in SUBSET Piece
    BY <2>1, StorageFields
  <2>3. \A i \in Piece : Booked(ps, i, Holders(i), Asked(peer, i), {})
    BY <2>1, HoldersIs DEF Books
  <2>4. ASSUME NEW i \in ps.use PROVE i \in Piece /\ Holders(i) # {} /\ i \notin ps.have
    BY <2>2, <2>3 DEF Booked
  <2>5. ASSUME NEW i \in Piece, i \notin ps.have, Holders(i) # {} PROVE i \in ps.use
    BY <2>3, <2>5 DEF Booked
  <2>6. ps.use = {i \in Piece : Holders(i) # {}} \ ps.have
    BY <2>4, <2>5
  <2>7. ASSUME NEW i \in Piece \ ps.have
        PROVE  /\ i \in DOMAIN ps.pieces => ps.pieces[i].users = Holders(i)
               /\ Holders(i) # {} => i \in DOMAIN ps.pieces
    BY <2>3 DEF Booked
  <2>8. ASSUME NEW i \in Piece \ ps.have, Cardinality(Holders(i)) > 1
        PROVE  ps.endGame /\ Holders(i) \subseteq Peer
    <3>1. ~Single(Holders(i))
      BY <2>8, SingleCard
    <3>2. ps.endGame /\ Holders(i) \cap Stream = {}
      BY <2>3, <3>1 DEF Booked
    <3>3. Holders(i) \subseteq Stream \cup Peer
      BY <2>1 DEF Holders, SegMap
    <3> QED BY <3>2, <3>3
  <2> QED BY <2>6, <2>7, <2>8
<1> QED BY <1>1, BooksKept, PTL

\* A piece in flight always lacks a block when a command may take it, so that
\* the assertion of PiecedSegment's constructor never fails.
THEOREM IncompleteCorrect == Spec => []InFlightIncomplete
<1>1. BooksInv => InFlightIncomplete
  BY DEF BooksInv, Weak, InFlightIncomplete
<1> QED BY <1>1, BooksKept, PTL

\* Outside end game a block is asked of one peer at a time, and the use bits
\* of a piece are the requests in flight: BtMessageDispatcher releases the
\* block of a slot that is choked away, rejected, timed out or answered, and
\* no other.
THEOREM AskedOnceCorrect == Spec => []BlockAskedOnce
<1>1. BooksInv => BlockAskedOnce
  <2> SUFFICES ASSUME BooksInv, up, ~halted, ~ps.endGame
               PROVE  /\ \A i \in DOMAIN ps.pieces : ps.pieces[i].useBlocks =
                            {b \in Block : \E p \in Peer : <<i, b>> \in peer[p].slots}
                      /\ \A p, r \in Peer : p # r => peer[p].slots \cap peer[r].slots = {}
    BY DEF BlockAskedOnce
  <2>1. /\ ps \in Storage /\ Books(ps, segs, peer, {}) /\ peer \in [Peer -> PeerRecord]
        /\ \A x \in Peer : InTargets(peer[x])
    BY DEF BooksInv, InOrder, Typed
  <2>2. ASSUME NEW i \in DOMAIN ps.pieces
        PROVE  ps.pieces[i].useBlocks = {b \in Block : \E p \in Peer : <<i, b>> \in peer[p].slots}
    <3>1. i \in Piece
      BY <2>1, StorageFields
    <3>2. Booked(ps, i, HeldBy(segs, peer, i), Asked(peer, i), {})
      BY <2>1, <3>1 DEF Books
    <3>3. ps.pieces[i].useBlocks = Asked(peer, i)
      BY <3>2 DEF Booked
    <3> QED BY <3>3 DEF Asked
  <2>3. ASSUME NEW p \in Peer, NEW r \in Peer, p # r, NEW x \in peer[p].slots \cap peer[r].slots
        PROVE  FALSE
    <3>1. x[1] \in peer[p].targets /\ x[1] \in peer[r].targets
      BY <2>1 DEF InTargets
    <3>2. x[1] \in Piece
      BY <2>1, <3>1, PeerFields
    <3>3. p \in HeldBy(segs, peer, x[1]) /\ r \in HeldBy(segs, peer, x[1])
      BY <3>1 DEF HeldBy
    <3>4. Booked(ps, x[1], HeldBy(segs, peer, x[1]), Asked(peer, x[1]), {})
      BY <2>1, <3>2 DEF Books
    <3>5. Single(HeldBy(segs, peer, x[1]))
      BY <3>4 DEF Booked
    <3> QED BY <2>3, <3>3, <3>5 DEF Single
  <2> QED BY <2>2, <2>3
<1> QED BY <1>1, BooksKept, PTL

(***************************************************************************)
(* The data.                                                               *)
(***************************************************************************)
\* What a segment counts as written is in the file or in the cache, as long
\* as no restart has forgotten a failed write: Segment::updateWrittenLength
\* counts after the write, SegmentMan::cancelSegmentInternal flushes the cache
\* before it memorizes the length, and a failed flush leaves its error behind.
THEOREM WrittenCorrect == Spec => [](Trusted(ps) => WrittenIsThere)
<1>1. BooksInv /\ DataInv => (Trusted(ps) => WrittenIsThere)
  <2> SUFFICES ASSUME BooksInv, DataInv, Trusted(ps), up, ~halted, NEW c \in DOMAIN segs,
                      ~ps.pieces[segs[c].index].error,
                      NEW o \in Offset, o < segs[c].written
               PROVE  Overlay(ps.disk[segs[c].index], ps.pieces[segs[c].index].cells)[o] # "none"
    BY DEF WrittenIsThere
  <2>1. WrittenTo(ps, segs[c].index, segs[c].written)
    BY DEF DataInv, Tracked, SegsThere
  <2>2. Seen(ps, segs[c].index, o) # "none"
    BY <2>1 DEF WrittenTo
  <2> QED BY <2>2 DEF Overlay, Seen
<1> QED BY <1>1, BooksKept, PTL

\* The blocks of a piece in flight that the control file has are in the file,
\* as long as no write has failed: BtPieceMessage and DownloadCommand write a
\* block before it is marked, and the cache is flushed before the save.
THEOREM BlocksRecorded == Spec => [](ps.failures = 0 => RecordedBlocksAreWritten)
<1>1. BooksInv /\ DataInv => (ps.failures = 0 => RecordedBlocksAreWritten)
  BY DEF DataInv, OnRecord, BlocksOnDisk, RecordedBlocksAreWritten
<1> QED BY <1>1, BooksKept, PTL

\* A piece marked done is in the file with the right bytes, if its hash has
\* been checked or if nobody sends wrong data and no failed write is
\* forgotten: the hash check of a piece in flight and the rewrite after it
\* fails see the same bytes as the file, whatever blocks come late.
THEOREM DoneCorrect == Spec => [](Sure(ps) => DoneIsGood)
<1>1. BooksInv /\ DataInv => (Sure(ps) => DoneIsGood)
  BY DEF DataInv, Solid, Good, DoneIsGood
<1> QED BY <1>1, BooksKept, PTL

\* What the control file records is in the file, at every moment at which the
\* process may be killed: BtPieceStorage flushes before
\* DefaultBtProgressInfoFile saves, and a piece is marked done after its last
\* byte has been written.
THEOREM RecordedCorrect == Spec => [](SureFile(ps) => RecordedIsOnDisk)
<1>1. BooksInv /\ DataInv => (SureFile(ps) => RecordedIsOnDisk)
  BY DEF DataInv, OnRecord, BlocksOnDisk, PiecesOnDisk, RecordedIsOnDisk,
         RecordedBlocksAreWritten
<1> QED BY <1>1, BooksKept, PTL

\* The bytes of a response go to their own position in the file, when no
\* peer fills blocks of the pieces that the servers send:
\* DownloadCommand::prepareForNextSegment goes on to the next segment only if
\* none of it is written, and gives the connection up otherwise.
THEOREM AlignedCorrect == Spec => [](Peer = {} => StreamAligned)
<1>1. BooksInv /\ DataInv => (Peer = {} => StreamAligned)
  <2> SUFFICES ASSUME BooksInv, DataInv, Peer = {}, up, ~halted, NEW c \in DOMAIN segs,
                      con[c].st = "receiving"
               PROVE  con[c].pos = segs[c].index * PieceLength + segs[c].written
    BY DEF StreamAligned
  <2>1. segs \in SegMap
    BY DEF BooksInv, Typed
  <2>2. c \in Stream
    BY <2>1, UseSegs
  <2>3. AlignedAt(segs, con, c)
    BY <2>2 DEF DataInv, Aligned
  <2> QED BY <2>3 DEF AlignedAt, Position
<1> QED BY <1>1, BooksKept, PTL

=============================================================================
