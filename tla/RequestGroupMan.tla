--------------------------- MODULE RequestGroupMan ---------------------------
(***************************************************************************)
(* The download queue of aria2: RequestGroupMan with the commands that     *)
(* drive it.  The program is one event loop; between two iterations of the *)
(* loop every command runs to completion, so each command is one action    *)
(* taken while pc = "commands".  Only FillRequestGroupCommand is taken     *)
(* apart (pc in {"remove", "fill", "return"}), because it loops over the   *)
(* queue, calls code that may fail at each element and may be left by an   *)
(* exception.  Signals arrive at any point.                                *)
(***************************************************************************)
EXTENDS RequestGroup, IndexedList, FiniteSets

CONSTANTS
    KeepRunning,        \* --enable-rpc: stay alive and serve RPC calls
    Methods,            \* the RPC methods the clients call
    Signals,            \* the signals the process may receive
    ConcurrencyLimits,  \* values --max-concurrent-downloads may be given
    InitialLimit,       \* its value at startup
    Optimize,           \* --optimize-concurrent-downloads
    CoeffA,             \* its coefficient A
    MaxDownloadResult,  \* --max-download-result
    KeepUnfinished,     \* --keep-unfinished-download-result
    DependsOn,          \* Metalink: the .torrent download a download waits for
    Seeders,            \* torrents run with --bt-detach-seed-only
    InitialGroups,      \* downloads given on the command line
    StartPaused,        \* downloads created with --pause
    DeferredInput,      \* entries of a --deferred-input file, in order
    BadEntry,           \* an entry of that file whose options do not parse
    Addable,            \* downloads clients may add
    FollowUps           \* downloads one finished download may bring about

ASSUME FiniteAssumption == IsFiniteSet(Gid)
ASSUME ManAssumption ==
    /\ KeepRunning \in BOOLEAN /\ Optimize \in BOOLEAN
    /\ KeepUnfinished \in BOOLEAN
    /\ ConcurrencyLimits \subseteq Nat \ {0}
    /\ InitialLimit \in ConcurrencyLimits
    /\ CoeffA \in Nat
    /\ MaxDownloadResult \in Nat
    /\ DependsOn \in [Gid -> Gid \cup {NoGid}]
    /\ Seeders \subseteq Gid /\ Addable \subseteq Gid
    /\ FollowUps \in Seq(Gid) /\ Distinct(FollowUps)
    /\ StartPaused \subseteq Gid
    /\ InitialGroups \in Seq(Gid) /\ Distinct(InitialGroups)
    /\ BadEntry \notin Gid
    /\ DeferredInput \in Seq(Gid \cup {BadEntry})
    /\ \A i, j \in DOMAIN DeferredInput :
         DeferredInput[i] = DeferredInput[j] /\ i # j => DeferredInput[i] = BadEntry
    /\ Keys(DeferredInput) \cap (Addable \cup Keys(FollowUps)) = {}
    /\ DeferredInput # <<>> => InitialGroups = <<>>

VARIABLES
    group,                      \* GID -> its RequestGroup
    reservedGroups,             \* the waiting queue
    requestGroups,              \* the active list
    numActive,                  \* active downloads that are not only seeding
    queueCheck,                 \* a queue check is requested
    maxConcurrentDownloads,
    downloadResults,            \* results kept for aria2.tellStopped
    unfinishedDownloadResults,  \* evicted results kept for the session file
    result,                     \* GID -> its result, "NONE" before it stops
    uriListParser,              \* entries of the deferred input not yet read
    pc,                         \* where the event loop is
    pending, count, num,        \* locals of fillRequestGroupFromReserver
    fillAlive,                  \* FillRequestGroupCommand is still queued
    haltRequested,              \* DownloadEngine: 0 no, 1 halt, 2 force halt
    globalHaltRequested,        \* the signal handler's variable
    timedHalt,                  \* TimedHaltCommands waiting (force or not)
    known,                      \* downloads that were created
    dropped,                    \* downloads a client removed from a list
    promise                     \* what clients were told would happen

queueVars == <<reservedGroups, requestGroups, numActive>>
resultVars == <<downloadResults, unfinishedDownloadResults, result>>
fillVars == <<pending, count, num>>
haltVars == <<haltRequested, globalHaltRequested, timedHalt>>
clientVars == <<known, dropped, promise>>
vars == <<group, queueVars, queueCheck, maxConcurrentDownloads, resultVars,
          uriListParser, pc, fillVars, fillAlive, haltVars, clientVars>>

\* The promises made to clients about a download: it is paused, it will be
\* removed, its options were changed.
Promise == [pause : BOOLEAN, remove : BOOLEAN, option : SUBSET Opts]

\* --pause only counts when RPC can resume the download.
CreatedPaused(g) == KeepRunning /\ g \in StartPaused

Init ==
    /\ group = [g \in Gid |-> NewGroup(CreatedPaused(g), DependsOn[g])]
    /\ reservedGroups = InitialGroups
    /\ requestGroups = <<>>
    /\ numActive = 0
    /\ queueCheck = TRUE
    /\ maxConcurrentDownloads = InitialLimit
    /\ downloadResults = <<>>
    /\ unfinishedDownloadResults = {}
    /\ result = [g \in Gid |-> "NONE"]
    /\ uriListParser = DeferredInput
    /\ pc = "commands"
    /\ pending = <<>> /\ count = 0 /\ num = 0
    /\ fillAlive = TRUE
    /\ haltRequested = 0
    /\ globalHaltRequested = 0
    /\ timedHalt = <<>>
    /\ known = Keys(InitialGroups)
    /\ dropped = {}
    /\ promise = [g \in Gid |->
         [pause |-> CreatedPaused(g), remove |-> FALSE, option |-> {}]]

-----------------------------------------------------------------------------
(* Queries *)

\* Nothing is left to do and nobody can add more.
AllFinished ==
    ~KeepRunning /\ requestGroups = <<>> /\ reservedGroups = <<>>

\* Fault: the dependency is not looked at.
DependencyIgnored(g) == TRUE

\* BtDependency::resolve: the dependee has no commands (any more).
DependencyResolved(g) ==
    LET d == group[g].dependee IN d # NoGid => group[d].numCommand = 0

\* Fault: the pause request is not looked at.
HeldByDependency(g) == ~DependencyResolved(g)

\* The queue passes over a download that is paused or waits for its torrent.
Held(g) ==
    (KeepRunning /\ group[g].pauseRequested) \/ ~DependencyResolved(g)

\* A torrent file downloaded on behalf of another download (belongsTo != 0).
BelongsToOther(g) == \E h \in Gid : DependsOn[h] = g

\* The limit fillRequestGroupFromReserver works with.  Before a speed was
\* measured optimizeConcurrentDownloads() returns coefficient A as it is.
FillLimits ==
    IF Optimize THEN {CoeffA} \cup 1..maxConcurrentDownloads
                ELSE {maxConcurrentDownloads}

-----------------------------------------------------------------------------
(* Commands of a download: AbstractCommand and its subclasses.  A command  *)
(* counts in numCommand from its constructor to its destructor, and the    *)
(* destructor of the last one requests a queue check.                      *)

CommandRuns(g) ==
    /\ pc = "commands"
    /\ group[g].numCommand > 0

UnchangedByCommand ==
    UNCHANGED <<reservedGroups, requestGroups, maxConcurrentDownloads,
                resultVars, uriListParser, pc, fillVars, fillAlive, haltVars,
                clientVars>>

\* Fault: the command and its destructor both count it out.
DecreaseTwice(rg) == [rg EXCEPT !.numCommand = @ - 2]

\* The record of a download after one of its commands was destroyed.
DecreaseNumCommand(rg) == [rg EXCEPT !.numCommand = @ - 1]

\* Fault: the count is tested before it is decreased.
LastCommandEarly(g) == group[g].numCommand = 0

LastCommand(g) == group[g].numCommand = 1

\* A command ends: the download is finished or halted, or there is no
\* segment left for it.
CommandExit(g) ==
    /\ CommandRuns(g)
    /\ group' = [group EXCEPT ![g] = DecreaseNumCommand(@)]
    /\ queueCheck' = (queueCheck \/ LastCommand(g))
    /\ UNCHANGED numActive
    /\ UnchangedByCommand

\* A running command checks first that its download is neither finished nor
\* halted.
Works(g) ==
    CommandRuns(g) /\ ~group[g].haltRequested /\ ~DownloadFinished(group[g])

\* DlAbortEx, or DlRetryEx after the last try: the error is recorded and
\* tryReserved() may put another command in this one's place.
CommandAbort(g) ==
    /\ Works(g)
    /\ \/ /\ group' = [group EXCEPT ![g] =
               DecreaseNumCommand([@ EXCEPT !.lastErrorCode = "ERROR"])]
          /\ queueCheck' = (queueCheck \/ LastCommand(g))
       \/ /\ group' = [group EXCEPT ![g].lastErrorCode = "ERROR"]
          /\ UNCHANGED queueCheck
    /\ UNCHANGED numActive
    /\ UnchangedByCommand

\* DownloadFailureException: the whole download is given up.
CommandFailure(g) ==
    /\ Works(g)
    /\ group' = [group EXCEPT ![g] =
         DecreaseNumCommand(SetHaltRequested([@ EXCEPT !.lastErrorCode = "ERROR"],
                                             TRUE, "SHUTDOWN_SIGNAL"))]
    /\ queueCheck' = (queueCheck \/ LastCommand(g))
    /\ UNCHANGED numActive
    /\ UnchangedByCommand

\* createNextCommand: another connection is opened.
CommandSpawn(g) ==
    /\ Works(g)
    /\ group[g].numCommand < MaxCommand
    /\ group' = [group EXCEPT ![g].numCommand = @ + 1]
    /\ UNCHANGED <<numActive, queueCheck>>
    /\ UnchangedByCommand

\* The server's answer tells the length: initPieceStorage().
CommandInitStorage(g) ==
    /\ Works(g)
    /\ group[g].storage = "none"
    /\ group' = [group EXCEPT ![g].storage = "partial"]
    /\ UNCHANGED <<numActive, queueCheck>>
    /\ UnchangedByCommand

\* RequestGroup::enableSeedOnly: a detached seeder gives its slot back.
SeedOnlyEnabled(g) == g \in Seeders /\ ~group[g].seedOnly

Completed(g) ==
    [group[g] EXCEPT !.storage = "finished",
                     !.seedOnly = @ \/ SeedOnlyEnabled(g)]

\* The last piece is completed; a torrent turns into a seeder.
CommandComplete(g) ==
    /\ Works(g)
    /\ group[g].storage = "partial"
    /\ group' = [group EXCEPT ![g] = Completed(g)]
    /\ numActive' = IF SeedOnlyEnabled(g) THEN numActive - 1 ELSE numActive
    /\ queueCheck' = (queueCheck \/ SeedOnlyEnabled(g))
    /\ UnchangedByCommand

-----------------------------------------------------------------------------
(* FillRequestGroupCommand and RequestGroupMan::fillRequestGroupFromReserver *)

UnchangedByFill ==
    UNCHANGED <<maxConcurrentDownloads, haltVars, dropped, promise>>

\* The command is executed: it exits once a halt is requested, and starts
\* a pass over the queue when a check is requested.
FillExecute ==
    /\ pc = "commands"
    /\ fillAlive
    /\ \/ /\ haltRequested > 0
          /\ fillAlive' = FALSE
          /\ UNCHANGED <<queueCheck, pc>>
       \/ /\ haltRequested = 0
          /\ queueCheck
          /\ queueCheck' = FALSE
          /\ pc' = "remove"
          /\ UNCHANGED fillAlive
    /\ UNCHANGED <<group, queueVars, resultVars, uriListParser, fillVars, known>>
    /\ UnchangedByFill

\* Fault: only a download with an error code is thought to be unfinished.
KeptOnError(g, r) == KeepUnfinished /\ ~BelongsToOther(g) /\ r = "ERROR"

\* An evicted result the session file needs.
KeptForSession(g, r) ==
    KeepUnfinished /\ ~BelongsToOther(g) /\ r \notin {"FINISHED", "REMOVED"}

\* addDownloadResult: the oldest results beyond --max-download-result go;
\* an unfinished one may be kept for the session file.
AddDownloadResult(g, r) ==
    LET added == PushBack(downloadResults, g)
        evict == Len(added) > MaxDownloadResult
        old == added[1]
        oldResult == IF old = g THEN r ELSE result[old]
    IN /\ result' = [result EXCEPT ![g] = r]
       /\ downloadResults' = IF evict THEN EraseAt(added, 1) ELSE added
       /\ unfinishedDownloadResults' =
            IF evict /\ KeptForSession(old, oldResult)
            THEN unfinishedDownloadResults \cup {old}
            ELSE unfinishedDownloadResults

\* Fault: the pending options are dropped at the restart.
OptionsForgotten(rg) == rg.option

\* The options of a stopped download with the pending ones merged in.
OptionsMerged(rg) == rg.option \cup rg.pendingOption

\* A download that goes back to the queue is no longer halted, and no longer
\* paused if it was asked to restart.
Requeued(rg) ==
    [SetForceHaltRequested(ReleaseRuntimeResource(rg), FALSE, "NONE")
        EXCEPT !.state = "WAITING",
               !.option = OptionsMerged(rg),
               !.pauseRequested = ~rg.restartRequested,
               !.restartRequested = FALSE,
               !.pendingOption = {}]

\* A stopped download that was asked to pause goes to the front of the queue.
StopPaused(g) ==
    /\ reservedGroups' = PushFront(reservedGroups, g)
    /\ group' = [group EXCEPT ![g] = Requeued(group[g])]
    /\ UNCHANGED <<queueCheck, resultVars, known>>

Ended(rg) ==
    [ReleaseRuntimeResource(rg) EXCEPT !.restartRequested = FALSE,
                                       !.pendingOption = {}]

\* Any other stopped download gets its result; a finished one (a Metalink
\* or torrent file) may bring about downloads, which go to the front of the
\* queue.
StopForGood(g) ==
    /\ \/ UNCHANGED <<reservedGroups, queueCheck, known>>
       \/ /\ DownloadFinished(group[g])
          /\ FollowUps # <<>> /\ Keys(FollowUps) \cap known = {}
          /\ reservedGroups' = FollowUps \o reservedGroups
          /\ queueCheck' = TRUE
          /\ known' = known \cup Keys(FollowUps)
    /\ AddDownloadResult(g, DownloadResult(group[g]))
    /\ group' = [group EXCEPT ![g] = Ended(group[g])]

\* decreaseNumActive, which a detached seeder has done before.
NumActiveAfterStop(g) == IF group[g].seedOnly THEN numActive ELSE numActive - 1

\* Fault: a halted download is reaped before its commands are gone.
StoppedWhenHalted(g) == group[g].numCommand = 0 \/ group[g].haltRequested

Stopped(g) == group[g].numCommand = 0

\* ProcessStoppedRequestGroup on the first download without commands.
ProcessStopped(i) ==
    LET g == requestGroups[i]
    IN /\ Stopped(g)
       /\ \A j \in 1..(i - 1) : ~Stopped(requestGroups[j])
       /\ numActive' = NumActiveAfterStop(g)
       /\ requestGroups' = EraseAt(requestGroups, i)
       /\ IF group[g].pauseRequested THEN StopPaused(g) ELSE StopForGood(g)
       /\ UNCHANGED <<uriListParser, pc, fillVars, fillAlive>>
       /\ UnchangedByFill

AllReaped == \A i \in DOMAIN requestGroups : ~Stopped(requestGroups[i])

RemoveStoppedGroup ==
    /\ pc \in {"remove", "finalRemove"}
    /\ \E i \in DOMAIN requestGroups : ProcessStopped(i)

\* Fault: one download too many is started.
FillOneMore(limit) == limit - numActive + 1

\* How many downloads a pass may start.
FillCount(limit) == limit - numActive

\* A pass starts downloads only below the limit.
FillBegin ==
    /\ pc = "remove"
    /\ AllReaped
    /\ \E limit \in FillLimits :
         IF limit <= numActive
         THEN pc' = "return" /\ UNCHANGED <<count, num>>
         ELSE pc' = "fill" /\ count' = 0 /\ num' = FillCount(limit)
    /\ UNCHANGED <<group, queueVars, queueCheck, resultVars, uriListParser,
                   pending, fillAlive, known>>
    /\ UnchangedByFill

Looping ==
    pc = "fill" /\ count < num /\ (uriListParser # <<>> \/ reservedGroups # <<>>)

\* The queue ran dry: the next entry of the deferred input is read.  An entry
\* that does not parse throws out of the function, to FillRequestGroupCommand,
\* which requests another check.  The GID of a new download is new.
FillParse ==
    /\ Looping
    /\ reservedGroups = <<>>
    /\ LET h == Head(uriListParser)
       IN IF h = BadEntry
          THEN /\ queueCheck' = TRUE
               /\ pc' = "return"
               /\ pending' = <<>>
               /\ UNCHANGED <<reservedGroups, known>>
          ELSE /\ h \notin known
               /\ reservedGroups' = PushBack(reservedGroups, h)
               /\ known' = known \cup {h}
               /\ UNCHANGED <<queueCheck, pc, pending>>
    /\ uriListParser' = Tail(uriListParser)
    /\ UNCHANGED <<group, requestGroups, numActive, resultVars, count, num,
                   fillAlive>>
    /\ UnchangedByFill

\* A paused download, or one whose torrent is being fetched, is set aside.
FillSkip ==
    /\ Looping
    /\ reservedGroups # <<>>
    /\ Held(reservedGroups[1])
    /\ pending' = Append(pending, reservedGroups[1])
    /\ reservedGroups' = EraseAt(reservedGroups, 1)
    /\ UNCHANGED <<group, requestGroups, numActive, queueCheck, resultVars,
                   uriListParser, pc, count, num, fillAlive, known>>
    /\ UnchangedByFill

\* The record of a download once it is made active: its old piece storage is
\* dropped, its dependency cut.
Activated(rg) ==
    [rg EXCEPT !.state = "ACTIVE", !.storage = "none", !.dependee = NoGid]

Launched(rg, n, s, seed) ==
    [Activated(rg) EXCEPT !.numCommand = rg.numCommand + n, !.storage = s,
                          !.seedOnly = rg.seedOnly \/ seed]

\* createInitialCommand succeeded: n commands, with the pieces that the
\* control file and the existing file give.  A complete torrent starts
\* seeding at once.  No command in the returned list requests a check (n
\* may still count an entry queued for hash checking).
Started(g) ==
    \E n \in 0..MaxCommand, s \in Storage, empty \in BOOLEAN :
        LET seed == s = "finished" /\ n > 0 /\ SeedOnlyEnabled(g)
        IN /\ n = 0 => empty /\ s = "finished"
           /\ group[g].numCommand + n <= MaxCommand
           /\ group' = [group EXCEPT ![g] = Launched(group[g], n, s, seed)]
           /\ numActive' = IF seed THEN numActive ELSE numActive + 1
           /\ queueCheck' = (queueCheck \/ empty \/ seed)
           /\ count' = count + 1

\* createInitialCommand threw: the download stays in the active list, to be
\* reaped in the next pass; it does not count as started.
StartFailed(g) ==
    /\ group' = [group EXCEPT ![g] =
         [Activated(group[g]) EXCEPT !.lastErrorCode = "ERROR"]]
    /\ numActive' = numActive + 1
    /\ queueCheck' = TRUE
    /\ UNCHANGED count

FillStart ==
    /\ Looping
    /\ reservedGroups # <<>>
    /\ LET g == reservedGroups[1]
       IN /\ ~Held(g)
          /\ reservedGroups' = EraseAt(reservedGroups, 1)
          /\ requestGroups' = PushBack(requestGroups, g)
          /\ Started(g) \/ StartFailed(g)
    /\ UNCHANGED <<resultVars, uriListParser, pc, pending, num, fillAlive, known>>
    /\ UnchangedByFill

\* Fault: what was set aside is forgotten.
ReturnNothing == reservedGroups

\* What was set aside goes back to the front.
ReturnPending == pending \o reservedGroups

\* The loop is over.
FillEnd ==
    /\ pc = "fill"
    /\ ~Looping
    /\ reservedGroups' = ReturnPending
    /\ pending' = <<>>
    /\ pc' = "return"
    /\ UNCHANGED <<group, requestGroups, numActive, queueCheck, resultVars,
                   uriListParser, count, num, fillAlive, known>>
    /\ UnchangedByFill

\* Back in FillRequestGroupCommand: again while a check is requested.
FillReturn ==
    /\ pc = "return"
    /\ IF queueCheck
       THEN pc' = "remove" /\ queueCheck' = FALSE /\ UNCHANGED fillAlive
       ELSE pc' = "commands" /\ fillAlive' = ~AllFinished /\ UNCHANGED queueCheck
    /\ count' = 0 /\ num' = 0
    /\ UNCHANGED <<group, queueVars, resultVars, uriListParser, pending, known>>
    /\ UnchangedByFill

\* With --optimize-concurrent-downloads the command requests a check about
\* every second.
FillPeriodicCheck ==
    /\ pc = "commands"
    /\ fillAlive /\ Optimize /\ haltRequested = 0
    /\ queueCheck' = TRUE
    /\ UNCHANGED <<group, queueVars, resultVars, uriListParser, pc, fillVars,
                   fillAlive, known>>
    /\ UnchangedByFill

-----------------------------------------------------------------------------
(* RPC methods.  The commands that serve RPC exit once a halt is requested. *)

Rpc(method) ==
    /\ KeepRunning
    /\ method \in Methods
    /\ pc = "commands"
    /\ haltRequested = 0

UnchangedByRpc ==
    UNCHANGED <<requestGroups, numActive, unfinishedDownloadResults, result,
                uriListParser, pc, fillVars, fillAlive, haltRequested,
                globalHaltRequested>>

UnchangedByGroupCall ==
    /\ UNCHANGED <<maxConcurrentDownloads, downloadResults, timedHalt>>
    /\ UnchangedByRpc

Managed == Keys(requestGroups) \cup Keys(reservedGroups)

\* addUri, addTorrent, addMetalink: at the end or at a position, paused or not.
Add(g, pos, pause) ==
    /\ Rpc("add")
    /\ g \in Addable \ known
    /\ queueCheck' = TRUE
    /\ reservedGroups' =
         Insert(reservedGroups,
                IF pos > Len(reservedGroups) THEN Len(reservedGroups) ELSE pos, g)
    /\ group' = [group EXCEPT ![g].pauseRequested = pause]
    /\ promise' = [promise EXCEPT ![g].pause = pause]
    /\ known' = known \cup {g}
    /\ UNCHANGED dropped
    /\ UnchangedByGroupCall

\* remove and forceRemove.
RemoveActive(g, force) ==
    /\ Rpc("remove")
    /\ g \in Managed /\ group[g].state = "ACTIVE"
    /\ group' = [group EXCEPT ![g] =
         IF force THEN SetForceHaltRequested(group[g], TRUE, "USER_REQUEST")
                  ELSE SetHaltRequested(group[g], TRUE, "USER_REQUEST")]
    /\ promise' = [promise EXCEPT ![g].remove = TRUE]
    /\ UNCHANGED <<reservedGroups, queueCheck, known, dropped>>
    /\ UnchangedByGroupCall

RemoveWaiting(g) ==
    /\ Rpc("remove")
    /\ g \in Managed /\ group[g].state = "WAITING"
    /\ DependencyResolved(g)
    /\ group' = [group EXCEPT ![g].dependee = NoGid]
    /\ reservedGroups' = Remove(reservedGroups, g)
    /\ dropped' = dropped \cup {g}
    /\ UNCHANGED <<queueCheck, known, promise>>
    /\ UnchangedByGroupCall

\* pause and forcePause of one download.
Pause(g, force) ==
    LET reserved == group[g].state = "WAITING"
    IN /\ Rpc("pause")
       /\ g \in Managed
       /\ PauseAccepted(group[g], reserved, force)
       /\ group' = [group EXCEPT ![g] = PauseRequestGroup(@, reserved, force)]
       /\ promise' = [promise EXCEPT ![g].pause = TRUE]
       /\ UNCHANGED <<reservedGroups, queueCheck, known, dropped>>
       /\ UnchangedByGroupCall

\* pauseAll and forcePauseAll.
PauseAll(force) ==
    /\ Rpc("pauseAll")
    /\ group' = [g \in Gid |->
         IF g \in Keys(requestGroups)
         THEN PauseRequestGroup(group[g], FALSE, force)
         ELSE IF g \in Keys(reservedGroups)
         THEN PauseRequestGroup(group[g], TRUE, force)
         ELSE group[g]]
    /\ promise' = [g \in Gid |->
         [promise[g] EXCEPT !.pause =
            \/ @
            \/ /\ g \in Managed
               /\ PauseAccepted(group[g], g \notin Keys(requestGroups), force)]]
    /\ UNCHANGED <<reservedGroups, queueCheck, known, dropped>>
    /\ UnchangedByGroupCall

Unpause(g) ==
    /\ Rpc("unpause")
    /\ g \in Managed
    /\ group[g].state = "WAITING" /\ group[g].pauseRequested
    /\ group' = [group EXCEPT ![g].pauseRequested = FALSE]
    /\ promise' = [promise EXCEPT ![g].pause = FALSE]
    /\ queueCheck' = TRUE
    /\ UNCHANGED <<reservedGroups, known, dropped>>
    /\ UnchangedByGroupCall

UnpauseAll ==
    /\ Rpc("unpauseAll")
    /\ group' = [g \in Gid |->
         IF g \in Keys(reservedGroups)
         THEN [group[g] EXCEPT !.pauseRequested = FALSE] ELSE group[g]]
    /\ promise' = [g \in Gid |->
         IF g \in Keys(reservedGroups)
         THEN [promise[g] EXCEPT !.pause = FALSE] ELSE promise[g]]
    /\ queueCheck' = TRUE
    /\ UNCHANGED <<reservedGroups, known, dropped>>
    /\ UnchangedByGroupCall

\* An option that an active download takes at a restart is left pending, and
\* the download is paused to be restarted unless it has been told to stop or
\* pause already.
OptionChanged(rg, o) ==
    IF rg.state = "ACTIVE"
    THEN [PauseRequestGroup(rg, FALSE, FALSE) EXCEPT
            !.pendingOption = {o},
            !.restartRequested = rg.restartRequested \/ PauseAccepted(rg, FALSE, FALSE)]
    ELSE [rg EXCEPT !.option = rg.option \cup {o}]

\* changeOption.
ChangeOption(g, o) ==
    /\ Rpc("changeOption")
    /\ g \in Managed
    /\ group' = [group EXCEPT ![g] = OptionChanged(group[g], o)]
    /\ promise' = [promise EXCEPT ![g].option = @ \cup {o}]
    /\ UNCHANGED <<reservedGroups, queueCheck, known, dropped>>
    /\ UnchangedByGroupCall

\* changeUri with a new URI: a download that has a piece storage gets the
\* connections it may still open.
ChangeUri(g, n) ==
    /\ Rpc("changeUri")
    /\ g \in Managed
    /\ group[g].storage # "none"
    /\ n \in 0..(MaxCommand - group[g].numCommand)
    /\ group' = [group EXCEPT ![g].numCommand = @ + n]
    /\ UNCHANGED <<reservedGroups, queueCheck, clientVars>>
    /\ UnchangedByGroupCall

ChangePosition(g, pos, how) ==
    /\ Rpc("changePosition")
    /\ g \in Keys(reservedGroups)
    /\ reservedGroups' = Move(reservedGroups, g, pos, how)
    /\ UNCHANGED <<group, queueCheck, clientVars>>
    /\ UnchangedByGroupCall

\* changeGlobalOption of max-concurrent-downloads.
ChangeMaxConcurrentDownloads(limit) ==
    /\ Rpc("changeGlobalOption")
    /\ maxConcurrentDownloads' = limit
    /\ queueCheck' = TRUE
    /\ UNCHANGED <<group, reservedGroups, downloadResults, timedHalt, clientVars>>
    /\ UnchangedByRpc

\* removeDownloadResult and purgeDownloadResult.
RemoveResults(gids) ==
    /\ Rpc("removeResult")
    /\ gids # {}
    /\ \/ gids = Keys(downloadResults) /\ downloadResults' = <<>>
       \/ \E g \in Keys(downloadResults) :
            gids = {g} /\ downloadResults' = Remove(downloadResults, g)
    /\ dropped' = dropped \cup gids
    /\ UNCHANGED <<group, reservedGroups, queueCheck, maxConcurrentDownloads,
                   timedHalt, known, promise>>
    /\ UnchangedByRpc

\* shutdown and forceShutdown schedule a TimedHaltCommand.
Shutdown(force) ==
    /\ Rpc("shutdown")
    /\ \A i \in DOMAIN timedHalt : timedHalt[i] # force
    /\ timedHalt' = Append(timedHalt, force)
    /\ UNCHANGED <<group, reservedGroups, queueCheck, maxConcurrentDownloads,
                   downloadResults, clientVars>>
    /\ UnchangedByRpc

-----------------------------------------------------------------------------
(* Halting the engine *)

UnchangedByHalt ==
    UNCHANGED <<queueVars, queueCheck, maxConcurrentDownloads, resultVars,
                uriListParser, fillVars, fillAlive, clientVars>>

\* Fault: the engine halts without telling the downloads.
HaltEngineOnly(force) ==
    /\ haltRequested' = IF force THEN 2 ELSE IF haltRequested = 2 THEN 2 ELSE 1
    /\ UNCHANGED group

\* requestHalt and requestForceHalt: every active download is told to stop.
RequestHalt(force) ==
    LET level == IF force THEN 2 ELSE 1
    IN /\ haltRequested' = IF haltRequested > level THEN haltRequested ELSE level
       /\ group' = [g \in Gid |->
            IF g \notin Keys(requestGroups) THEN group[g]
            ELSE IF force
            THEN SetForceHaltRequested(group[g], TRUE, "SHUTDOWN_SIGNAL")
            ELSE SetHaltRequested(group[g], TRUE, "SHUTDOWN_SIGNAL")]

\* TimedHaltCommand: halts after its time, unless a halt is already under way.
TimedHaltFires ==
    /\ pc = "commands"
    /\ timedHalt # <<>>
    /\ timedHalt' = Tail(timedHalt)
    /\ IF haltRequested > 0
       THEN UNCHANGED <<haltRequested, group>>
       ELSE RequestHalt(Head(timedHalt))
    /\ UNCHANGED <<globalHaltRequested, pc>>
    /\ UnchangedByHalt

\* The signal handler; it interrupts the loop anywhere.
ReceiveSignal(signal) ==
    /\ pc # "exited"
    /\ signal \in Signals
    /\ \/ /\ signal = "SIGTERM"
          /\ globalHaltRequested' =
               IF globalHaltRequested <= 2 THEN 3 ELSE globalHaltRequested
       \/ /\ signal = "SIGINT"
          /\ globalHaltRequested' = CASE globalHaltRequested = 0 -> 1
                                      [] globalHaltRequested = 2 -> 3
                                      [] OTHER -> globalHaltRequested
    /\ globalHaltRequested' # globalHaltRequested
    /\ UNCHANGED <<group, haltRequested, timedHalt, pc>>
    /\ UnchangedByHalt

\* afterEachIteration: it tests the handler's variable, halts, and only then
\* stores the value that says so; the handler may run in between.
AfterEachIteration ==
    /\ pc = "commands"
    /\ \/ /\ globalHaltRequested = 1
          /\ RequestHalt(FALSE)
          /\ pc' = "store2"
       \/ /\ globalHaltRequested = 3
          /\ RequestHalt(TRUE)
          /\ pc' = "store4"
    /\ UNCHANGED <<globalHaltRequested, timedHalt>>
    /\ UnchangedByHalt

StoreGlobalHalt ==
    /\ pc \in {"store2", "store4"}
    /\ globalHaltRequested' = IF pc = "store2" THEN 2 ELSE 4
    /\ pc' = "commands"
    /\ UNCHANGED <<group, haltRequested, timedHalt>>
    /\ UnchangedByHalt

\* run() leaves its loop when no command is left: onEndOfRun reaps the
\* stopped downloads.
EndOfRun ==
    /\ pc = "commands"
    /\ ~fillAlive
    /\ \A g \in Gid : group[g].numCommand = 0
    /\ haltRequested > 0 \/ AllFinished
    /\ pc' = "finalRemove"
    /\ UNCHANGED <<group, haltVars>>
    /\ UnchangedByHalt

Exit ==
    /\ pc = "finalRemove"
    /\ AllReaped
    /\ pc' = "exited"
    /\ globalHaltRequested' = 5
    /\ UNCHANGED <<group, haltRequested, timedHalt>>
    /\ UnchangedByHalt

\* KeepRunningCommand and FillRequestGroupCommand keep the loop turning while
\* nothing happens.
LoopIterates ==
    /\ pc = "commands" /\ haltRequested = 0
    /\ KeepRunning \/ fillAlive
    /\ UNCHANGED vars

\* The process has ended.
Exited == pc = "exited" /\ UNCHANGED vars

-----------------------------------------------------------------------------

CommandNext ==
    \E g \in Gid :
        \/ CommandExit(g) \/ CommandAbort(g) \/ CommandFailure(g)
        \/ CommandSpawn(g) \/ CommandInitStorage(g) \/ CommandComplete(g)

FillNext ==
    \/ FillExecute \/ RemoveStoppedGroup \/ FillBegin \/ FillParse \/ FillSkip
    \/ FillStart \/ FillEnd \/ FillReturn \/ FillPeriodicCheck

RpcNext ==
    \/ \E g \in Gid :
        \/ \E pos \in 0..(Len(reservedGroups) + 1), pause \in BOOLEAN : Add(g, pos, pause)
        \/ RemoveWaiting(g)
        \/ Unpause(g)
        \/ \E force \in BOOLEAN : RemoveActive(g, force) \/ Pause(g, force)
        \/ \E o \in Opts : ChangeOption(g, o)
        \/ \E n \in 1..MaxCommand : ChangeUri(g, n)
        \/ \E pos \in {-1, 0, 1}, how \in {"POS_SET", "POS_CUR", "POS_END"} :
             ChangePosition(g, pos, how)
    \/ UnpauseAll
    \/ \E force \in BOOLEAN : PauseAll(force) \/ Shutdown(force)
    \/ \E limit \in ConcurrencyLimits : ChangeMaxConcurrentDownloads(limit)
    \/ \E gids \in SUBSET Gid : RemoveResults(gids)

HaltNext ==
    \/ TimedHaltFires \/ AfterEachIteration \/ StoreGlobalHalt
    \/ EndOfRun \/ Exit
    \/ \E signal \in {"SIGINT", "SIGTERM"} : ReceiveSignal(signal)

Next == CommandNext \/ FillNext \/ RpcNext \/ HaltNext \/ LoopIterates \/ Exited

(***************************************************************************)
(* The loop goes on: every iteration runs the routine commands (the fill   *)
(* command, the timed halts) and afterEachIteration; a function that was   *)
(* entered returns.  The commands of a download that is halted or finished *)
(* return when they are next executed, which is at least once a second.    *)
(***************************************************************************)
LoopFairness ==
    /\ WF_vars(FillExecute) /\ WF_vars(RemoveStoppedGroup)
    /\ WF_vars(FillBegin) /\ WF_vars(FillParse) /\ WF_vars(FillSkip)
    /\ WF_vars(FillStart) /\ WF_vars(FillEnd) /\ WF_vars(FillReturn)
    /\ WF_vars(TimedHaltFires) /\ WF_vars(AfterEachIteration)
    /\ WF_vars(StoreGlobalHalt) /\ WF_vars(EndOfRun) /\ WF_vars(Exit)

CommandFairness ==
    \A g \in Gid : WF_vars(group[g].haltRequested /\ CommandExit(g))

Spec == Init /\ [][Next]_vars
FairSpec == Spec /\ LoopFairness /\ CommandFairness
-----------------------------------------------------------------------------
(* Properties *)

Pc == {"commands", "remove", "fill", "return", "store2", "store4",
       "finalRemove", "exited"}

\* Type invariant: every variable of the queue and of the engine has its type.
TypeOK ==
    /\ group \in [Gid -> Group]
    /\ reservedGroups \in Seq(Gid) /\ requestGroups \in Seq(Gid)
    /\ numActive \in Int
    /\ queueCheck \in BOOLEAN
    /\ maxConcurrentDownloads \in ConcurrencyLimits
    /\ downloadResults \in Seq(Gid)
    /\ unfinishedDownloadResults \subseteq Gid
    /\ result \in [Gid -> Result \cup {"NONE"}]
    /\ uriListParser \in Seq(Gid \cup {BadEntry})
    /\ pc \in Pc
    /\ pending \in Seq(Gid) /\ count \in Nat /\ num \in Int
    /\ fillAlive \in BOOLEAN
    /\ haltRequested \in 0..2
    /\ globalHaltRequested \in 0..5
    /\ timedHalt \in Seq(BOOLEAN)
    /\ known \subseteq Gid /\ dropped \subseteq Gid
    /\ promise \in [Gid -> Promise]

\* The active downloads that take a slot.
SlotHolders == {g \in Keys(requestGroups) : ~group[g].seedOnly}

\* numActive_ counts exactly the active downloads that are not detached
\* seeders, through every start, failed start, pause, resume and stop (so the
\* assertion in decreaseNumActive() cannot fail and no slot leaks).
NumActiveAccounting == numActive = Cardinality(SlotHolders)

\* The downloads that exist and have not come to an end.
Live == {g \in known \ dropped : result[g] = "NONE"}

\* The lists of the manager never share a download nor hold one twice: a
\* download is waiting, active, or stopped, and a stopped one has one result
\* (the assertion in addDownloadResult() holds).
ListsDisjoint ==
    /\ Distinct(reservedGroups) /\ Distinct(requestGroups) /\ Distinct(pending)
    /\ Distinct(downloadResults)
    /\ Keys(reservedGroups) \cap Keys(requestGroups) = {}
    /\ Keys(pending) \cap (Keys(reservedGroups) \cup Keys(requestGroups)) = {}
    /\ Keys(reservedGroups) \cup Keys(requestGroups) \cup Keys(pending)
         \subseteq Live

\* No download is lost: one that has neither stopped nor been removed by a
\* client is in the waiting queue or in the active list (or in the local
\* vector of the fill loop, which returns it to the queue).
NoDownloadLost ==
    Live \subseteq Keys(reservedGroups) \cup Keys(requestGroups) \cup Keys(pending)

\* No command works for a download that is not active: a paused or waiting
\* download has no command of its own.
CommandsOnlyWhenActive ==
    \A g \in Gid : group[g].numCommand > 0 => g \in Keys(requestGroups)

\* No wakeup is lost: between two commands, if a stopped download is to be
\* reaped, or a slot is free and a waiting download may take it, then a queue
\* check is requested (or the engine is halting).
NoLostWakeup ==
    pc = "commands" /\ haltRequested = 0 =>
        /\ ~AllReaped => queueCheck
        /\ numActive < maxConcurrentDownloads
             /\ (\E g \in Keys(reservedGroups) : ~Held(g)) => queueCheck

\* Downloads with commands that take a slot.
Running == {g \in SlotHolders : group[g].numCommand > 0}

\* No download is started while as many as the limit allows are running.
StartsBelowLimit ==
    [][numActive' > numActive =>
         Cardinality(Running) < maxConcurrentDownloads]_vars

\* A download a client was told is paused is not started until a client
\* resumes it.
PausedStaysPaused ==
    [][\A g \in Gid :
         promise[g].pause /\ group[g].state = "WAITING"
            => group'[g].state = "WAITING"]_vars

\* A download that a client removed while it was active ends as removed (or
\* complete), so that it is not taken up again from the session file.
RemovedIsReported ==
    \A g \in Gid : promise[g].remove /\ result[g] # "NONE"
        => result[g] \in {"REMOVED", "FINISHED"}

\* The options a client changed are in force whenever the download waits to
\* be started.
OptionsApplied ==
    \A g \in Keys(reservedGroups) : promise[g].option \subseteq group[g].option

\* A result that the session file needs survives its eviction from the list.
UnfinishedIsKept ==
    KeepUnfinished =>
        \A g \in Gid :
            result[g] \in {"IN_PROGRESS", "ERROR", "UNKNOWN_ERROR"}
                /\ ~BelongsToOther(g)
            => g \in Keys(downloadResults) \cup unfinishedDownloadResults \cup dropped

\* A result, once given, is final, and the download never runs again.
ResultIsFinal ==
    [][\A g \in Gid : result[g] # "NONE" =>
         /\ result'[g] = result[g]
         /\ g \notin Keys(requestGroups')]_vars

\* BtDependency lets go of the torrent file only when its download is over:
\* no command works for it and it is complete, or it failed and is not
\* waiting to be started.
DependeeOverWhenCut ==
    [][\A g \in Gid :
         LET d == group[g].dependee
         IN (d # NoGid /\ group'[g].dependee = NoGid)
              => /\ group[d].numCommand = 0
                 /\ \/ DownloadFinished(group[d])
                    \/ d \notin Keys(reservedGroups) \cup Keys(pending)]_vars

\* A halt ends the process: the commands of every download return, the
\* downloads are reaped and the event loop is left.
HaltTerminates == haltRequested > 0 ~> pc = "exited"

\* A download that has no command left is reaped.
StoppedIsReaped ==
    \A g \in Gid :
        (g \in Keys(requestGroups) /\ group[g].numCommand = 0)
            ~> (g \notin Keys(requestGroups))

\* A free slot does not stay free while a download may take it.
FreeSlotIsTaken ==
    \A g \in Gid :
        (g \in Keys(reservedGroups) /\ ~Held(g) /\ numActive < maxConcurrentDownloads)
            ~> (g \notin Keys(reservedGroups) \/ Held(g) \/ haltRequested > 0
                \/ numActive >= maxConcurrentDownloads)

\* The queue makes progress: what has stopped is reaped, and the slot it
\* gives back goes to a download that may run.
QueueProgresses == StoppedIsReaped /\ FreeSlotIsTaken
-----------------------------------------------------------------------------
(* What clients see *)

\* The status aria2.tellStatus gives for a download.
StatusOf(g) ==
    CASE g \notin known -> "none"
      [] g \in known /\ result[g] = "NONE" /\ g \in dropped -> "gone"
      [] g \in known /\ result[g] = "NONE" /\ g \notin dropped ->
           IF g \in Keys(requestGroups) THEN "active"
           ELSE IF group[g].pauseRequested THEN "paused" ELSE "waiting"
      [] result[g] = "FINISHED" -> "complete"
      [] result[g] = "REMOVED" -> "removed"
      [] OTHER -> "error"

Lifecycle ==
    INSTANCE DownloadLifecycle WITH
        status <- [g \in Gid |-> StatusOf(g)],
        asked <- [g \in Gid |->
                    [pause |-> promise[g].pause, remove |-> promise[g].remove]]

\* Refinement: through the queue, the slots and the wakeups, every download
\* goes through the life cycle its clients were promised; in particular a
\* paused download stops in the queue, and a removed one as removed.
ImplementsLifecycle == Lifecycle!Spec
=============================================================================
