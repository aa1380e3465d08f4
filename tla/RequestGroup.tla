---------------------------- MODULE RequestGroup ----------------------------
(***************************************************************************)
(* RequestGroup.cc: one download.  The module is the state of a download   *)
(* as a record and the methods that change it as operators on that record; *)
(* RequestGroupMan holds one record per GID and calls them.                *)
(***************************************************************************)
EXTENDS Naturals

CONSTANTS
    Gid,          \* the downloads' GIDs
    NoGid,        \* "no dependee"
    Opts,         \* options whose change needs a restart of an active download
    MaxCommand    \* bound on the commands of one download

ASSUME GidAssumption == NoGid \notin Gid
ASSUME MaxCommandAssumption == MaxCommand \in Nat \ {0}

HaltReason == {"NONE", "SHUTDOWN_SIGNAL", "USER_REQUEST"}
ErrorCode == {"UNDEFINED", "ERROR"}
Result == {"FINISHED", "REMOVED", "IN_PROGRESS", "UNKNOWN_ERROR", "ERROR"}

\* pieceStorage_: absent, with pieces missing, or complete (and its
\* checksum, when there is one, verified).
Storage == {"none", "partial", "finished"}

\* option: options in force, pendingOption: options to apply at the next pause.
Group == [state : {"WAITING", "ACTIVE"},
          numCommand : 0..MaxCommand,
          haltRequested : BOOLEAN,
          forceHaltRequested : BOOLEAN,
          pauseRequested : BOOLEAN,
          restartRequested : BOOLEAN,
          haltReason : HaltReason,
          lastErrorCode : ErrorCode,
          storage : Storage,
          seedOnly : BOOLEAN,
          option : SUBSET Opts,
          pendingOption : SUBSET Opts,
          dependee : Gid \cup {NoGid}]

\* The constructor, with the pause option and the dependency of the download.
NewGroup(pause, dependee) ==
    [state |-> "WAITING", numCommand |-> 0,
     haltRequested |-> FALSE, forceHaltRequested |-> FALSE,
     pauseRequested |-> pause, restartRequested |-> FALSE,
     haltReason |-> "NONE", lastErrorCode |-> "UNDEFINED",
     storage |-> "none", seedOnly |-> FALSE,
     option |-> {}, pendingOption |-> {}, dependee |-> dependee]

DownloadFinished(rg) == rg.storage = "finished"

\* Fault: the pause request survives.
HaltKeepsPause(rg, f, reason) ==
    [rg EXCEPT !.haltRequested = f, !.haltReason = IF f THEN reason ELSE @]

\* A halt request clears a pause request and records its reason.
SetHaltRequested(rg, f, reason) ==
    [rg EXCEPT !.haltRequested = f,
               !.pauseRequested = IF f THEN FALSE ELSE @,
               !.haltReason = IF f THEN reason ELSE @]

SetForceHaltRequested(rg, f, reason) ==
    [SetHaltRequested(rg, f, reason) EXCEPT !.forceHaltRequested = f]

\* pauseRequestGroup() of RpcMethodImpl.cc: when it accepts, and its effect.
PauseAccepted(rg, reserved, forcePause) ==
    IF reserved
    THEN ~rg.pauseRequested
    ELSE /\ ~rg.forceHaltRequested
         /\ \/ forcePause /\ rg.haltRequested /\ rg.pauseRequested
            \/ ~rg.haltRequested /\ ~rg.pauseRequested

PauseRequestGroup(rg, reserved, forcePause) ==
    LET halted == IF reserved THEN rg
                  ELSE IF forcePause THEN SetForceHaltRequested(rg, TRUE, "NONE")
                  ELSE SetHaltRequested(rg, TRUE, "NONE")
    IN IF PauseAccepted(rg, reserved, forcePause)
       THEN [halted EXCEPT !.pauseRequested = TRUE]
       ELSE rg

\* Fault: nothing is reset.
ReleaseNothing(rg) == rg

ReleaseRuntimeResource(rg) == [rg EXCEPT !.seedOnly = FALSE]

\* The outcome reported for a download that has stopped.
DownloadResult(rg) ==
    CASE DownloadFinished(rg) -> "FINISHED"
      [] ~DownloadFinished(rg) /\ rg.haltReason = "USER_REQUEST" -> "REMOVED"
      [] ~DownloadFinished(rg) /\ rg.haltReason # "USER_REQUEST" ->
            IF rg.lastErrorCode # "UNDEFINED" THEN "ERROR"
            ELSE IF rg.haltReason = "SHUTDOWN_SIGNAL" THEN "IN_PROGRESS"
            ELSE "UNKNOWN_ERROR"
=============================================================================
