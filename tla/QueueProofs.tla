----------------------------- MODULE QueueProofs -----------------------------
(***************************************************************************)
(* More proofs about RequestGroupMan: what the queue promises the clients. *)
(* Wakeups, limits, pauses, options, kept results and the refinement of    *)
(* DownloadLifecycle, each for any number of downloads.  The first part    *)
(* says once what each group of actions does to the record of a download;  *)
(* the theorems are about those effects.                                   *)
(***************************************************************************)
EXTENDS RequestGroupManProofs

USE DEF queueVars, resultVars, fillVars, haltVars, clientVars

\* What clients asked of a download is recorded as before.
SameRequests(r, s) ==
    /\ r.pauseRequested = s.pauseRequested /\ r.haltRequested = s.haltRequested
    /\ r.haltReason = s.haltReason

\* What only the start and the end of a download change.
SameRest(r, s) ==
    /\ r.state = s.state /\ r.restartRequested = s.restartRequested
    /\ r.option = s.option /\ r.pendingOption = s.pendingOption
    /\ r.dependee = s.dependee

\* The download was halted by a step of its own.
HaltedItself(r, s) ==
    /\ ~s.haltRequested /\ r.haltRequested /\ ~r.pauseRequested
    /\ r.haltReason = "SHUTDOWN_SIGNAL"

\* A command changes the record of its own download only, halts it or leaves
\* its requests alone, and requests a queue check when it is the last one or
\* gives a slot back.
LEMMA CommandEffect ==
    ASSUME TypeOK, CommandNext
    PROVE  \E g \in Gid :
             /\ pc = "commands" /\ group[g].numCommand > 0
             /\ \A k \in Gid : k # g => group'[k] = group[k]
             /\ SameRest(group'[g], group[g])
             /\ SameRequests(group'[g], group[g]) \/ HaltedItself(group'[g], group[g])
             /\ group'[g].numCommand = 0 => queueCheck'
             /\ queueCheck => queueCheck'
             /\ numActive' # numActive => numActive' < numActive /\ queueCheck'
             /\ UnchangedByCommand
<1>0. /\ group \in [Gid -> Group] /\ \A g \in Gid : group[g] \in Group
      /\ numActive \in Int
  BY DEF TypeOK
<1>1. PICK g \in Gid : \/ CommandExit(g) \/ CommandAbort(g) \/ CommandFailure(g)
                       \/ CommandSpawn(g) \/ CommandInitStorage(g) \/ CommandComplete(g)
  BY DEF CommandNext
<1>2. pc = "commands" /\ group[g].numCommand > 0 /\ UnchangedByCommand
  BY <1>1 DEF CommandExit, CommandAbort, CommandFailure, CommandSpawn,
              CommandInitStorage, CommandComplete, Works, CommandRuns
<1>3. /\ queueCheck => queueCheck'
      /\ numActive' # numActive => numActive' < numActive /\ queueCheck'
  <2>1. \/ UNCHANGED numActive /\ (queueCheck => queueCheck')
        \/ numActive' = numActive - 1 /\ queueCheck'
    <3>1. CASE CommandComplete(g)
      BY <3>1 DEF CommandComplete
    <3>2. CASE CommandSpawn(g) \/ CommandInitStorage(g)
      BY <3>2 DEF CommandSpawn, CommandInitStorage
    <3>3. CASE CommandExit(g) \/ CommandAbort(g) \/ CommandFailure(g)
      BY <3>3 DEF CommandExit, CommandAbort, CommandFailure
    <3> QED BY <1>1, <3>1, <3>2, <3>3
  <2> QED BY <1>0, <2>1
<1> DEFINE Good(r) == /\ SameRest(r, group[g])
                      /\ SameRequests(r, group[g]) \/ HaltedItself(r, group[g])
                      /\ r.numCommand = 0 => queueCheck'
<1>4. \E r : group' = [group EXCEPT ![g] = r] /\ Good(r)
  <2> DEFINE e == [group[g] EXCEPT !.lastErrorCode = "ERROR"]
             h == SetHaltRequested(e, TRUE, "SHUTDOWN_SIGNAL")
  <2>0. group[g] \in Group /\ group[g].numCommand \in Nat
    BY <1>0, MaxCommandAssumption DEF Group
  <2>1. /\ SameRest(e, group[g]) /\ SameRequests(e, group[g])
        /\ e.numCommand = group[g].numCommand /\ e \in Group
    BY <2>0 DEF SameRest, SameRequests, Group, ErrorCode
  <2>2. ASSUME NEW r \in Group, r.numCommand = group[g].numCommand
        PROVE  /\ SameRest(DecreaseNumCommand(r), r)
               /\ SameRequests(DecreaseNumCommand(r), r)
               /\ DecreaseNumCommand(r).numCommand = group[g].numCommand - 1
    BY <2>2 DEF SameRest, SameRequests, DecreaseNumCommand, Group
  <2>3. CASE CommandExit(g)
    <3> DEFINE r == DecreaseNumCommand(group[g])
    <3>1. group' = [group EXCEPT ![g] = r]
      BY <2>3 DEF CommandExit
    <3>2. Good(r)
      <4>1. group[g].numCommand = 1 => queueCheck'
        BY <2>3 DEF CommandExit, LastCommand
      <4> QED BY <2>0, <2>2, <4>1
    <3> QED BY <3>1, <3>2
  <2>4. CASE CommandAbort(g)
    <3> HIDE DEF e
    <3>1. \/ /\ group' = [group EXCEPT ![g] = DecreaseNumCommand(e)]
             /\ group[g].numCommand = 1 => queueCheck'
          \/ group' = [group EXCEPT ![g] = e]
      BY <2>4 DEF CommandAbort, LastCommand, e
    <3>2. Good(e)
      BY <1>2, <2>0, <2>1
    <3>3. ASSUME group[g].numCommand = 1 => queueCheck' PROVE Good(DecreaseNumCommand(e))
      BY <2>0, <2>1, <2>2, <3>3 DEF SameRest, SameRequests
    <3> QED BY <3>1, <3>2, <3>3
  <2>5. CASE CommandFailure(g)
    <3>1. /\ group' = [group EXCEPT ![g] = DecreaseNumCommand(h)]
          /\ group[g].numCommand = 1 => queueCheck'
          /\ ~group[g].haltRequested
      BY <2>5 DEF CommandFailure, LastCommand, Works
    <3> HIDE DEF e
    <3>2. /\ h \in Group /\ h.numCommand = group[g].numCommand
          /\ SameRest(h, e) /\ h.haltRequested /\ ~h.pauseRequested
          /\ h.haltReason = "SHUTDOWN_SIGNAL"
      <4>1. h \in Group
        BY <2>1, HaltType DEF HaltReason
      <4> QED BY <2>1, <4>1 DEF SetHaltRequested, SameRest, Group
    <3> HIDE DEF h
    <3>3. Good(DecreaseNumCommand(h))
      BY <2>0, <2>1, <2>2, <3>1, <3>2 DEF SameRest, SameRequests, HaltedItself
    <3> QED BY <3>1, <3>3
  <2>6. CASE CommandSpawn(g)
    <3> DEFINE r == [group[g] EXCEPT !.numCommand = group[g].numCommand + 1]
    <3>1. group' = [group EXCEPT ![g] = r]
      BY <2>6 DEF CommandSpawn
    <3>2. Good(r)
      BY <2>0 DEF SameRest, SameRequests, Group
    <3> HIDE DEF r
    <3> QED BY <3>1, <3>2
  <2>7. CASE CommandInitStorage(g)
    <3> DEFINE r == [group[g] EXCEPT !.storage = "partial"]
    <3>1. group' = [group EXCEPT ![g] = r]
      BY <2>7 DEF CommandInitStorage
    <3>2. Good(r)
      BY <1>2, <2>0 DEF SameRest, SameRequests, Group
    <3> HIDE DEF r
    <3> QED BY <3>1, <3>2
  <2>8. CASE CommandComplete(g)
    <3>1. group' = [group EXCEPT ![g] = Completed(g)]
      BY <2>8 DEF CommandComplete
    <3>2. Good(Completed(g))
      BY <1>2, <2>0 DEF SameRest, SameRequests, Group, Completed
    <3> QED BY <3>1, <3>2
  <2> HIDE DEF Good
  <2> QED BY <1>1, <2>3, <2>4, <2>5, <2>6, <2>7, <2>8
<1>5. /\ \A k \in Gid : k # g => group'[k] = group[k]
      /\ Good(group'[g])
  <2> HIDE DEF Good
  <2> QED BY <1>0, <1>4
<1> QED BY <1>2, <1>3, <1>5

\* r is s with a halt requested for a reason.
HaltedFor(r, s, reason) ==
    /\ SameRest(r, s) /\ r.numCommand = s.numCommand
    /\ r.haltRequested /\ ~r.pauseRequested /\ r.haltReason = reason

\* A halt clears a pause request and records its reason.
LEMMA HaltFields ==
    ASSUME NEW rg \in Group, NEW reason \in HaltReason
    PROVE  /\ HaltedFor(SetHaltRequested(rg, TRUE, reason), rg, reason)
           /\ HaltedFor(SetForceHaltRequested(rg, TRUE, reason), rg, reason)
<1> DEFINE h == SetHaltRequested(rg, TRUE, reason)
<1>1. h \in Group
  BY HaltType
<1>2. HaltedFor(h, rg, reason)
  BY <1>1 DEF HaltedFor, SetHaltRequested, SameRest, Group
<1> HIDE DEF h
<1>3. HaltedFor([h EXCEPT !.forceHaltRequested = TRUE], rg, reason)
  BY <1>1, <1>2 DEF HaltedFor, SameRest, Group
<1> QED BY <1>2, <1>3 DEF h, SetForceHaltRequested

\* r is s with a pause requested.
PausedFor(r, s, reserved) ==
    /\ SameRest(r, s) /\ r.numCommand = s.numCommand /\ r.pauseRequested
    /\ reserved => r.haltRequested = s.haltRequested /\ r.haltReason = s.haltReason
    /\ ~reserved => r.haltRequested /\ r.haltReason = "NONE"

\* A pause that is accepted is recorded; it halts an active download.
LEMMA PauseFields ==
    ASSUME NEW rg \in Group, NEW reserved \in BOOLEAN, NEW force \in BOOLEAN
    PROVE  IF PauseAccepted(rg, reserved, force)
           THEN PausedFor(PauseRequestGroup(rg, reserved, force), rg, reserved)
           ELSE PauseRequestGroup(rg, reserved, force) = rg
<1> DEFINE h == IF reserved THEN rg
                ELSE IF force THEN SetForceHaltRequested(rg, TRUE, "NONE")
                ELSE SetHaltRequested(rg, TRUE, "NONE")
<1>1. SUFFICES ASSUME PauseAccepted(rg, reserved, force)
               PROVE  PausedFor([h EXCEPT !.pauseRequested = TRUE], rg, reserved)
  BY DEF PauseRequestGroup
<1>2. "NONE" \in HaltReason
  BY DEF HaltReason
<1>3. h \in Group
  BY <1>2, HaltType
<1>4. CASE reserved
  BY <1>4 DEF PausedFor, SameRest, Group
<1>5. CASE ~reserved
  <2>1. HaltedFor(h, rg, "NONE")
    BY <1>2, <1>5, HaltFields
  <2> HIDE DEF h
  <2> QED BY <1>3, <1>5, <2>1 DEF HaltedFor, PausedFor, SameRest, Group
<1> QED BY <1>4, <1>5

\* A download that goes back to the queue: paused unless it is to restart,
\* with its pending options applied.  One that is over keeps its state.
LEMMA ReapedFields ==
    ASSUME NEW rg \in Group
    PROVE  /\ Requeued(rg).state = "WAITING"
           /\ Requeued(rg).numCommand = rg.numCommand
           /\ Requeued(rg).dependee = rg.dependee
           /\ Requeued(rg).pauseRequested = ~rg.restartRequested
           /\ ~Requeued(rg).restartRequested
           /\ ~Requeued(rg).haltRequested
           /\ Requeued(rg).haltReason = rg.haltReason
           /\ Requeued(rg).option = rg.option \cup rg.pendingOption
           /\ Ended(rg).state = rg.state
           /\ Ended(rg).numCommand = rg.numCommand
           /\ Ended(rg).dependee = rg.dependee
<1> DEFINE rel == ReleaseRuntimeResource(rg)
           f == SetForceHaltRequested(rel, FALSE, "NONE")
<1>1. /\ rel \in Group /\ SameRest(rel, rg) /\ SameRequests(rel, rg)
      /\ rel.numCommand = rg.numCommand
  BY DEF ReleaseRuntimeResource, Group, SameRest, SameRequests
<1>2. /\ Ended(rg).state = rg.state /\ Ended(rg).numCommand = rg.numCommand
      /\ Ended(rg).dependee = rg.dependee
  BY <1>1 DEF Ended, Group, SameRest
<1> HIDE DEF rel
<1>3. /\ f \in Group /\ SameRest(f, rel) /\ f.numCommand = rel.numCommand
      /\ ~f.haltRequested /\ f.haltReason = rel.haltReason
  <2>1. f \in Group
    BY <1>1, HaltType DEF HaltReason
  <2> QED BY <1>1, <2>1 DEF SetForceHaltRequested, SetHaltRequested, SameRest, Group
<1>4. Requeued(rg) = [f EXCEPT !.state = "WAITING",
                               !.option = rg.option \cup rg.pendingOption,
                               !.pauseRequested = ~rg.restartRequested,
                               !.restartRequested = FALSE,
                               !.pendingOption = {}]
  BY DEF Requeued, OptionsMerged, f, rel
<1> HIDE DEF f
<1> QED BY <1>1, <1>2, <1>3, <1>4 DEF SameRest, SameRequests, Group

\* A halt of the engine: the active downloads are halted, and only by a step
\* after which the engine is halting.
LEMMA HaltEffect ==
    ASSUME TypeOK, HaltNext
    PROVE  /\ \A g \in Gid :
                \/ group'[g] = group[g]
                \/ /\ g \in Keys(requestGroups) /\ haltRequested' > 0
                   /\ HaltedFor(group'[g], group[g], "SHUTDOWN_SIGNAL")
           /\ pc # "commands" \/ ~(haltRequested' > 0) => UNCHANGED group
           /\ haltRequested > 0 => haltRequested' > 0
           /\ \/ UNCHANGED pc
              \/ pc = "commands" /\ pc' \in {"store2", "store4"} /\ haltRequested' > 0
              \/ pc \in {"store2", "store4"} /\ pc' = "commands"
              \/ pc \in {"commands", "finalRemove"} /\ pc' \in {"finalRemove", "exited"}
           /\ UnchangedByHalt
<1>0. /\ \A g \in Gid : group[g] \in Group
      /\ haltRequested \in 0..2 /\ timedHalt \in Seq(BOOLEAN)
  BY DEF TypeOK
<1> DEFINE Halted == \A g \in Gid :
                \/ group'[g] = group[g]
                \/ /\ g \in Keys(requestGroups) /\ haltRequested' > 0
                   /\ HaltedFor(group'[g], group[g], "SHUTDOWN_SIGNAL")
<1>1. ASSUME NEW force \in BOOLEAN, RequestHalt(force)
      PROVE  Halted /\ haltRequested' > 0
  <2>1. haltRequested' > 0
    BY <1>0, <1>1 DEF RequestHalt
  <2>2. ASSUME NEW g \in Gid, g \in Keys(requestGroups)
        PROVE  HaltedFor(group'[g], group[g], "SHUTDOWN_SIGNAL")
    <3>1. "SHUTDOWN_SIGNAL" \in HaltReason
      BY DEF HaltReason
    <3>2. \/ group'[g] = SetHaltRequested(group[g], TRUE, "SHUTDOWN_SIGNAL")
          \/ group'[g] = SetForceHaltRequested(group[g], TRUE, "SHUTDOWN_SIGNAL")
      BY <1>1, <2>2 DEF RequestHalt
    <3>3. /\ HaltedFor(SetHaltRequested(group[g], TRUE, "SHUTDOWN_SIGNAL"),
                       group[g], "SHUTDOWN_SIGNAL")
          /\ HaltedFor(SetForceHaltRequested(group[g], TRUE, "SHUTDOWN_SIGNAL"),
                       group[g], "SHUTDOWN_SIGNAL")
      BY <1>0, <3>1, HaltFields
    <3> QED BY <3>2, <3>3
  <2>3. \A g \in Gid : g \notin Keys(requestGroups) => group'[g] = group[g]
    BY <1>1 DEF RequestHalt
  <2> QED BY <2>1, <2>2, <2>3
<1>2. ASSUME UNCHANGED group PROVE Halted
  BY <1>2
<1>3. UnchangedByHalt
  BY DEF HaltNext, TimedHaltFires, AfterEachIteration, StoreGlobalHalt, EndOfRun,
         Exit, ReceiveSignal
<1> HIDE DEF Halted
<1>4. CASE TimedHaltFires
  <2>1. Head(timedHalt) \in BOOLEAN
    BY <1>0, <1>4 DEF TimedHaltFires
  <2>2. CASE haltRequested > 0
    BY <1>2, <1>3, <1>4, <2>2 DEF TimedHaltFires, Halted
  <2>3. CASE ~(haltRequested > 0)
    <3>1. RequestHalt(Head(timedHalt)) /\ UNCHANGED pc /\ pc = "commands"
      BY <1>4, <2>3 DEF TimedHaltFires
    <3>2. Halted /\ haltRequested' > 0
      BY <1>1, <2>1, <3>1
    <3> QED BY <1>3, <3>1, <3>2 DEF Halted
  <2> QED BY <2>2, <2>3
<1>5. CASE AfterEachIteration
  BY <1>1, <1>3, <1>5 DEF AfterEachIteration, Halted
<1>6. CASE StoreGlobalHalt
  BY <1>2, <1>3, <1>6 DEF StoreGlobalHalt, Halted
<1>7. CASE EndOfRun
  BY <1>2, <1>3, <1>7 DEF EndOfRun, Halted
<1>8. CASE Exit
  BY <1>2, <1>3, <1>8 DEF Exit, Halted
<1>9. ASSUME NEW signal, ReceiveSignal(signal)
      PROVE  Halted /\ UNCHANGED <<group, haltRequested, pc>>
  BY <1>2, <1>9 DEF ReceiveSignal
<1> QED BY <1>3, <1>4, <1>5, <1>6, <1>7, <1>8, <1>9 DEF HaltNext, Halted

\* A download is started: it was the first of the queue and not held; what
\* was asked of it stays recorded; without a command, and whenever it takes
\* no slot, a queue check is requested.
LEMMA FillStartEffect ==
    ASSUME TypeOK, Distinct(reservedGroups), FillStart
    PROVE  \E g \in Keys(reservedGroups) :
             /\ ~Held(g) /\ pc = "fill" /\ count < num
             /\ Keys(reservedGroups') = Keys(reservedGroups) \ {g}
             /\ Keys(requestGroups') = Keys(requestGroups) \cup {g}
             /\ \A k \in Gid : k # g => group'[k] = group[k]
             /\ group'[g].state = "ACTIVE" /\ group'[g].dependee = NoGid
             /\ SameRequests(group'[g], group[g])
             /\ group'[g].restartRequested = group[g].restartRequested
             /\ group'[g].option = group[g].option
             /\ group'[g].pendingOption = group[g].pendingOption
             /\ group'[g].numCommand >= group[g].numCommand
             /\ group'[g].numCommand = 0 => queueCheck'
             /\ queueCheck => queueCheck'
             /\ \/ count' = count + 1 /\ numActive' = numActive + 1
                \/ count' = count + 1 /\ numActive' = numActive /\ queueCheck'
                     /\ group'[g].seedOnly
                \/ count' = count /\ numActive' = numActive + 1
                     /\ group'[g].numCommand = group[g].numCommand
             /\ UNCHANGED <<resultVars, uriListParser, pc, pending, num, fillAlive, known>>
             /\ UnchangedByFill
<1> DEFINE g == reservedGroups[1]
<1>0. /\ reservedGroups \in Seq(Gid) /\ requestGroups \in Seq(Gid)
      /\ group \in [Gid -> Group]
  BY DEF TypeOK
<1>1. /\ reservedGroups # <<>> /\ ~Held(g)
      /\ reservedGroups' = EraseAt(reservedGroups, 1)
      /\ requestGroups' = PushBack(requestGroups, g)
      /\ Started(g) \/ StartFailed(g)
      /\ UNCHANGED <<resultVars, uriListParser, pc, pending, num, fillAlive, known>>
      /\ UnchangedByFill /\ pc = "fill" /\ count < num
  BY DEF FillStart, Looping
<1>2. /\ 1 \in 1..Len(reservedGroups) /\ g \in Gid /\ g \in Keys(reservedGroups)
      /\ group[g] \in Group
  <2>1. 1 \in DOMAIN reservedGroups /\ 1 \in 1..Len(reservedGroups) /\ g \in Gid
    BY <1>0, <1>1
  <2> QED BY <1>0, <2>1 DEF Keys
<1>3. Keys(reservedGroups') = Keys(reservedGroups) \ {g}
  BY <1>0, <1>1, <1>2, EraseList
<1> HIDE DEF g
<1>4. Keys(requestGroups') = Keys(requestGroups) \cup {g}
  <2>1. Keys(PushBack(requestGroups, g)) = Keys(requestGroups) \cup {g}
    BY <1>0, <1>2, PushList
  <2> QED BY <1>1, <2>1
<1> DEFINE a == Activated(group[g])
           Good(r) == /\ r.state = "ACTIVE" /\ r.dependee = NoGid
                      /\ SameRequests(r, group[g])
                      /\ r.restartRequested = group[g].restartRequested
                      /\ r.option = group[g].option
                      /\ r.pendingOption = group[g].pendingOption
                      /\ r.numCommand >= group[g].numCommand
                      /\ r.numCommand = 0 => queueCheck'
                      /\ queueCheck => queueCheck'
                      /\ \/ count' = count + 1 /\ numActive' = numActive + 1
                         \/ count' = count + 1 /\ numActive' = numActive /\ queueCheck'
                              /\ r.seedOnly
                         \/ count' = count /\ numActive' = numActive + 1
                              /\ r.numCommand = group[g].numCommand
<1>5. /\ a \in Group /\ a.state = "ACTIVE" /\ a.dependee = NoGid
      /\ SameRequests(a, group[g]) /\ a.restartRequested = group[g].restartRequested
      /\ a.option = group[g].option /\ a.pendingOption = group[g].pendingOption
      /\ a.numCommand = group[g].numCommand /\ group[g].numCommand \in Nat
  <2>1. a \in Group
    BY <1>2, ActivatedType
  <2> QED BY <1>2, <2>1, MaxCommandAssumption DEF Activated, SameRequests, Group
<1>6. \E r : group' = [group EXCEPT ![g] = r] /\ Good(r)
  <2>1. CASE StartFailed(g)
    <3> DEFINE r == [a EXCEPT !.lastErrorCode = "ERROR"]
    <3>1. /\ group' = [group EXCEPT ![g] = r]
          /\ numActive' = numActive + 1 /\ queueCheck' = TRUE /\ count' = count
      BY <2>1 DEF StartFailed
    <3> HIDE DEF a
    <3>2. /\ r.state = a.state /\ r.dependee = a.dependee /\ SameRequests(r, a)
          /\ r.restartRequested = a.restartRequested /\ r.option = a.option
          /\ r.pendingOption = a.pendingOption /\ r.numCommand = a.numCommand
      BY <1>5 DEF SameRequests, Group
    <3> HIDE DEF r
    <3>3. Good(r)
      BY <1>5, <3>1, <3>2 DEF SameRequests
    <3> QED BY <3>1, <3>3
  <2>2. CASE Started(g)
    <3> DEFINE seeds(n, s) == s = "finished" /\ n > 0 /\ SeedOnlyEnabled(g)
    <3>0. PICK n \in 0..MaxCommand, s \in Storage, empty \in BOOLEAN :
            /\ n = 0 => empty
            /\ group' = [group EXCEPT ![g] = Launched(group[g], n, s, seeds(n, s))]
            /\ numActive' = IF seeds(n, s) THEN numActive ELSE numActive + 1
            /\ queueCheck' = (queueCheck \/ empty \/ seeds(n, s))
            /\ count' = count + 1
      BY <2>2 DEF Started
    <3> DEFINE seed == seeds(n, s)
               r == Launched(group[g], n, s, seed)
    <3>1. seed \in BOOLEAN /\ group[g].seedOnly \in BOOLEAN
      BY <1>2 DEF Group
    <3>2. r = [a EXCEPT !.numCommand = group[g].numCommand + n, !.storage = s,
                        !.seedOnly = group[g].seedOnly \/ seed]
      BY DEF Launched
    <3> HIDE DEF a, seeds, r
    <3>3. /\ r.state = a.state /\ r.dependee = a.dependee /\ SameRequests(r, a)
          /\ r.restartRequested = a.restartRequested /\ r.option = a.option
          /\ r.pendingOption = a.pendingOption
          /\ r.numCommand = group[g].numCommand + n
          /\ seed => r.seedOnly
      BY <1>5, <3>1, <3>2 DEF SameRequests, Group
    <3>4. /\ (queueCheck \/ empty \/ seed) => queueCheck'
          /\ ~seed => numActive' = numActive + 1
          /\ seed => numActive' = numActive
      BY <3>0
    <3>5. r.numCommand >= group[g].numCommand /\ (r.numCommand = 0 => n = 0)
      BY <1>5, <3>3, MaxCommandAssumption
    <3>6. Good(r)
      BY <1>5, <3>0, <3>3, <3>4, <3>5 DEF SameRequests
    <3>7. group' = [group EXCEPT ![g] = r]
      BY <3>0 DEF r
    <3> HIDE DEF Good
    <3> QED BY <3>6, <3>7
  <2> QED BY <1>1, <2>1, <2>2
<1> HIDE DEF a
<1>7. Good(group'[g]) /\ \A k \in Gid : k # g => group'[k] = group[k]
  <2> HIDE DEF Good
  <2> QED BY <1>0, <1>2, <1>6
<1> QED BY <1>1, <1>2, <1>3, <1>4, <1>7

\* A stopped download leaves the active list: a paused one goes back to the
\* queue, any other gets its result and may bring about new downloads.
LEMMA StopEffect ==
    ASSUME TypeOK, Distinct(requestGroups), RemoveStoppedGroup
    PROVE  \E g \in Keys(requestGroups) :
             /\ g \in Gid /\ group[g].numCommand = 0
             /\ Keys(requestGroups') = Keys(requestGroups) \ {g}
             /\ \A k \in Gid : k # g => group'[k] = group[k]
             /\ numActive' <= numActive
             /\ \/ /\ group[g].pauseRequested
                   /\ group'[g] = Requeued(group[g])
                   /\ Keys(reservedGroups') = Keys(reservedGroups) \cup {g}
                   /\ UNCHANGED <<queueCheck, resultVars, known>>
                \/ /\ ~group[g].pauseRequested
                   /\ group'[g] = Ended(group[g])
                   /\ AddDownloadResult(g, DownloadResult(group[g]))
                   /\ \/ UNCHANGED <<reservedGroups, queueCheck, known>>
                      \/ /\ Keys(FollowUps) \cap known = {}
                         /\ Keys(FollowUps) \subseteq Gid
                         /\ Keys(reservedGroups') = Keys(FollowUps) \cup Keys(reservedGroups)
                         /\ known' = known \cup Keys(FollowUps)
             /\ pc \in {"remove", "finalRemove"}
             /\ UNCHANGED <<uriListParser, pc, fillVars, fillAlive>>
             /\ UnchangedByFill
<1>0. PICK i \in DOMAIN requestGroups : ProcessStopped(i)
  BY DEF RemoveStoppedGroup
<1> DEFINE g == requestGroups[i]
<1>1. /\ requestGroups \in Seq(Gid) /\ reservedGroups \in Seq(Gid)
      /\ group \in [Gid -> Group] /\ numActive \in Int
      /\ i \in 1..Len(requestGroups) /\ g \in Gid /\ g \in Keys(requestGroups)
  BY DEF TypeOK, Keys
<1>2. /\ requestGroups' = EraseAt(requestGroups, i) /\ group[g].numCommand = 0
      /\ numActive' = NumActiveAfterStop(g)
      /\ IF group[g].pauseRequested THEN StopPaused(g) ELSE StopForGood(g)
      /\ UNCHANGED <<uriListParser, pc, fillVars, fillAlive>> /\ UnchangedByFill
      /\ pc \in {"remove", "finalRemove"}
  BY <1>0 DEF ProcessStopped, Stopped, RemoveStoppedGroup
<1>3. Keys(requestGroups') = Keys(requestGroups) \ {g}
  BY <1>1, <1>2, EraseList
<1>4. numActive' <= numActive
  BY <1>1, <1>2 DEF NumActiveAfterStop
<1> HIDE DEF g
<1>5. CASE group[g].pauseRequested
  <2>1. /\ reservedGroups' = PushFront(reservedGroups, g)
        /\ group' = [group EXCEPT ![g] = Requeued(group[g])]
        /\ UNCHANGED <<queueCheck, resultVars, known>>
    BY <1>2, <1>5 DEF StopPaused
  <2>2. Keys(PushFront(reservedGroups, g)) = Keys(reservedGroups) \cup {g}
    BY <1>1, PushList
  <2>3. group'[g] = Requeued(group[g]) /\ \A k \in Gid : k # g => group'[k] = group[k]
    BY <1>1, <2>1
  <2> QED BY <1>1, <1>2, <1>3, <1>4, <1>5, <2>1, <2>2, <2>3
<1>6. CASE ~group[g].pauseRequested
  <2>1. /\ group' = [group EXCEPT ![g] = Ended(group[g])]
        /\ AddDownloadResult(g, DownloadResult(group[g]))
        /\ \/ UNCHANGED <<reservedGroups, queueCheck, known>>
           \/ /\ Keys(FollowUps) \cap known = {}
              /\ reservedGroups' = FollowUps \o reservedGroups
              /\ known' = known \cup Keys(FollowUps)
    BY <1>2, <1>6 DEF StopForGood
  <2>2. /\ Keys(FollowUps) \subseteq Gid
        /\ Keys(FollowUps \o reservedGroups) = Keys(FollowUps) \cup Keys(reservedGroups)
    <3>1. FollowUps \in Seq(Gid)
      BY ManAssumption
    <3>2. Keys(FollowUps) \subseteq Gid
      BY <3>1 DEF Keys
    <3> QED BY <1>1, <3>1, <3>2, ConcatList
  <2>3. group'[g] = Ended(group[g]) /\ \A k \in Gid : k # g => group'[k] = group[k]
    BY <1>1, <2>1
  <2> QED BY <1>1, <1>2, <1>3, <1>4, <1>6, <2>1, <2>2, <2>3
<1> QED BY <1>5, <1>6

-----------------------------------------------------------------------------
(***************************************************************************)
(* Results kept for the session file.                                      *)
(***************************************************************************)

\* addDownloadResult: an evicted result that is unfinished is kept.
LEMMA AddResultKept ==
    ASSUME TypeOK, Distinct(downloadResults), UnfinishedIsKept, NEW g \in Gid,
           NEW r \in Result, AddDownloadResult(g, r), UNCHANGED dropped
    PROVE  UnfinishedIsKept'
<1> DEFINE added == PushBack(downloadResults, g)
           old == added[1]
           Unfinished(x) == x \in {"IN_PROGRESS", "ERROR", "UNKNOWN_ERROR"}
<1>0. result \in [Gid -> Result \cup {"NONE"}] /\ downloadResults \in Seq(Gid)
  BY DEF TypeOK
<1>1. SUFFICES ASSUME KeepUnfinished, NEW k \in Gid, Unfinished(result'[k]),
                      ~BelongsToOther(k)
               PROVE  k \in Keys(downloadResults') \cup unfinishedDownloadResults' \cup dropped
  BY DEF UnfinishedIsKept, BelongsToOther
<1>2. /\ added \in Seq(Gid) /\ Distinct(added)
      /\ Keys(added) = Keys(downloadResults) \cup {g}
  BY <1>0, PushList
<1>3. k \in Keys(added) \cup unfinishedDownloadResults \cup dropped
  <2>1. result' = [result EXCEPT ![g] = r]
    BY DEF AddDownloadResult
  <2> HIDE DEF added
  <2>2. CASE k = g
    BY <1>2, <2>2
  <2>3. CASE k # g
    <3>1. Unfinished(result[k])
      BY <1>0, <1>1, <2>1, <2>3
    <3> QED BY <1>1, <1>2, <3>1 DEF UnfinishedIsKept
  <2> QED BY <2>2, <2>3
<1>4. CASE ~(Len(added) > MaxDownloadResult)
  <2>1. downloadResults' = added /\ UNCHANGED unfinishedDownloadResults
    BY <1>4 DEF AddDownloadResult
  <2> HIDE DEF added
  <2> QED BY <1>3, <2>1
<1>5. CASE Len(added) > MaxDownloadResult
  <2>1. /\ downloadResults' = EraseAt(added, 1)
        /\ unfinishedDownloadResults' =
             IF KeptForSession(old, IF old = g THEN r ELSE result[old])
             THEN unfinishedDownloadResults \cup {old} ELSE unfinishedDownloadResults
        /\ result' = [result EXCEPT ![g] = r]
    BY <1>5 DEF AddDownloadResult
  <2> HIDE DEF added
  <2>2. 1 \in 1..Len(added) /\ old \in Gid
    BY <1>2, <1>5, ManAssumption
  <2>3. Keys(downloadResults') = Keys(added) \ {old}
    BY <1>2, <2>1, <2>2, EraseList
  <2>4. result'[old] = IF old = g THEN r ELSE result[old]
    BY <1>0, <2>1, <2>2
  <2>5. CASE k = old
    <3>1. KeptForSession(old, result'[old])
      BY <1>1, <2>5 DEF KeptForSession
    <3> QED BY <2>1, <2>4, <2>5, <3>1
  <2>6. CASE k # old
    BY <1>3, <2>1, <2>3, <2>6
  <2> QED BY <2>5, <2>6
<1> QED BY <1>4, <1>5

\* Every step keeps what the session file needs.
LEMMA NextKept ==
    ASSUME ListsInv, UnfinishedIsKept, [Next]_vars
    PROVE  UnfinishedIsKept'
<1>0. /\ TypeOK /\ Distinct(downloadResults) /\ Distinct(requestGroups)
      /\ downloadResults \in Seq(Gid) /\ \A g \in Gid : group[g] \in Group
  BY DEF ListsInv, ListsDisjoint, TypeOK
<1>1. ASSUME UNCHANGED <<downloadResults, unfinishedDownloadResults, result>>,
             dropped \subseteq dropped'
      PROVE  UnfinishedIsKept'
  BY <1>1 DEF UnfinishedIsKept, BelongsToOther
<1>2. CASE CommandNext
  BY <1>0, <1>1, <1>2, CommandFrame
<1>3. CASE HaltNext
  BY <1>0, <1>1, <1>3, HaltFrame
<1>4. CASE RemoveStoppedGroup
  <2>1. PICK g \in Gid :
          \/ UNCHANGED resultVars
          \/ AddDownloadResult(g, DownloadResult(group[g]))
    BY <1>0, <1>4, StopEffect
  <2>2. UNCHANGED dropped
    BY <1>4 DEF RemoveStoppedGroup, ProcessStopped, UnchangedByFill
  <2>3. DownloadResult(group[g]) \in Result
    BY <1>0, ResultType
  <2> QED BY <1>0, <1>1, <2>1, <2>2, <2>3, AddResultKept
<1>5. CASE \/ FillExecute \/ FillBegin \/ FillParse \/ FillSkip \/ FillStart \/ FillEnd
           \/ FillReturn \/ FillPeriodicCheck
  <2>1. UNCHANGED <<downloadResults, unfinishedDownloadResults, result, dropped>>
    BY <1>5 DEF FillExecute, FillBegin, FillParse, FillSkip, FillStart, FillEnd,
                FillReturn, FillPeriodicCheck, UnchangedByFill
  <2> QED BY <1>1, <2>1
<1>6. CASE RpcNext
  <2>1. UNCHANGED <<unfinishedDownloadResults, result>>
    BY ZenonT(60), <1>6 DEF RpcNext, Add, RemoveWaiting, Unpause, RemoveActive, Pause, ChangeOption,
         ChangeUri, ChangePosition, UnpauseAll, PauseAll, Shutdown,
         ChangeMaxConcurrentDownloads, RemoveResults, UnchangedByGroupCall, UnchangedByRpc
  <2>2. \/ UNCHANGED downloadResults /\ dropped \subseteq dropped'
        \/ \E gids \in SUBSET Gid : RemoveResults(gids)
    BY ZenonT(60), <1>6 DEF RpcNext, Add, RemoveWaiting, Unpause, RemoveActive, Pause, ChangeOption,
         ChangeUri, ChangePosition, UnpauseAll, PauseAll, Shutdown,
         ChangeMaxConcurrentDownloads, UnchangedByGroupCall
  <2>3. ASSUME NEW gids \in SUBSET Gid, RemoveResults(gids)
        PROVE  UnfinishedIsKept'
    <3>1. dropped' = dropped \cup gids
      BY <2>3 DEF RemoveResults
    <3>2. Keys(downloadResults) \subseteq Keys(downloadResults') \cup gids
      <4>1. \A g : Keys(Remove(downloadResults, g)) = Keys(downloadResults) \ {g}
        BY <1>0, RemoveList
      <4> QED BY <2>3, <4>1 DEF RemoveResults
    <3> QED BY <2>1, <3>1, <3>2 DEF UnfinishedIsKept, BelongsToOther
  <2> QED BY <1>1, <2>1, <2>2, <2>3
<1>7. CASE UNCHANGED vars
  BY <1>1, <1>7 DEF vars
<1> QED BY <1>2, <1>3, <1>4, <1>5, <1>6, <1>7 DEF Next, FillNext, LoopIterates, Exited

\* For any --max-download-result and any calls: with
\* --keep-unfinished-download-result, a download that ended unfinished stays
\* in the result list or in unfinishedDownloadResults_ until a client drops
\* it, so the session file can still name it.
THEOREM KeptCorrect == Spec => []UnfinishedIsKept
<1>1. Init => ListsInv /\ UnfinishedIsKept
  <2>1. Init => UnfinishedIsKept
    BY DEF Init, UnfinishedIsKept
  <2> QED BY <2>1, InitLists
<1>2. ListsInv /\ UnfinishedIsKept /\ [Next]_vars => (ListsInv /\ UnfinishedIsKept)'
  BY NextLists, NextKept
<1> QED BY <1>1, <1>2, PTL DEF Spec

-----------------------------------------------------------------------------
(***************************************************************************)
(* A download in the queue has the state WAITING: the calls of clients     *)
(* choose by the state what they do.                                       *)
(***************************************************************************)

WaitingState ==
    \A g \in Keys(reservedGroups) \cup Keys(pending) : group[g].state = "WAITING"

NewIsWaiting == \A g \in Gid : g \notin known => group[g].state = "WAITING"

WaitInv == ListsInv /\ WaitingState /\ NewIsWaiting

\* The calls of clients take downloads off the queue or move them, or add a
\* new one and request a queue check.
LEMMA RpcQueue ==
    ASSUME TypeOK, Distinct(reservedGroups), RpcNext
    PROVE  /\ queueCheck => queueCheck'
           /\ dropped \subseteq dropped'
           /\ \/ /\ Keys(reservedGroups') \subseteq Keys(reservedGroups)
                 /\ Keys(reservedGroups) \subseteq Keys(reservedGroups') \cup dropped'
                 /\ UNCHANGED known
              \/ \E g \in Gid : /\ g \notin known /\ known' = known \cup {g}
                                /\ Keys(reservedGroups') = Keys(reservedGroups) \cup {g}
                                /\ queueCheck'
<1> DEFINE Shrinks == /\ Keys(reservedGroups') \subseteq Keys(reservedGroups)
                      /\ Keys(reservedGroups) \subseteq Keys(reservedGroups') \cup dropped'
                      /\ UNCHANGED known
           Grows == \E g \in Gid : /\ g \notin known /\ known' = known \cup {g}
                                   /\ Keys(reservedGroups') = Keys(reservedGroups) \cup {g}
                                   /\ queueCheck'
<1>0. reservedGroups \in Seq(Gid)
  BY DEF TypeOK
<1>1. (queueCheck => queueCheck') /\ dropped \subseteq dropped'
  <2>1. queueCheck => queueCheck'
    BY DEF RpcNext, Add, RemoveWaiting, Unpause, RemoveActive, Pause, ChangeOption,
           ChangeUri, ChangePosition, UnpauseAll, PauseAll, Shutdown,
           ChangeMaxConcurrentDownloads, RemoveResults
  <2>2. dropped \subseteq dropped'
    BY DEF RpcNext, Add, RemoveWaiting, Unpause, RemoveActive, Pause, ChangeOption,
           ChangeUri, ChangePosition, UnpauseAll, PauseAll, Shutdown,
           ChangeMaxConcurrentDownloads, RemoveResults
  <2> QED BY <2>1, <2>2
<1>2. ASSUME UNCHANGED <<reservedGroups, known>> PROVE Shrinks
  BY <1>2
<1>3. ASSUME NEW g \in Gid, NEW pos \in 0..(Len(reservedGroups) + 1), NEW pause,
             Add(g, pos, pause)
      PROVE  /\ g \notin known /\ known' = known \cup {g}
             /\ Keys(reservedGroups') = Keys(reservedGroups) \cup {g}
             /\ queueCheck'
  <2> DEFINE at == IF pos > Len(reservedGroups) THEN Len(reservedGroups) ELSE pos
  <2>1. at \in 0..Len(reservedGroups)
    BY <1>0
  <2>2. /\ reservedGroups' = Insert(reservedGroups, at, g) /\ g \notin known
        /\ known' = known \cup {g} /\ queueCheck'
    BY <1>3 DEF Add
  <2> HIDE DEF at
  <2>3. Keys(Insert(reservedGroups, at, g)) = Keys(reservedGroups) \cup {g}
    BY <1>0, <2>1, InsertList
  <2> QED BY <2>2, <2>3
<1>4. ASSUME NEW g \in Gid, RemoveWaiting(g) PROVE Shrinks
  <2>1. Keys(Remove(reservedGroups, g)) = Keys(reservedGroups) \ {g}
    BY <1>0, RemoveList
  <2> QED BY <1>4, <2>1 DEF RemoveWaiting
<1>5. ASSUME NEW g \in Gid, NEW pos \in {-1, 0, 1},
             NEW how \in {"POS_SET", "POS_CUR", "POS_END"},
             ChangePosition(g, pos, how)
      PROVE  Shrinks
  <2>1. /\ pos \in Int /\ g \in Keys(reservedGroups)
        /\ reservedGroups' = Move(reservedGroups, g, pos, how) /\ UNCHANGED known
    BY <1>5 DEF ChangePosition
  <2>2. \A k : k \in Keys(Move(reservedGroups, g, pos, how)) <=> k \in Keys(reservedGroups)
    BY <1>0, <1>5, <2>1, MoveList, Zenon
  <2> QED BY <2>1, <2>2
<1>6. ASSUME NEW g \in Gid, NEW force \in BOOLEAN, RemoveActive(g, force) \/ Pause(g, force)
      PROVE  Shrinks
  BY <1>2, <1>6 DEF RemoveActive, Pause
<1>7. ASSUME NEW g \in Gid, Unpause(g) PROVE Shrinks
  BY <1>2, <1>7 DEF Unpause
<1>8. ASSUME NEW g \in Gid, NEW o, ChangeOption(g, o) PROVE Shrinks
  BY <1>2, <1>8 DEF ChangeOption
<1>9. ASSUME NEW g \in Gid, NEW n, ChangeUri(g, n) PROVE Shrinks
  BY <1>2, <1>9 DEF ChangeUri
<1>10. ASSUME UnpauseAll PROVE Shrinks
  BY <1>2, <1>10 DEF UnpauseAll
<1>11. ASSUME NEW force \in BOOLEAN, PauseAll(force) PROVE Shrinks
  BY <1>2, <1>11 DEF PauseAll
<1>12. ASSUME NEW force, Shutdown(force) PROVE Shrinks
  BY <1>2, <1>12 DEF Shutdown
<1>13. ASSUME NEW limit, ChangeMaxConcurrentDownloads(limit) PROVE Shrinks
  BY <1>2, <1>13 DEF ChangeMaxConcurrentDownloads
<1>14. ASSUME NEW gids, RemoveResults(gids) PROVE Shrinks
  BY <1>2, <1>14 DEF RemoveResults
<1> HIDE DEF Shrinks
<1>15. ASSUME NEW g \in Gid, NEW pos \in 0..(Len(reservedGroups) + 1), NEW pause,
              Add(g, pos, pause)
       PROVE  Grows
  BY <1>3, <1>15
<1> HIDE DEF Grows
<1>16. Shrinks \/ Grows
  BY <1>4, <1>5, <1>6, <1>8, <1>9, <1>10, <1>11, <1>13, <1>14, <1>15, <1>12, <1>7 DEF RpcNext
<1> QED BY <1>1, <1>16 DEF Shrinks, Grows

\* The fill loop moves a download from the queue to its local vector, and
\* back, or reads a new one.
LEMMA FillMoves ==
    ASSUME TypeOK, Distinct(reservedGroups)
    PROVE  /\ FillSkip =>
                \E g \in Keys(reservedGroups) :
                    /\ Held(g) /\ pc = "fill"
                    /\ Keys(pending') = Keys(pending) \cup {g}
                    /\ Keys(reservedGroups') = Keys(reservedGroups) \ {g}
           /\ FillEnd =>
                /\ Keys(reservedGroups') = Keys(pending) \cup Keys(reservedGroups)
                /\ Keys(pending') = {}
           /\ FillParse =>
                \/ /\ Head(uriListParser) = BadEntry
                   /\ queueCheck' /\ pc' = "return" /\ Keys(pending') = {}
                   /\ pending' = <<>> /\ UNCHANGED <<reservedGroups, known>>
                \/ \E h \in Gid : /\ h \notin known /\ known' = known \cup {h}
                                  /\ Keys(reservedGroups') = Keys(reservedGroups) \cup {h}
                                  /\ UNCHANGED <<queueCheck, pc, pending>>
<1>0. reservedGroups \in Seq(Gid) /\ pending \in Seq(Gid)
  BY DEF TypeOK
<1>1. Keys(<<>>) = {}
  BY DEF Keys
<1>2. ASSUME FillSkip
      PROVE  \E g \in Keys(reservedGroups) :
                 /\ Held(g) /\ pc = "fill"
                 /\ Keys(pending') = Keys(pending) \cup {g}
                 /\ Keys(reservedGroups') = Keys(reservedGroups) \ {g}
  <2> DEFINE g == reservedGroups[1]
  <2>1. /\ reservedGroups # <<>> /\ Held(g) /\ pc = "fill"
        /\ pending' = Append(pending, g) /\ reservedGroups' = EraseAt(reservedGroups, 1)
    BY <1>2 DEF FillSkip, Looping
  <2>2. 1 \in 1..Len(reservedGroups) /\ 1 \in DOMAIN reservedGroups /\ g \in Gid
    BY <1>0, <2>1
  <2>3. g \in Keys(reservedGroups)
    BY <2>2 DEF Keys
  <2>4. Keys(EraseAt(reservedGroups, 1)) = Keys(reservedGroups) \ {g}
    BY <1>0, <2>2, EraseList
  <2> HIDE DEF g
  <2>5. Keys(Append(pending, g)) = Keys(pending) \cup {g}
    BY <1>0, <2>2, AppendList
  <2> QED BY <2>1, <2>3, <2>4, <2>5
<1>3. ASSUME FillEnd
      PROVE  /\ Keys(reservedGroups') = Keys(pending) \cup Keys(reservedGroups)
             /\ Keys(pending') = {}
  <2>1. reservedGroups' = pending \o reservedGroups /\ pending' = <<>>
    BY <1>3 DEF FillEnd, ReturnPending
  <2>2. Keys(pending \o reservedGroups) = Keys(pending) \cup Keys(reservedGroups)
    BY <1>0, ConcatList
  <2> QED BY <1>1, <2>1, <2>2
<1>4. ASSUME FillParse
      PROVE  \/ /\ Head(uriListParser) = BadEntry
                /\ queueCheck' /\ pc' = "return" /\ Keys(pending') = {}
                /\ pending' = <<>> /\ UNCHANGED <<reservedGroups, known>>
             \/ \E h \in Gid : /\ h \notin known /\ known' = known \cup {h}
                               /\ Keys(reservedGroups') = Keys(reservedGroups) \cup {h}
                               /\ UNCHANGED <<queueCheck, pc, pending>>
  <2> DEFINE h == Head(uriListParser)
  <2>1. CASE h = BadEntry
    BY <1>1, <1>4, <2>1 DEF FillParse
  <2>2. CASE h # BadEntry
    <3>1. /\ h \notin known /\ reservedGroups' = PushBack(reservedGroups, h)
          /\ known' = known \cup {h} /\ UNCHANGED <<queueCheck, pc, pending>>
      BY <1>4, <2>2 DEF FillParse
    <3>2. uriListParser # <<>> /\ uriListParser \in Seq(Gid \cup {BadEntry})
      BY <1>4 DEF FillParse, Looping, TypeOK
    <3>3. h \in Gid
      BY <2>2, <3>2
    <3> HIDE DEF h
    <3>4. Keys(PushBack(reservedGroups, h)) = Keys(reservedGroups) \cup {h}
      BY <1>0, <3>3, PushList
    <3> QED BY <3>1, <3>3, <3>4
  <2> QED BY <2>1, <2>2
<1> QED BY <1>2, <1>3, <1>4

\* Every step keeps the states of the waiting downloads.
LEMMA NextWait ==
    ASSUME WaitInv, [Next]_vars
    PROVE  WaitInv'
<1>0. /\ TypeOK /\ ListsInv /\ ListsInv' /\ Distinct(reservedGroups) /\ Distinct(requestGroups)
      /\ Keys(reservedGroups) \cap Keys(requestGroups) = {}
      /\ Keys(pending) \cap (Keys(reservedGroups) \cup Keys(requestGroups)) = {}
      /\ Keys(reservedGroups) \subseteq known /\ Keys(pending) \subseteq known
      /\ Keys(requestGroups) \subseteq known
      /\ known \subseteq Gid /\ \A g \in Gid : group[g] \in Group
  BY NextLists DEF WaitInv, ListsInv, ListsDisjoint, Live, TypeOK
<1>1. /\ \A g \in Keys(reservedGroups) \cup Keys(pending) : group[g].state = "WAITING"
      /\ \A g \in Gid : g \notin known => group[g].state = "WAITING"
  BY DEF WaitInv, WaitingState, NewIsWaiting
<1>2. ASSUME \A g \in Gid : group'[g].state = group[g].state, known \subseteq known',
             Keys(reservedGroups') \cup Keys(pending')
               \subseteq Keys(reservedGroups) \cup Keys(pending) \cup (Gid \ known)
      PROVE  WaitInv'
  BY <1>0, <1>1, <1>2 DEF WaitInv, WaitingState, NewIsWaiting
<1>3. CASE CommandNext
  BY <1>0, <1>2, <1>3, CommandFrame
<1>4. CASE HaltNext
  BY <1>0, <1>2, <1>4, HaltFrame DEF SameCore
<1>5. CASE RpcNext
  <2>1. UNCHANGED pending /\ \A g \in Gid : group'[g].state = group[g].state
    BY <1>0, <1>5, RpcFrame
  <2>2. /\ known \subseteq known'
        /\ Keys(reservedGroups') \subseteq Keys(reservedGroups) \cup (Gid \ known)
    BY <1>0, <1>5, RpcQueue
  <2> QED BY <1>2, <2>1, <2>2
<1>6. CASE RemoveStoppedGroup
  <2>1. PICK g \in Keys(requestGroups) :
          /\ g \in Gid /\ UNCHANGED pending
          /\ \A k \in Gid : k # g => group'[k] = group[k]
          /\ \/ /\ group'[g] = Requeued(group[g])
                /\ Keys(reservedGroups') = Keys(reservedGroups) \cup {g}
                /\ UNCHANGED known
             \/ UNCHANGED <<reservedGroups, known>>
             \/ /\ Keys(FollowUps) \cap known = {} /\ Keys(FollowUps) \subseteq Gid
                /\ Keys(reservedGroups') = Keys(FollowUps) \cup Keys(reservedGroups)
                /\ known' = known \cup Keys(FollowUps)
    BY <1>0, <1>6, StopEffect
  <2>2. Requeued(group[g]).state = "WAITING"
    BY <1>0, <2>1, ReapedFields
  <2>3. \A k \in Keys(reservedGroups') : group'[k].state = "WAITING"
    BY <1>0, <1>1, <2>1, <2>2
  <2>4. \A k \in Keys(pending') : group'[k].state = "WAITING"
    BY <1>0, <1>1, <2>1
  <2>5. \A k \in Gid : k \notin known' => group'[k].state = "WAITING"
    BY <1>0, <1>1, <2>1
  <2> QED BY <1>0, <2>3, <2>4, <2>5 DEF WaitInv, WaitingState, NewIsWaiting
<1>7. CASE FillStart
  <2>1. PICK g \in Keys(reservedGroups) :
          /\ Keys(reservedGroups') = Keys(reservedGroups) \ {g}
          /\ \A k \in Gid : k # g => group'[k] = group[k]
          /\ UNCHANGED <<pending, known>>
    BY <1>0, <1>7, FillStartEffect
  <2> QED BY <1>0, <1>1, <2>1 DEF WaitInv, WaitingState, NewIsWaiting
<1>8. CASE FillParse \/ FillSkip \/ FillEnd
  <2>1. UNCHANGED group /\ (FillSkip \/ FillEnd => UNCHANGED known)
    BY <1>8 DEF FillParse, FillSkip, FillEnd
  <2>2. /\ known \subseteq known'
        /\ Keys(reservedGroups') \cup Keys(pending')
               \subseteq Keys(reservedGroups) \cup Keys(pending) \cup (Gid \ known)
    <3>1. CASE FillParse
      BY <1>0, <3>1, FillMoves
    <3>2. CASE FillSkip
      BY <1>0, <2>1, <3>2, FillMoves
    <3>3. CASE FillEnd
      BY <1>0, <2>1, <3>3, FillMoves
    <3> QED BY <1>8, <3>1, <3>2, <3>3
  <2> QED BY <1>2, <2>1, <2>2
<1>9. CASE FillExecute \/ FillBegin \/ FillReturn \/ FillPeriodicCheck
  <2>1. UNCHANGED <<group, reservedGroups, pending, known>>
    BY <1>9 DEF FillExecute, FillBegin, FillReturn, FillPeriodicCheck
  <2> QED BY <1>2, <2>1
<1>10. CASE UNCHANGED vars
  BY <1>2, <1>10 DEF vars
<1> QED BY <1>3, <1>4, <1>5, <1>6, <1>7, <1>8, <1>9, <1>10
        DEF Next, FillNext, LoopIterates, Exited

\* It holds at the start.
LEMMA InitWait ==
    ASSUME Init
    PROVE  WaitInv
<1>1. \A g \in Gid : group[g].state = "WAITING"
  BY DEF Init, NewGroup
<1>2. Keys(reservedGroups) \cup Keys(pending) \subseteq Gid
  BY ManAssumption DEF Init, Keys
<1> QED BY <1>1, <1>2, InitLists DEF WaitInv, WaitingState, NewIsWaiting

-----------------------------------------------------------------------------
(***************************************************************************)
(* No download is lost.  When an entry of the deferred input does not      *)
(* parse, the exception destroys the local vector of the fill loop with    *)
(* the downloads set aside in it, so there must be none: either every      *)
(* entry parses, or nothing can be held (no RPC, no dependencies).         *)
(***************************************************************************)

SafeToRead ==
    \/ BadEntry \notin Keys(uriListParser)
    \/ ~KeepRunning /\ pending = <<>> /\ \A g \in Gid : group[g].dependee = NoGid

\* Only reading an entry changes what is left of the input, and nothing is
\* set aside where nothing can be held.
LEMMA NextSafe ==
    ASSUME ListsInv, SafeToRead, [Next]_vars
    PROVE  SafeToRead'
<1>0. /\ TypeOK /\ Distinct(reservedGroups) /\ Distinct(requestGroups)
      /\ Keys(reservedGroups) \subseteq Gid
      /\ uriListParser \in Seq(Gid \cup {BadEntry}) /\ \A g \in Gid : group[g] \in Group
  BY DEF ListsInv, ListsDisjoint, TypeOK, Keys
<1>1. UNCHANGED uriListParser \/ (FillParse /\ uriListParser # <<>>
                                    /\ uriListParser' = Tail(uriListParser))
  <2>1. CASE CommandNext
    BY <2>1, <1>0, CommandEffect DEF UnchangedByCommand
  <2>2. CASE HaltNext
    BY <2>2, <1>0, HaltEffect DEF UnchangedByHalt
  <2>3. CASE RpcNext
    BY ZenonT(60), <2>3 DEF RpcNext, Add, RemoveWaiting, Unpause, RemoveActive, Pause, ChangeOption,
         ChangeUri, ChangePosition, UnpauseAll, PauseAll, Shutdown,
         ChangeMaxConcurrentDownloads, RemoveResults, UnchangedByGroupCall, UnchangedByRpc
  <2>4. CASE FillNext
    BY <2>4 DEF FillNext, FillExecute, RemoveStoppedGroup, ProcessStopped, FillBegin,
         FillParse, FillSkip, FillStart, FillEnd, FillReturn, FillPeriodicCheck, Looping
  <2>5. CASE UNCHANGED vars
    BY <2>5 DEF vars
  <2> QED BY <2>1, <2>2, <2>3, <2>4, <2>5 DEF Next, LoopIterates, Exited
<1>2. Keys(uriListParser') \subseteq Keys(uriListParser)
  <2>1. CASE UNCHANGED uriListParser
    BY <2>1
  <2>2. CASE uriListParser # <<>> /\ uriListParser' = Tail(uriListParser)
    <3>1. \A i \in DOMAIN Tail(uriListParser) :
            /\ i + 1 \in DOMAIN uriListParser
            /\ Tail(uriListParser)[i] = uriListParser[i + 1]
      BY <1>0, <2>2
    <3> QED BY <2>2, <3>1 DEF Keys
  <2> QED BY <1>1, <2>1, <2>2
<1>3. CASE BadEntry \notin Keys(uriListParser)
  BY <1>2, <1>3 DEF SafeToRead
<1>4. CASE ~KeepRunning /\ pending = <<>> /\ \A g \in Gid : group[g].dependee = NoGid
  <2>1. ASSUME UNCHANGED pending, \A g \in Gid : group'[g].dependee \in {group[g].dependee, NoGid}
        PROVE  SafeToRead'
    BY <1>4, <2>1 DEF SafeToRead
  <2>2. ~RpcNext
    BY <1>4 DEF RpcNext, Add, RemoveWaiting, Unpause, RemoveActive, Pause, ChangeOption,
         ChangeUri, ChangePosition, UnpauseAll, PauseAll, Shutdown,
         ChangeMaxConcurrentDownloads, RemoveResults, Rpc
  <2>3. CASE CommandNext
    <3>1. UNCHANGED pending
      BY <1>0, <2>3, CommandFrame
    <3>2. \A g \in Gid : group'[g].dependee = group[g].dependee
      BY <1>0, <2>3, CommandEffect DEF SameRest
    <3> QED BY <2>1, <3>1, <3>2
  <2>4. CASE HaltNext
    <3>1. UNCHANGED pending
      BY <1>0, <2>4, HaltFrame
    <3>2. \A g \in Gid : group'[g].dependee = group[g].dependee
      BY <1>0, <2>4, HaltEffect DEF HaltedFor, SameRest
    <3> QED BY <2>1, <3>1, <3>2
  <2>5. CASE RemoveStoppedGroup
    <3>1. PICK g \in Gid :
            /\ UNCHANGED pending /\ \A k \in Gid : k # g => group'[k] = group[k]
            /\ group'[g] = Requeued(group[g]) \/ group'[g] = Ended(group[g])
      BY <1>0, <2>5, StopEffect
    <3>2. /\ Requeued(group[g]).dependee = group[g].dependee
          /\ Ended(group[g]).dependee = group[g].dependee
      BY <1>0, ReapedFields
    <3> QED BY <2>1, <3>1, <3>2
  <2>6. CASE FillStart
    <3>1. PICK g \in Keys(reservedGroups) :
            /\ UNCHANGED pending /\ \A k \in Gid : k # g => group'[k] = group[k]
            /\ group'[g].dependee = NoGid
      BY <1>0, <2>6, FillStartEffect
    <3> QED BY <1>0, <2>1, <3>1
  <2>7. ~FillSkip
    <3>1. \A g \in Gid : ~Held(g)
      BY <1>4 DEF Held, DependencyResolved
    <3>2. FillSkip => \E g \in Gid : Held(g)
      BY <1>0, FillMoves
    <3> QED BY <3>1, <3>2
  <2>8. CASE FillParse \/ FillEnd
    <3>1. UNCHANGED <<group, pending>>
      BY <1>4, <2>8 DEF FillParse, FillEnd
    <3> QED BY <2>1, <3>1
  <2>9. CASE FillExecute \/ FillBegin \/ FillReturn \/ FillPeriodicCheck
    <3>1. UNCHANGED <<group, pending>>
      BY <2>9 DEF FillExecute, FillBegin, FillReturn, FillPeriodicCheck
    <3> QED BY <2>1, <3>1
  <2>10. CASE UNCHANGED vars
    BY <2>1, <2>10 DEF vars
  <2> QED BY <2>2, <2>3, <2>4, <2>5, <2>6, <2>7, <2>8, <2>9, <2>10
          DEF Next, FillNext, LoopIterates, Exited
<1> QED BY <1>3, <1>4 DEF SafeToRead

\* Every step leaves a live download in one of the lists.
LEMMA NextNotLost ==
    ASSUME ListsInv, SafeToRead, NoDownloadLost, [Next]_vars
    PROVE  NoDownloadLost'
<1>0. /\ TypeOK /\ Distinct(reservedGroups) /\ Distinct(requestGroups)
      /\ Keys(reservedGroups) \subseteq Gid /\ Keys(requestGroups) \subseteq Gid
      /\ uriListParser \in Seq(Gid \cup {BadEntry})
      /\ result \in [Gid -> Result \cup {"NONE"}] /\ known \subseteq Gid
      /\ \A g \in Gid : group[g] \in Group
  BY DEF ListsInv, ListsDisjoint, TypeOK, Keys
<1>1. Live \subseteq Keys(reservedGroups) \cup Keys(requestGroups) \cup Keys(pending)
  BY DEF NoDownloadLost
<1>2. ASSUME UNCHANGED <<reservedGroups, requestGroups, pending, result, known, dropped>>
      PROVE  NoDownloadLost'
  BY <1>1, <1>2 DEF NoDownloadLost, Live
<1>3. CASE CommandNext
  BY <1>0, <1>2, <1>3, CommandFrame
<1>4. CASE HaltNext
  BY <1>0, <1>2, <1>4, HaltFrame
<1>5. CASE RpcNext
  <2>1. UNCHANGED <<requestGroups, result, pending>>
    BY <1>0, <1>5, RpcFrame
  <2>2. /\ dropped \subseteq dropped'
        /\ \/ /\ Keys(reservedGroups) \subseteq Keys(reservedGroups') \cup dropped'
              /\ UNCHANGED known
           \/ \E g \in Gid : /\ known' = known \cup {g}
                             /\ Keys(reservedGroups') = Keys(reservedGroups) \cup {g}
    BY <1>0, <1>5, RpcQueue
  <2>3. Live' \subseteq Live \cup Keys(reservedGroups')
    BY <2>1, <2>2 DEF Live
  <2>4. Live \cap Live' \subseteq Keys(reservedGroups') \cup Keys(requestGroups) \cup Keys(pending)
    BY <1>1, <2>1, <2>2 DEF Live
  <2> QED BY <2>1, <2>3, <2>4 DEF NoDownloadLost
<1>6. CASE RemoveStoppedGroup
  <2>1. PICK g \in Keys(requestGroups) :
          /\ Keys(requestGroups') = Keys(requestGroups) \ {g}
          /\ \/ /\ Keys(reservedGroups') = Keys(reservedGroups) \cup {g}
                /\ UNCHANGED <<resultVars, known>>
             \/ /\ AddDownloadResult(g, DownloadResult(group[g]))
                /\ \/ UNCHANGED <<reservedGroups, known>>
                   \/ /\ Keys(reservedGroups') = Keys(FollowUps) \cup Keys(reservedGroups)
                      /\ known' = known \cup Keys(FollowUps)
          /\ UNCHANGED pending /\ UnchangedByFill
    BY <1>0, <1>6, StopEffect
  <2>2. CASE /\ Keys(reservedGroups') = Keys(reservedGroups) \cup {g}
             /\ UNCHANGED <<resultVars, known>>
    <3>1. Live' = Live
      BY <2>1, <2>2 DEF Live, UnchangedByFill
    <3> QED BY <1>1, <2>1, <2>2, <3>1 DEF NoDownloadLost
  <2>3. CASE AddDownloadResult(g, DownloadResult(group[g]))
    <3>1. result' = [result EXCEPT ![g] = DownloadResult(group[g])]
      BY <2>3 DEF AddDownloadResult
    <3>2. DownloadResult(group[g]) # "NONE"
      BY <1>0, <2>1, ResultType DEF Result
    <3>3. result'[g] # "NONE" /\ \A k \in Gid : k # g => result'[k] = result[k]
      BY <1>0, <2>1, <3>1, <3>2
    <3>4. CASE UNCHANGED <<reservedGroups, known>>
      <4>1. Live' \subseteq Live \ {g}
        BY <1>0, <2>1, <3>3, <3>4 DEF Live, UnchangedByFill
      <4> QED BY <1>1, <2>1, <3>4, <4>1 DEF NoDownloadLost
    <3>5. CASE /\ Keys(reservedGroups') = Keys(FollowUps) \cup Keys(reservedGroups)
               /\ known' = known \cup Keys(FollowUps)
      <4>0. Keys(FollowUps) \subseteq Gid
        BY ManAssumption DEF Keys
      <4>1. Live' \subseteq (Live \ {g}) \cup Keys(FollowUps)
        BY <1>0, <2>1, <3>3, <3>5, <4>0 DEF Live, UnchangedByFill
      <4> QED BY <1>1, <2>1, <3>5, <4>1 DEF NoDownloadLost
    <3>6. \/ UNCHANGED <<reservedGroups, known>>
          \/ /\ Keys(reservedGroups') = Keys(FollowUps) \cup Keys(reservedGroups)
             /\ known' = known \cup Keys(FollowUps)
      <4>1. ~UNCHANGED result
        <5>1. g \in Live
          BY <2>1 DEF ListsInv, ListsDisjoint
        <5> QED BY <3>3, <5>1 DEF Live
      <4> QED BY <2>1, <4>1
    <3> QED BY <3>4, <3>5, <3>6
  <2> QED BY <2>1, <2>2, <2>3
<1>7. CASE FillStart
  <2>1. PICK g \in Keys(reservedGroups) :
          /\ Keys(reservedGroups') = Keys(reservedGroups) \ {g}
          /\ Keys(requestGroups') = Keys(requestGroups) \cup {g}
          /\ UNCHANGED <<resultVars, pending, known>> /\ UnchangedByFill
    BY <1>0, <1>7, FillStartEffect
  <2>2. Live' = Live
    BY <2>1 DEF Live, UnchangedByFill
  <2> QED BY <1>1, <2>1, <2>2 DEF NoDownloadLost
<1>8. CASE FillSkip
  <2>1. PICK g \in Keys(reservedGroups) :
          /\ Keys(pending') = Keys(pending) \cup {g}
          /\ Keys(reservedGroups') = Keys(reservedGroups) \ {g}
    BY <1>0, <1>8, FillMoves
  <2>2. Live' = Live /\ UNCHANGED requestGroups
    BY <1>8 DEF FillSkip, Live, UnchangedByFill
  <2> QED BY <1>1, <2>1, <2>2 DEF NoDownloadLost
<1>9. CASE FillEnd
  <2>1. Keys(reservedGroups') = Keys(pending) \cup Keys(reservedGroups)
    BY <1>0, <1>9, FillMoves
  <2>2. Live' = Live /\ UNCHANGED requestGroups
    BY <1>9 DEF FillEnd, Live, UnchangedByFill
  <2> QED BY <1>1, <2>1, <2>2 DEF NoDownloadLost
<1>10. CASE FillParse
  <2>0. UNCHANGED <<requestGroups, result, dropped>> /\ uriListParser # <<>>
    BY <1>10 DEF FillParse, UnchangedByFill, Looping
  <2>1. CASE /\ Head(uriListParser) = BadEntry
             /\ pending' = <<>> /\ UNCHANGED <<reservedGroups, known>>
    <3>1. 1 \in DOMAIN uriListParser /\ Head(uriListParser) = uriListParser[1]
      BY <1>0, <2>0
    <3>2. BadEntry \in Keys(uriListParser)
      BY <2>1, <3>1 DEF Keys
    <3>3. UNCHANGED pending
      BY <2>1, <3>2 DEF SafeToRead
    <3> QED BY <1>2, <2>0, <2>1, <3>3
  <2>2. CASE \E h \in Gid : /\ h \notin known /\ known' = known \cup {h}
                            /\ Keys(reservedGroups') = Keys(reservedGroups) \cup {h}
                            /\ UNCHANGED <<queueCheck, pc, pending>>
    <3>1. PICK h \in Gid : /\ known' = known \cup {h}
                           /\ Keys(reservedGroups') = Keys(reservedGroups) \cup {h}
                           /\ UNCHANGED pending
      BY <2>2
    <3>2. Live' \subseteq Live \cup {h}
      BY <2>0, <3>1 DEF Live
    <3> QED BY <1>1, <2>0, <3>1, <3>2 DEF NoDownloadLost
  <2> QED BY <1>0, <1>10, <2>1, <2>2, FillMoves
<1>11. CASE FillExecute \/ FillBegin \/ FillReturn \/ FillPeriodicCheck
  <2>1. UNCHANGED <<reservedGroups, requestGroups, pending, result, known, dropped>>
    BY <1>11 DEF FillExecute, FillBegin, FillReturn, FillPeriodicCheck, UnchangedByFill
  <2> QED BY <1>2, <2>1
<1>12. CASE UNCHANGED vars
  BY <1>2, <1>12 DEF vars
<1> QED BY <1>3, <1>4, <1>5, <1>6, <1>7, <1>8, <1>9, <1>10, <1>11, <1>12
        DEF Next, FillNext, LoopIterates, Exited

\* A download that has neither ended nor been removed by a client is waiting
\* or active, for any downloads, limits, calls, signals and follow-ups, when
\* every entry of the deferred input parses, or when neither RPC nor a
\* dependency can hold a download in the queue.
THEOREM NothingLost ==
    ASSUME \/ BadEntry \notin Keys(DeferredInput)
           \/ ~KeepRunning /\ \A g \in Gid : DependsOn[g] = NoGid
    PROVE  Spec => []NoDownloadLost
<1>1. Init => ListsInv /\ SafeToRead /\ NoDownloadLost
  <2> SUFFICES ASSUME Init PROVE ListsInv /\ SafeToRead /\ NoDownloadLost
    OBVIOUS
  <2>1. SafeToRead
    BY DEF Init, SafeToRead, NewGroup
  <2>2. NoDownloadLost
    BY DEF Init, NoDownloadLost, Live
  <2> QED BY <2>1, <2>2, InitLists
<1>2. ListsInv /\ SafeToRead /\ NoDownloadLost /\ [Next]_vars
        => (ListsInv /\ SafeToRead /\ NoDownloadLost)'
  BY NextLists, NextSafe, NextNotLost
<1> QED BY <1>1, <1>2, PTL DEF Spec

-----------------------------------------------------------------------------
(***************************************************************************)
(* Wakeups.  Between two commands a queue check is requested whenever      *)
(* there is something to reap or to start.  During a pass this is made     *)
(* inductive by what the fill loop has done so far: what it set aside is   *)
(* held, and the slots it has left to give are at least the free ones,     *)
(* unless another check is requested.                                      *)
(***************************************************************************)

ReapRequested == (\E g \in Keys(requestGroups) : group[g].numCommand = 0) => queueCheck

SlotOffered ==
    numActive < maxConcurrentDownloads /\ (\E g \in Keys(reservedGroups) : ~Held(g))
        => queueCheck

WakeInv ==
    /\ pc \in {"commands", "return"} /\ haltRequested = 0 => ReapRequested /\ SlotOffered
    /\ pc = "fill" =>
         /\ ReapRequested
         /\ \A g \in Keys(pending) : Held(g)
         /\ queueCheck \/ numActive + num >= maxConcurrentDownloads + count
    /\ pc # "fill" => pending = <<>>
    /\ pc \in {"store2", "store4"} => haltRequested > 0

\* The invariant says what the property says.
LEMMA ReapedKeys ==
    ASSUME TypeOK
    PROVE  AllReaped <=> \A g \in Keys(requestGroups) : group[g].numCommand # 0
BY DEF AllReaped, Keys, Stopped

\* A held download stays held while no download loses its last command and
\* nobody unpauses it.
LEMMA HeldKept ==
    ASSUME TypeOK, NEW g \in Gid, Held(g),
           \A k \in Gid : group'[k].numCommand = 0 => group[k].numCommand = 0,
           group'[g].dependee = group[g].dependee,
           group[g].pauseRequested => group'[g].pauseRequested
    PROVE  Held(g)'
<1>1. CASE KeepRunning /\ group[g].pauseRequested
  BY <1>1 DEF Held
<1>2. CASE ~DependencyResolved(g)
  <2>1. group[g].dependee \in Gid /\ group[group[g].dependee].numCommand # 0
    BY <1>2 DEF DependencyResolved, TypeOK, Group
  <2>2. group'[group'[g].dependee].numCommand # 0
    BY <2>1
  <2>3. group'[g].dependee # NoGid
    BY <2>1, GidAssumption
  <2> QED BY <2>2, <2>3 DEF Held, DependencyResolved
<1> QED BY <1>1, <1>2 DEF Held

\* A step that requests no check, frees no slot, ends no download's last
\* command, and leaves everything held in the queue held.
LEMMA WakeKept ==
    ASSUME TypeOK, pc \in {"commands", "return"}, pc' \in {"commands", "return"},
           haltRequested = 0, ReapRequested, SlotOffered,
           queueCheck => queueCheck',
           queueCheck' \/ (/\ numActive' >= numActive
                           /\ numActive \in Int /\ numActive' \in Int
                           /\ UNCHANGED maxConcurrentDownloads
                           /\ Keys(requestGroups') \subseteq Keys(requestGroups)
                           /\ Keys(reservedGroups') \subseteq Keys(reservedGroups)
                           /\ Keys(requestGroups) \subseteq Gid
                           /\ \A k \in Gid : group'[k].numCommand = 0 => group[k].numCommand = 0
                           /\ \A k \in Keys(reservedGroups') : Held(k) => Held(k)')
    PROVE  ReapRequested' /\ SlotOffered'
<1>1. CASE queueCheck'
  BY <1>1 DEF ReapRequested, SlotOffered
<1>2. CASE ~queueCheck'
  <2>0. /\ ~queueCheck
        /\ numActive' >= numActive /\ numActive \in Int /\ numActive' \in Int
        /\ UNCHANGED maxConcurrentDownloads /\ maxConcurrentDownloads \in Int
        /\ Keys(requestGroups') \subseteq Keys(requestGroups)
        /\ Keys(reservedGroups') \subseteq Keys(reservedGroups)
        /\ Keys(requestGroups) \subseteq Gid
        /\ \A k \in Gid : group'[k].numCommand = 0 => group[k].numCommand = 0
        /\ \A k \in Keys(reservedGroups') : Held(k) => Held(k)'
    BY <1>2, ManAssumption DEF TypeOK
  <2>1. ReapRequested'
    BY <2>0 DEF ReapRequested
  <2>2. SlotOffered'
    <3>1. CASE numActive < maxConcurrentDownloads
      BY <2>0, <3>1 DEF SlotOffered
    <3>2. CASE ~(numActive < maxConcurrentDownloads)
      BY <2>0, <3>2 DEF SlotOffered
    <3> QED BY <3>1, <3>2
  <2> QED BY <2>1, <2>2
<1> QED BY <1>1, <1>2

\* The commands of a download.
LEMMA CommandWake ==
    ASSUME SlotInv, WaitInv, WakeInv, TypeOK', CommandNext
    PROVE  WakeInv'
<1>0. /\ TypeOK /\ numActive \in Int /\ numActive' \in Int
      /\ Keys(requestGroups) \subseteq Gid /\ Keys(reservedGroups) \subseteq Gid
      /\ Keys(reservedGroups) \cap Keys(requestGroups) = {}
  <2>1. TypeOK /\ Keys(reservedGroups) \cap Keys(requestGroups) = {}
    BY DEF SlotInv, ListsInv, ListsDisjoint
  <2>2. Keys(requestGroups) \subseteq Gid /\ Keys(reservedGroups) \subseteq Gid
    BY SMTT(60), <2>1 DEF TypeOK, Keys
  <2> QED BY <2>1, <2>2 DEF TypeOK
<1>1. PICK g \in Gid :
        /\ pc = "commands" /\ group[g].numCommand > 0
        /\ \A k \in Gid : k # g => group'[k] = group[k]
        /\ SameRest(group'[g], group[g])
        /\ group'[g].numCommand = 0 => queueCheck'
        /\ queueCheck => queueCheck'
        /\ numActive' # numActive => numActive' < numActive /\ queueCheck'
        /\ UnchangedByCommand
  BY <1>0, CommandEffect
<1>2. /\ pc' = "commands" /\ UNCHANGED <<haltRequested, requestGroups, reservedGroups>>
      /\ UNCHANGED <<maxConcurrentDownloads, pending>>
  BY <1>1 DEF UnchangedByCommand
<1>3. ASSUME haltRequested = 0 PROVE ReapRequested' /\ SlotOffered'
  <2>1. ReapRequested /\ SlotOffered
    BY <1>1, <1>3 DEF WakeInv
  <2>2. ASSUME ~queueCheck'
        PROVE  \A k \in Gid : group'[k].numCommand = 0 => group[k].numCommand = 0
    BY <1>1, <2>2
  <2>3. g \in Keys(requestGroups)
    BY <1>1 DEF SlotInv, CommandsOnlyWhenActive
  <2>4. ASSUME ~queueCheck', NEW k \in Keys(reservedGroups), Held(k) PROVE Held(k)'
    <3>1. k # g /\ k \in Gid
      BY <1>0, <2>3
    <3>2. group'[k] = group[k]
      BY <1>1, <3>1
    <3> QED BY <1>0, <2>2, <2>4, <3>1, <3>2, HeldKept
  <2>5. ~queueCheck' => numActive' >= numActive
    BY <1>0, <1>1
  <2> QED BY <1>0, <1>1, <1>2, <1>3, <2>1, <2>2, <2>4, <2>5, WakeKept
<1> QED BY <1>1, <1>2, <1>3 DEF WakeInv

\* The calls of clients never take a command away from a download.
LEMMA RpcCommands ==
    ASSUME TypeOK, RpcNext
    PROVE  \A g \in Gid : group'[g].numCommand = 0 => group[g].numCommand = 0
<1>0. group \in [Gid -> Group] /\ \A g \in Gid : group[g].numCommand \in Nat
  BY MaxCommandAssumption DEF TypeOK, Group
<1>1. CASE \E g \in Gid, n \in 1..MaxCommand : ChangeUri(g, n)
  <2>1. PICK g \in Gid, n \in 1..MaxCommand : ChangeUri(g, n)
    BY <1>1
  <2>2. group' = [group EXCEPT ![g] = [group[g] EXCEPT !.numCommand = group[g].numCommand + n]]
    BY <2>1 DEF ChangeUri
  <2>3. group'[g].numCommand = group[g].numCommand + n
    BY <1>0, <2>2 DEF Group
  <2> QED BY <1>0, <2>2, <2>3, MaxCommandAssumption
<1>2. CASE ~ \E g \in Gid, n \in 1..MaxCommand : ChangeUri(g, n)
  BY <1>2, RpcFrame
<1> QED BY <1>1, <1>2

\* A call that requests no queue check leaves what is held in the queue held.
LEMMA RpcHolds ==
    ASSUME WaitInv, RpcNext, ~queueCheck', NEW k \in Keys(reservedGroups')
    PROVE  /\ k \in Gid /\ group'[k].dependee = group[k].dependee
           /\ group[k].pauseRequested => group'[k].pauseRequested
           /\ UNCHANGED maxConcurrentDownloads
<1> DEFINE Good == /\ group'[k].dependee = group[k].dependee
                   /\ group[k].pauseRequested => group'[k].pauseRequested
                   /\ UNCHANGED maxConcurrentDownloads
<1>0. /\ TypeOK /\ group \in [Gid -> Group] /\ Distinct(reservedGroups)
      /\ reservedGroups \in Seq(Gid) /\ \A g \in Gid : group[g] \in Group
  BY DEF WaitInv, ListsInv, ListsDisjoint, TypeOK
<1>1. k \in Gid /\ k \in Keys(reservedGroups) /\ group[k].state = "WAITING"
  <2>1. k \in Keys(reservedGroups)
    BY <1>0, RpcQueue
  <2> QED BY <1>0, <2>1 DEF WaitInv, WaitingState, Keys
<1>2. ASSUME NEW g \in Gid, NEW pos, NEW pause, Add(g, pos, pause) PROVE FALSE
  BY <1>2 DEF Add
<1>3. ASSUME NEW g \in Gid, RemoveWaiting(g) PROVE Good
  <2>1. Keys(Remove(reservedGroups, g)) = Keys(reservedGroups) \ {g}
    BY <1>0, RemoveList
  <2>2. k # g
    BY <1>3, <2>1 DEF RemoveWaiting
  <2> QED BY <1>0, <1>1, <1>3, <2>2 DEF RemoveWaiting, UnchangedByGroupCall
<1>4. ASSUME NEW g \in Gid, NEW force \in BOOLEAN, RemoveActive(g, force) PROVE Good
  <2>1. k # g
    BY <1>1, <1>4 DEF RemoveActive
  <2> QED BY <1>0, <1>1, <1>4, <2>1 DEF RemoveActive, UnchangedByGroupCall
<1>5. ASSUME NEW r, NEW reserved \in BOOLEAN, NEW force \in BOOLEAN,
             r = PauseRequestGroup(group[k], reserved, force)
      PROVE  /\ r.dependee = group[k].dependee
             /\ group[k].pauseRequested => r.pauseRequested
  BY <1>0, <1>1, <1>5, PauseFields DEF PausedFor, SameRest
<1>6. ASSUME NEW g \in Gid, NEW force \in BOOLEAN, Pause(g, force) PROVE Good
  <2> DEFINE reserved == group[g].state = "WAITING"
             r == PauseRequestGroup(group[g], reserved, force)
  <2>1. group' = [group EXCEPT ![g] = r] /\ UNCHANGED maxConcurrentDownloads
    BY <1>6 DEF Pause, UnchangedByGroupCall
  <2>2. k = g => r.dependee = group[k].dependee /\ (group[k].pauseRequested => r.pauseRequested)
    BY <1>5
  <2> HIDE DEF r
  <2> QED BY <1>0, <1>1, <2>1, <2>2
<1>7. ASSUME NEW force \in BOOLEAN, PauseAll(force) PROVE Good
  <2>1. \/ group'[k] = PauseRequestGroup(group[k], FALSE, force)
        \/ group'[k] = PauseRequestGroup(group[k], TRUE, force)
        \/ group'[k] = group[k]
    BY <1>1, <1>7 DEF PauseAll
  <2>2. UNCHANGED maxConcurrentDownloads
    BY <1>7 DEF PauseAll, UnchangedByGroupCall
  <2> QED BY <1>5, <2>1, <2>2
<1>8. ASSUME NEW g \in Gid, NEW o, ChangeOption(g, o) PROVE Good
  <2>1. group' = [group EXCEPT ![g] = OptionChanged(group[g], o)]
        /\ UNCHANGED maxConcurrentDownloads
    BY <1>8 DEF ChangeOption, UnchangedByGroupCall
  <2>2. k = g => OptionChanged(group[g], o) = [group[k] EXCEPT !.option = group[k].option \cup {o}]
    BY <1>1 DEF OptionChanged
  <2>3. ASSUME NEW r, r = [group[k] EXCEPT !.option = group[k].option \cup {o}]
        PROVE  /\ r.dependee = group[k].dependee /\ r.pauseRequested = group[k].pauseRequested
    BY <1>0, <1>1, <2>3 DEF Group
  <2>4. CASE k = g
    <3>1. group'[k] = [group[k] EXCEPT !.option = group[k].option \cup {o}]
      BY <1>0, <1>1, <2>1, <2>2, <2>4
    <3> QED BY <2>1, <2>3, <3>1
  <2>5. CASE k # g
    BY <1>0, <1>1, <2>1, <2>5
  <2> QED BY <2>4, <2>5
<1>9. ASSUME UNCHANGED <<group, maxConcurrentDownloads>> PROVE Good
  BY <1>9
<1>10. ASSUME NEW g \in Gid, Unpause(g) PROVE FALSE
  BY <1>10 DEF Unpause
<1>11. ~UnpauseAll
  BY DEF UnpauseAll
<1>12. ASSUME NEW g \in Gid, NEW n, ChangeUri(g, n) PROVE Good
  <2>1. /\ group' = [group EXCEPT ![g] = [group[g] EXCEPT !.numCommand = group[g].numCommand + n]]
        /\ UNCHANGED maxConcurrentDownloads
    BY <1>12 DEF ChangeUri, UnchangedByGroupCall
  <2> QED BY <1>0, <1>1, <2>1 DEF Group
<1>13. ASSUME NEW g \in Gid, NEW pos, NEW how, ChangePosition(g, pos, how) PROVE Good
  BY <1>9, <1>13 DEF ChangePosition, UnchangedByGroupCall
<1>14. ASSUME NEW force, Shutdown(force) PROVE Good
  BY <1>9, <1>14 DEF Shutdown
<1>15. ASSUME NEW limit, ChangeMaxConcurrentDownloads(limit) PROVE FALSE
  BY <1>15 DEF ChangeMaxConcurrentDownloads
<1>16. ASSUME NEW gids, RemoveResults(gids) PROVE Good
  BY <1>9, <1>16 DEF RemoveResults
<1> HIDE DEF Good
<1>17. Good
  BY <1>2, <1>3, <1>4, <1>6, <1>7, <1>8, <1>10, <1>11, <1>12, <1>13, <1>14, <1>15, <1>16
     DEF RpcNext
<1> QED BY <1>1, <1>17 DEF Good

\* The calls of clients.
LEMMA RpcWake ==
    ASSUME WaitInv, WakeInv, TypeOK', RpcNext
    PROVE  WakeInv'
<1>0. /\ TypeOK /\ Distinct(reservedGroups) /\ numActive \in Int /\ numActive' \in Int
      /\ Keys(requestGroups) \subseteq Gid
  <2>1. TypeOK /\ Distinct(reservedGroups)
    BY DEF WaitInv, ListsInv, ListsDisjoint
  <2>2. Keys(requestGroups) \subseteq Gid
    BY SMTT(60), <2>1 DEF TypeOK, Keys
  <2> QED BY <2>1, <2>2 DEF TypeOK
<1>1. pc = "commands" /\ haltRequested = 0 /\ UNCHANGED <<pc, haltRequested>>
  BY ZenonT(60) DEF RpcNext, Add, RemoveWaiting, Unpause, RemoveActive, Pause, ChangeOption,
         ChangeUri, ChangePosition, UnpauseAll, PauseAll, Shutdown, Rpc,
         ChangeMaxConcurrentDownloads, RemoveResults, UnchangedByGroupCall, UnchangedByRpc
<1>2. UNCHANGED <<requestGroups, numActive, pending>>
  BY <1>0, RpcFrame
<1>3. \A k \in Gid : group'[k].numCommand = 0 => group[k].numCommand = 0
  BY <1>0, RpcCommands
<1>4. ReapRequested /\ SlotOffered
  BY <1>1 DEF WakeInv
<1>5. ReapRequested' /\ SlotOffered'
  <2>1. CASE queueCheck'
    BY <2>1 DEF ReapRequested, SlotOffered
  <2>2. CASE ~queueCheck'
    <3>1. ~queueCheck /\ Keys(reservedGroups') \subseteq Keys(reservedGroups)
      BY <1>0, <2>2, RpcQueue
    <3>2. \A k \in Keys(reservedGroups') : Held(k) => Held(k)'
      BY <1>0, <1>3, <2>2, RpcHolds, HeldKept
    <3>3. Keys(reservedGroups') # {} => UNCHANGED maxConcurrentDownloads
      BY <2>2, RpcHolds
    <3>4. SlotOffered'
      BY <1>2, <1>4, <3>1, <3>2, <3>3 DEF SlotOffered
    <3>5. ReapRequested'
      BY <1>0, <1>2, <1>3, <1>4, <3>1 DEF ReapRequested
    <3> QED BY <3>4, <3>5
  <2> QED BY <2>1, <2>2
<1> QED BY <1>1, <1>2, <1>5 DEF WakeInv

\* A pass over the queue.
LEMMA FillWake ==
    ASSUME ~Optimize, WaitInv, WakeInv, FillNext
    PROVE  WakeInv'
<1>0. /\ TypeOK /\ Distinct(reservedGroups) /\ Distinct(requestGroups)
      /\ Keys(requestGroups) \subseteq Gid /\ Keys(reservedGroups) \subseteq Gid
      /\ Keys(pending) \subseteq Gid
      /\ Keys(pending) \cap Keys(reservedGroups) = {}
      /\ numActive \in Int /\ maxConcurrentDownloads \in Int /\ num \in Int /\ count \in Int
      /\ \A g \in Gid : group[g].numCommand \in Nat
  <2>1. /\ TypeOK /\ Distinct(reservedGroups) /\ Distinct(requestGroups)
        /\ Keys(pending) \cap Keys(reservedGroups) = {}
    BY DEF WaitInv, ListsInv, ListsDisjoint
  <2>2. /\ Keys(requestGroups) \subseteq Gid /\ Keys(reservedGroups) \subseteq Gid
        /\ Keys(pending) \subseteq Gid
    BY <2>1 DEF TypeOK, Keys
  <2>3. maxConcurrentDownloads \in Int
    BY <2>1, ManAssumption DEF TypeOK
  <2>4. \A g \in Gid : group[g].numCommand \in Nat
    BY <2>1, MaxCommandAssumption DEF TypeOK, Group
  <2> QED BY <2>1, <2>2, <2>3, <2>4 DEF TypeOK
<1>1. Keys(<<>>) = {}
  BY DEF Keys
<1>2. CASE FillExecute
  <2>1. \/ pc' = "remove" /\ UNCHANGED pending
        \/ pc = "commands" /\ haltRequested > 0 /\ UNCHANGED <<pc, haltRequested, pending>>
    BY <1>2 DEF FillExecute, UnchangedByFill
  <2>2. pc = "commands"
    BY <1>2 DEF FillExecute
  <2>3. haltRequested > 0 => haltRequested # 0
    BY <1>0 DEF TypeOK
  <2> QED BY <2>1, <2>2, <2>3 DEF WakeInv
<1>3. CASE RemoveStoppedGroup
  <2>1. /\ pc \in {"remove", "finalRemove"} /\ UNCHANGED <<pc, pending>>
    BY <1>0, <1>3, StopEffect
  <2> QED BY <2>1 DEF WakeInv
<1>4. CASE FillBegin
  <2>1. /\ pc = "remove" /\ \A g \in Keys(requestGroups) : group[g].numCommand # 0
        /\ UNCHANGED <<group, requestGroups, reservedGroups, numActive, queueCheck, pending>>
        /\ UNCHANGED <<maxConcurrentDownloads, haltRequested>>
        /\ IF maxConcurrentDownloads <= numActive
           THEN pc' = "return"
           ELSE pc' = "fill" /\ count' = 0 /\ num' = maxConcurrentDownloads - numActive
    BY <1>0, <1>4, ReapedKeys DEF FillBegin, FillLimits, FillCount, UnchangedByFill
  <2>2. pending = <<>>
    BY <2>1 DEF WakeInv
  <2>3. ReapRequested'
    BY <2>1 DEF ReapRequested
  <2>4. CASE maxConcurrentDownloads <= numActive
    <3>1. SlotOffered'
      BY <1>0, <2>1, <2>4 DEF SlotOffered
    <3> QED BY <2>1, <2>2, <2>3, <2>4, <3>1 DEF WakeInv
  <2>5. CASE ~(maxConcurrentDownloads <= numActive)
    <3>1. numActive' + num' >= maxConcurrentDownloads' + count'
      BY <1>0, <2>1, <2>5
    <3> QED BY <1>1, <2>1, <2>2, <2>3, <2>5, <3>1 DEF WakeInv
  <2> QED BY <2>4, <2>5
<1>5. CASE FillParse
  <2>1. /\ pc = "fill" /\ UNCHANGED <<group, requestGroups, numActive, count, num>>
        /\ UNCHANGED <<maxConcurrentDownloads, haltRequested>>
    BY <1>5 DEF FillParse, Looping, UnchangedByFill
  <2>2. CASE queueCheck' /\ pc' = "return" /\ pending' = <<>>
    BY <2>2 DEF WakeInv, ReapRequested, SlotOffered
  <2>3. CASE UNCHANGED <<queueCheck, pc, pending>>
    BY <2>1, <2>3 DEF WakeInv, ReapRequested, Held, DependencyResolved
  <2> QED BY <1>0, <1>5, <2>2, <2>3, FillMoves
<1>6. CASE FillSkip
  <2>1. PICK g \in Keys(reservedGroups) :
          Held(g) /\ pc = "fill" /\ Keys(pending') = Keys(pending) \cup {g}
    BY <1>0, <1>6, FillMoves
  <2>2. UNCHANGED <<group, requestGroups, numActive, queueCheck, pc, count, num,
                    maxConcurrentDownloads>>
    BY <1>6 DEF FillSkip, UnchangedByFill
  <2> QED BY <2>1, <2>2 DEF WakeInv, ReapRequested, Held, DependencyResolved
<1>7. CASE FillStart
  <2>1. PICK g \in Keys(reservedGroups) :
          /\ pc = "fill" /\ count < num
          /\ Keys(requestGroups') = Keys(requestGroups) \cup {g}
          /\ \A k \in Gid : k # g => group'[k] = group[k]
          /\ group'[g].numCommand >= group[g].numCommand
          /\ group'[g].numCommand = 0 => queueCheck'
          /\ queueCheck => queueCheck'
          /\ \/ count' = count + 1 /\ numActive' = numActive + 1
             \/ count' = count + 1 /\ numActive' = numActive /\ queueCheck'
             \/ count' = count /\ numActive' = numActive + 1
          /\ UNCHANGED <<pc, pending, num>> /\ UnchangedByFill
    BY <1>0, <1>7, FillStartEffect
  <2>2. \A k \in Gid : group'[k].numCommand = 0 => group[k].numCommand = 0
    <3>1. ASSUME group'[g].numCommand = 0 PROVE group[g].numCommand = 0
      BY <1>0, <2>1, <3>1
    <3> QED BY <2>1, <3>1
  <2>3. \A k \in Keys(pending') : Held(k)'
    <3> SUFFICES ASSUME NEW k \in Keys(pending) PROVE Held(k)'
      BY <2>1
    <3>1. k \in Gid /\ k # g /\ Held(k)
      BY <1>0, <2>1 DEF WakeInv
    <3>2. group'[k] = group[k]
      BY <2>1, <3>1
    <3> QED BY <1>0, <2>2, <3>1, <3>2, HeldKept
  <2>4. ReapRequested'
    <3>1. ReapRequested
      BY <2>1 DEF WakeInv
    <3> QED BY <1>0, <2>1, <3>1 DEF ReapRequested
  <2>5. queueCheck' \/ numActive' + num' >= maxConcurrentDownloads' + count'
    <3>1. queueCheck \/ numActive + num >= maxConcurrentDownloads + count
      BY <2>1 DEF WakeInv
    <3>2. UNCHANGED maxConcurrentDownloads
      BY <2>1 DEF UnchangedByFill
    <3>3. ASSUME numActive + num >= maxConcurrentDownloads + count
          PROVE  queueCheck' \/ numActive' + num' >= maxConcurrentDownloads' + count'
      BY <1>0, <2>1, <3>2, <3>3
    <3> QED BY <2>1, <3>1, <3>3
  <2> QED BY <2>1, <2>3, <2>4, <2>5 DEF WakeInv
<1>8. CASE FillEnd
  <2>1. /\ pc = "fill" /\ ~Looping /\ pc' = "return" /\ pending' = <<>>
        /\ UNCHANGED <<group, requestGroups, numActive, queueCheck, maxConcurrentDownloads>>
    BY <1>8 DEF FillEnd, UnchangedByFill
  <2>2. Keys(reservedGroups') = Keys(pending) \cup Keys(reservedGroups)
    BY <1>0, <1>8, FillMoves
  <2>3. /\ ReapRequested /\ \A g \in Keys(pending) : Held(g)
        /\ queueCheck \/ numActive + num >= maxConcurrentDownloads + count
    BY <2>1 DEF WakeInv
  <2>4. ReapRequested'
    BY <2>1, <2>3 DEF ReapRequested
  <2>5. \A g \in Gid : Held(g)' <=> Held(g)
    BY <2>1 DEF Held, DependencyResolved
  <2>6. SlotOffered'
    <3>1. CASE queueCheck
      BY <2>1, <3>1 DEF SlotOffered
    <3>2. CASE ~queueCheck /\ reservedGroups = <<>>
      BY <1>0, <1>1, <2>1, <2>2, <2>3, <2>5, <3>2 DEF SlotOffered
    <3>3. CASE ~queueCheck /\ ~(count < num)
      <4>1. ~(numActive < maxConcurrentDownloads)
        BY <1>0, <2>3, <3>3
      <4> QED BY <2>1, <4>1 DEF SlotOffered
    <3> QED BY <2>1, <3>1, <3>2, <3>3 DEF Looping
  <2> QED BY <2>1, <2>4, <2>6 DEF WakeInv
<1>9. CASE FillReturn
  <2>1. /\ pc = "return"
        /\ UNCHANGED <<group, requestGroups, reservedGroups, numActive, pending,
                       maxConcurrentDownloads, haltRequested>>
        /\ pc' = "remove" \/ (pc' = "commands" /\ UNCHANGED queueCheck)
    BY <1>9 DEF FillReturn, UnchangedByFill
  <2>2. CASE pc' = "remove"
    BY <2>1, <2>2 DEF WakeInv
  <2>3. CASE pc' = "commands" /\ UNCHANGED queueCheck
    BY <2>1, <2>3 DEF WakeInv, ReapRequested, SlotOffered, Held, DependencyResolved
  <2> QED BY <2>1, <2>2, <2>3
<1>10. ~FillPeriodicCheck
  BY DEF FillPeriodicCheck
<1> QED BY <1>2, <1>3, <1>4, <1>5, <1>6, <1>7, <1>8, <1>9, <1>10 DEF FillNext

\* A halt, and every other step.
LEMMA NextWake ==
    ASSUME ~Optimize, "changeUri" \notin Methods, SlotInv, WaitInv, WakeInv, [Next]_vars
    PROVE  WakeInv'
<1>0. TypeOK /\ TypeOK'
  BY NextTypes DEF WaitInv, ListsInv
<1>1. CASE CommandNext
  BY <1>0, <1>1, CommandWake
<1>2. CASE FillNext
  BY <1>2, FillWake
<1>3. CASE RpcNext
  BY <1>0, <1>3, RpcWake
<1>4. CASE HaltNext
  <2>1. /\ pc # "commands" \/ ~(haltRequested' > 0) => UNCHANGED group
        /\ haltRequested > 0 => haltRequested' > 0
        /\ \/ UNCHANGED pc
           \/ pc = "commands" /\ pc' \in {"store2", "store4"} /\ haltRequested' > 0
           \/ pc \in {"store2", "store4"} /\ pc' = "commands"
           \/ pc \in {"commands", "finalRemove"} /\ pc' \in {"finalRemove", "exited"}
        /\ UNCHANGED <<reservedGroups, requestGroups, numActive, queueCheck,
                       maxConcurrentDownloads, pending, count, num>>
    BY <1>0, <1>4, HaltEffect DEF UnchangedByHalt
  <2>2. haltRequested \in Nat /\ haltRequested' \in Nat
    BY SMTT(60), <1>0 DEF TypeOK
  <2>3. ASSUME pc' \in {"commands", "return"}, haltRequested' = 0
        PROVE  ReapRequested' /\ SlotOffered'
    <3>1. UNCHANGED <<pc, group>> /\ haltRequested = 0
      BY <2>1, <2>2, <2>3 DEF WakeInv
    <3> QED BY <2>1, <2>3, <3>1 DEF WakeInv, ReapRequested, SlotOffered, Held,
                                    DependencyResolved
  <2>4. ASSUME pc' = "fill"
        PROVE  /\ ReapRequested' /\ \A g \in Keys(pending') : Held(g)'
               /\ queueCheck' \/ numActive' + num' >= maxConcurrentDownloads' + count'
    <3>1. pc = "fill" /\ UNCHANGED group
      BY <2>1, <2>4
    <3> QED BY <2>1, <3>1 DEF WakeInv, ReapRequested, Held, DependencyResolved
  <2>5. pc' # "fill" => pending' = <<>>
    BY <2>1 DEF WakeInv
  <2>6. pc' \in {"store2", "store4"} => haltRequested' > 0
    BY <2>1 DEF WakeInv
  <2> QED BY <2>3, <2>4, <2>5, <2>6 DEF WakeInv
<1>5. CASE UNCHANGED vars
  BY <1>5 DEF vars, WakeInv, ReapRequested, SlotOffered, Held, DependencyResolved
<1> QED BY <1>1, <1>2, <1>3, <1>4, <1>5 DEF Next, LoopIterates, Exited

\* No wakeup is lost, for any downloads and limits: whenever the loop is
\* between two commands and not halting, a download to reap, or a free slot
\* and a download that may take it, comes with a requested queue check.
\* (--optimize-concurrent-downloads works with a limit below the configured
\* one and asks again every second; changeUri, see CommandsOnlyWhenActive,
\* lets a command of a waiting download clear its pause.)
THEOREM WakeupsCorrect ==
    ASSUME ~Optimize, "changeUri" \notin Methods
    PROVE  Spec => []NoLostWakeup
<1>1. Init => SlotInv /\ WaitInv /\ WakeInv
  <2> SUFFICES ASSUME Init PROVE SlotInv /\ WaitInv /\ WakeInv
    OBVIOUS
  <2>1. WakeInv
    BY DEF Init, WakeInv, ReapRequested, SlotOffered
  <2> QED BY <2>1, InitSlots, InitWait
<1>2. SlotInv /\ WaitInv /\ WakeInv /\ [Next]_vars => (SlotInv /\ WaitInv /\ WakeInv)'
  BY NextSlots, NextWait, NextWake
<1>3. SlotInv /\ WaitInv /\ WakeInv => NoLostWakeup
  <2> SUFFICES ASSUME SlotInv, WakeInv, pc = "commands", haltRequested = 0
               PROVE  /\ ~AllReaped => queueCheck
                      /\ SlotOffered
    BY DEF NoLostWakeup, SlotOffered
  <2>1. TypeOK
    BY DEF SlotInv, ListsInv
  <2> QED BY <2>1, ReapedKeys DEF WakeInv, ReapRequested
<1> QED BY <1>1, <1>2, <1>3, PTL DEF Spec

-----------------------------------------------------------------------------
(***************************************************************************)
(* The limit on concurrent downloads.  numActive_ alone does not show that *)
(* a pass respects it: the count of starts that bounds the loop leaves out *)
(* the failed ones, and a seeder that starts counts in it but takes no     *)
(* slot.  What the loop keeps is the room it has left.                     *)
(***************************************************************************)

RoomLeft == pc = "fill" => Cardinality(Running) + num <= maxConcurrentDownloads + count

\* The running downloads are finitely many, and take slots.
LEMMA RunningFinite ==
    ASSUME TypeOK
    PROVE  /\ IsFiniteSet(Running) /\ Cardinality(Running) \in Nat
           /\ Cardinality(Running) <= Cardinality(SlotHolders)
<1>1. Running \in SUBSET SlotHolders
  BY DEF Running
<1>2. IsFiniteSet(SlotHolders)
  BY SlotsFinite
<1>3. IsFiniteSet(Running) /\ Cardinality(Running) <= Cardinality(SlotHolders)
  BY <1>1, <1>2, FS_Subset
<1> QED BY <1>3, FS_CardinalityType

\* A start adds at most the started download to the running ones, and
\* nothing when it fails.
LEMMA StartRuns ==
    ASSUME SlotInv, FillStart
    PROVE  /\ pc = "fill" /\ count < num /\ UNCHANGED <<num, maxConcurrentDownloads>>
           /\ \/ count' = count + 1 /\ \E g \in Gid : Running' \subseteq Running \cup {g}
              \/ count' = count /\ Running' \subseteq Running
<1>0. /\ TypeOK /\ Distinct(reservedGroups) /\ Keys(requestGroups) \subseteq Gid
      /\ Keys(reservedGroups) \subseteq Gid
      /\ Keys(reservedGroups) \cap Keys(requestGroups) = {} /\ CommandsOnlyWhenActive
  <2>1. TypeOK /\ Distinct(reservedGroups) /\ CommandsOnlyWhenActive
        /\ Keys(reservedGroups) \cap Keys(requestGroups) = {}
    BY DEF SlotInv, ListsInv, ListsDisjoint
  <2>2. Keys(requestGroups) \subseteq Gid /\ Keys(reservedGroups) \subseteq Gid
    BY <2>1 DEF TypeOK, Keys
  <2> QED BY <2>1, <2>2
<1>1. PICK g \in Keys(reservedGroups) :
        /\ pc = "fill" /\ count < num
        /\ Keys(requestGroups') = Keys(requestGroups) \cup {g}
        /\ \A k \in Gid : k # g => group'[k] = group[k]
        /\ \/ count' = count + 1
           \/ count' = count /\ group'[g].numCommand = group[g].numCommand
        /\ UNCHANGED num /\ UnchangedByFill
  BY <1>0, FillStartEffect
<1>2. g \in Gid /\ ~(group[g].numCommand > 0)
  BY <1>0 DEF CommandsOnlyWhenActive
<1>3. Running' \subseteq Running \cup {g}
  BY <1>0, <1>1, <1>2 DEF Running, SlotHolders
<1>4. group'[g].numCommand = group[g].numCommand => g \notin Running'
  BY <1>2 DEF Running
<1> QED BY <1>1, <1>2, <1>3, <1>4 DEF UnchangedByFill

\* Every step keeps the room.
LEMMA NextRoom ==
    ASSUME ~Optimize, SlotInv, RoomLeft, [Next]_vars
    PROVE  RoomLeft'
<1>0. /\ TypeOK /\ TypeOK' /\ numActive = Cardinality(SlotHolders)
      /\ num \in Int /\ count \in Int /\ numActive \in Int /\ maxConcurrentDownloads \in Int
  <2>1. TypeOK /\ TypeOK' /\ numActive = Cardinality(SlotHolders)
    BY NextTypes DEF SlotInv, ListsInv, NumActiveAccounting
  <2>2. maxConcurrentDownloads \in Int
    BY <2>1, ManAssumption DEF TypeOK
  <2> QED BY SMTT(60), <2>1, <2>2 DEF TypeOK
<1>1. Cardinality(Running) \in Nat /\ IsFiniteSet(Running)
  BY <1>0, RunningFinite
<1>2. ASSUME pc' # "fill" PROVE RoomLeft'
  BY <1>2 DEF RoomLeft
<1>3. ASSUME UNCHANGED <<group, requestGroups, num, count, maxConcurrentDownloads, pc>>
      PROVE  RoomLeft'
  BY <1>3 DEF RoomLeft, Running, SlotHolders
<1>4. CASE FillStart
  <2>1. /\ pc = "fill" /\ UNCHANGED <<num, maxConcurrentDownloads>>
        /\ \/ count' = count + 1 /\ \E g \in Gid : Running' \subseteq Running \cup {g}
           \/ count' = count /\ Running' \subseteq Running
    BY <1>4, StartRuns
  <2>2. ASSUME NEW g \in Gid, Running' \subseteq Running \cup {g}
        PROVE  Cardinality(Running') <= Cardinality(Running) + 1
    <3>1. /\ IsFiniteSet(Running \cup {g})
          /\ Cardinality(Running \cup {g}) <= Cardinality(Running) + 1
      BY <1>1, FS_AddElement
    <3>2. Cardinality(Running') <= Cardinality(Running \cup {g})
      BY <2>2, <3>1, FS_Subset
    <3>3. Cardinality(Running \cup {g}) \in Nat
      BY <3>1, FS_CardinalityType
    <3>4. Cardinality(Running') \in Nat
      BY <2>2, <3>1, FS_Subset, FS_CardinalityType
    <3> QED BY <1>1, <3>1, <3>2, <3>3, <3>4
  <2>3. ASSUME Running' \subseteq Running
        PROVE  Cardinality(Running') <= Cardinality(Running)
    BY <1>1, <2>3, FS_Subset
  <2>4. Cardinality(Running') \in Nat
    <3>1. Running' \subseteq Gid
      BY SMTT(60), <1>0 DEF TypeOK, Running, SlotHolders, Keys
    <3> QED BY <3>1, FiniteAssumption, FS_Subset, FS_CardinalityType
  <2>5. Cardinality(Running) + num <= maxConcurrentDownloads + count
    BY <2>1 DEF RoomLeft
  <2>6. \/ count' = count + 1 /\ Cardinality(Running') <= Cardinality(Running) + 1
        \/ count' = count /\ Cardinality(Running') <= Cardinality(Running)
    BY <2>1, <2>2, <2>3
  <2>7. Cardinality(Running') + num <= maxConcurrentDownloads + count'
    BY <1>0, <1>1, <2>4, <2>5, <2>6
  <2> QED BY <2>1, <2>7 DEF RoomLeft
<1>5. CASE FillBegin
  <2>1. PICK limit \in FillLimits :
          IF limit <= numActive
          THEN pc' = "return" /\ UNCHANGED <<count, num>>
          ELSE pc' = "fill" /\ count' = 0 /\ num' = FillCount(limit)
    BY <1>5 DEF FillBegin
  <2>2. limit = maxConcurrentDownloads /\ UNCHANGED <<group, requestGroups, maxConcurrentDownloads>>
    BY <1>5, <2>1 DEF FillLimits, FillBegin, UnchangedByFill
  <2>3. CASE limit <= numActive
    BY <1>2, <2>1, <2>3
  <2>4. CASE ~(limit <= numActive)
    <3>1. Running' = Running /\ count' = 0 /\ num' = maxConcurrentDownloads - numActive
      BY <2>1, <2>2, <2>4 DEF Running, SlotHolders, FillCount
    <3>2. Cardinality(Running) <= numActive
      BY <1>0, RunningFinite
    <3>3. Cardinality(Running') + num' <= maxConcurrentDownloads' + count'
      <4>1. Cardinality(Running') = Cardinality(Running)
        BY <3>1
      <4> QED BY <1>0, <1>1, <2>2, <3>1, <3>2, <4>1
    <3> QED BY <3>3 DEF RoomLeft
  <2> QED BY <2>3, <2>4
<1>6. CASE CommandNext
  <2>1. pc = "commands" /\ UNCHANGED pc
    BY <1>0, <1>6, CommandEffect DEF UnchangedByCommand
  <2> QED BY <1>2, <2>1
<1>7. CASE RpcNext
  <2>1. pc = "commands" /\ UNCHANGED pc
    BY ZenonT(60), <1>7 DEF RpcNext, Add, RemoveWaiting, Unpause, RemoveActive, Pause, ChangeOption,
         ChangeUri, ChangePosition, UnpauseAll, PauseAll, Shutdown, Rpc,
         ChangeMaxConcurrentDownloads, RemoveResults, UnchangedByGroupCall, UnchangedByRpc
  <2> QED BY <1>2, <2>1
<1>8. CASE HaltNext
  <2>1. /\ pc # "commands" => UNCHANGED group
        /\ \/ UNCHANGED pc
           \/ pc' # "fill"
        /\ UNCHANGED <<requestGroups, num, count, maxConcurrentDownloads>>
    BY <1>0, <1>8, HaltEffect DEF UnchangedByHalt
  <2> QED BY <1>2, <1>3, <2>1
<1>9. CASE FillParse \/ FillSkip
  <2>1. /\ UNCHANGED <<group, requestGroups, num, count, maxConcurrentDownloads>>
        /\ UNCHANGED pc \/ pc' = "return"
    BY <1>9 DEF FillParse, FillSkip, UnchangedByFill
  <2> QED BY <1>2, <1>3, <2>1
<1>10. CASE FillExecute \/ RemoveStoppedGroup \/ FillEnd \/ FillReturn \/ FillPeriodicCheck
  <2>1. pc' # "fill"
    BY <1>10 DEF FillExecute, RemoveStoppedGroup, ProcessStopped, FillEnd, FillReturn,
                 FillPeriodicCheck
  <2> QED BY <1>2, <2>1
<1>11. CASE UNCHANGED vars
  BY <1>3, <1>11 DEF vars
<1> QED BY <1>4, <1>5, <1>6, <1>7, <1>8, <1>9, <1>10, <1>11
     DEF Next, FillNext, LoopIterates, Exited

\* Only a start takes a slot.
LEMMA SlotTaken ==
    ASSUME SlotInv, [Next]_vars, numActive' > numActive
    PROVE  FillStart
<1>0. TypeOK /\ Distinct(requestGroups) /\ numActive \in Int /\ numActive' \in Int
  BY NextTypes DEF SlotInv, ListsInv, ListsDisjoint, TypeOK
<1>1. ~UNCHANGED numActive
  BY <1>0
<1>2. ~CommandNext
  BY <1>0, <1>1, CommandEffect
<1>3. ~RpcNext /\ ~HaltNext
  BY <1>0, <1>1, RpcFrame, HaltFrame
<1>4. ~RemoveStoppedGroup
  BY <1>0, StopEffect
<1>5. ~(FillExecute \/ FillBegin \/ FillParse \/ FillSkip \/ FillEnd \/ FillReturn
         \/ FillPeriodicCheck)
  BY <1>1 DEF FillExecute, FillBegin, FillParse, FillSkip, FillEnd, FillReturn,
              FillPeriodicCheck
<1>6. ~UNCHANGED vars
  BY <1>1 DEF vars
<1> QED BY <1>2, <1>3, <1>4, <1>5, <1>6 DEF Next, FillNext, LoopIterates, Exited

\* The limit holds, for any downloads, limits and changes of the limit: a
\* pass of fillRequestGroupFromReserver takes a slot only while fewer
\* downloads than --max-concurrent-downloads have commands running.
THEOREM LimitCorrect ==
    ASSUME ~Optimize, "changeUri" \notin Methods
    PROVE  Spec => StartsBelowLimit
<1>1. Init => SlotInv /\ RoomLeft
  <2>1. Init => RoomLeft
    BY DEF Init, RoomLeft
  <2> QED BY <2>1, InitSlots
<1>2. SlotInv /\ RoomLeft /\ [Next]_vars => (SlotInv /\ RoomLeft)'
  BY NextSlots, NextRoom
<1>3. SlotInv /\ RoomLeft /\ [Next]_vars =>
        [numActive' > numActive => Cardinality(Running) < maxConcurrentDownloads]_vars
  <2> SUFFICES ASSUME SlotInv, RoomLeft, [Next]_vars, numActive' > numActive
               PROVE  Cardinality(Running) < maxConcurrentDownloads
    OBVIOUS
  <2>1. pc = "fill" /\ count < num
    BY SlotTaken, StartRuns
  <2>2. TypeOK
    BY DEF SlotInv, ListsInv
  <2>3. Cardinality(Running) + num <= maxConcurrentDownloads + count
    BY <2>1 DEF RoomLeft
  <2>4. maxConcurrentDownloads \in Int /\ count \in Int /\ num \in Int
    <3>1. maxConcurrentDownloads \in Int
      BY <2>2, ManAssumption DEF TypeOK
    <3> QED BY <2>2, <3>1 DEF TypeOK
  <2>5. Cardinality(Running) \in Nat
    BY <2>2, RunningFinite
  <2> QED BY <2>1, <2>3, <2>4, <2>5
<1> QED BY <1>1, <1>2, <1>3, PTL DEF Spec, StartsBelowLimit

-----------------------------------------------------------------------------
(***************************************************************************)
(* Dependencies.  A torrent file is queued in front of the download that   *)
(* waits for it and has no dependency of its own, so that, unless a client *)
(* interferes, the download never comes first while its torrent waits.     *)
(***************************************************************************)

\* No download is in front of the one it depends on.
Ordered(list) ==
    \A i, j \in DOMAIN list :
        i < j /\ list[i] \in Gid /\ list[j] \in Gid => DependsOn[list[i]] # list[j]

\* What Metalink2RequestGroup makes: the torrent file comes first, in the
\* same list, and depends on nothing.
InTurn ==
    /\ \A g \in Gid : DependsOn[g] # NoGid => DependsOn[DependsOn[g]] = NoGid
    /\ Ordered(InitialGroups) /\ Ordered(DeferredInput) /\ Ordered(FollowUps)
    /\ \A g \in Keys(FollowUps) : DependsOn[g] \in Keys(FollowUps) \cup {NoGid}

\* No client adds, removes, pauses, restarts or moves a download.
Undisturbed ==
    /\ Methods \cap {"add", "remove", "pause", "pauseAll", "changeOption", "changeUri",
                     "changePosition"} = {}
    /\ \A g \in Gid : ~CreatedPaused(g)

Unpaused ==
    \A g \in Gid : ~group[g].pauseRequested /\ group[g].dependee \in {NoGid, DependsOn[g]}

\* A download set aside waits for a torrent file that does not wait.
SetAside ==
    /\ pc # "fill" => pending = <<>>
    /\ \A g \in Keys(pending) : DependsOn[g] # NoGid /\ DependsOn[g] \notin Keys(reservedGroups)

\* A torrent file is read before the download that waits for it.
ReadInOrder ==
    /\ Keys(uriListParser) \subseteq Keys(DeferredInput) /\ Ordered(uriListParser)
    /\ \A g \in known : DependsOn[g] \notin Keys(uriListParser) \cap Gid

DependInv == Unpaused /\ Ordered(reservedGroups) /\ SetAside /\ ReadInOrder

\* The rest of a list, behind its first element.
LEMMA OrderedRest ==
    ASSUME NEW S, NEW list \in Seq(S), list # <<>>, Ordered(list),
           NEW rest, rest = Tail(list) \/ rest = EraseAt(list, 1)
    PROVE  /\ Ordered(rest) /\ Keys(rest) \subseteq Keys(list)
           /\ list[1] \in Keys(list) /\ Head(list) = list[1]
           /\ list[1] \in Gid => DependsOn[list[1]] \notin Keys(rest) \cap Gid
<1>1. /\ Len(list) \in Nat /\ Len(list) >= 1 /\ DOMAIN list = 1 .. Len(list)
      /\ Head(list) = list[1]
  OBVIOUS
<1>2. /\ DOMAIN rest = 1 .. Len(list) - 1
      /\ \A i \in 1 .. Len(list) - 1 : rest[i] = list[i + 1]
  <2>1. CASE rest = Tail(list)
    BY <1>1, <2>1
  <2>2. CASE rest = EraseAt(list, 1)
    <3> DEFINE a == SubSeq(list, 1, 0)
               b == SubSeq(list, 2, Len(list))
    <3>1. /\ a \in Seq(S) /\ Len(a) = 0 /\ b \in Seq(S) /\ Len(b) = Len(list) - 1
          /\ \A i \in 1 .. Len(list) - 1 : b[i] = list[i + 1]
      BY <1>1
    <3>2. rest = a \o b
      BY <2>2 DEF EraseAt
    <3> HIDE DEF a, b
    <3>3. /\ DOMAIN rest = 1 .. Len(a) + Len(b)
          /\ \A i \in 1 .. Len(a) + Len(b) : rest[i] = IF i <= Len(a) THEN a[i] ELSE b[i - Len(a)]
      BY <3>1, <3>2, ConcatElements
    <3>4. Len(a) + Len(b) = Len(list) - 1
      BY <1>1, <3>1
    <3>5. ASSUME NEW i \in 1 .. Len(list) - 1 PROVE rest[i] = list[i + 1]
      <4>1. ~(i <= Len(a)) /\ i - Len(a) = i
        BY <3>1
      <4>2. rest[i] = b[i]
        BY <3>3, <3>4, <4>1
      <4> QED BY <3>1, <4>2
    <3> QED BY <3>3, <3>4, <3>5
  <2> QED BY <2>1, <2>2
<1>3. \A i \in DOMAIN rest : i + 1 \in DOMAIN list /\ i + 1 > 1 /\ rest[i] = list[i + 1]
  BY <1>1, <1>2
<1>4. Keys(rest) \subseteq Keys(list) /\ list[1] \in Keys(list)
  BY <1>1, <1>3 DEF Keys
<1>5. Ordered(rest)
  <2> SUFFICES ASSUME NEW i \in DOMAIN rest, NEW j \in DOMAIN rest, i < j,
                      rest[i] \in Gid, rest[j] \in Gid
               PROVE  DependsOn[rest[i]] # rest[j]
    BY DEF Ordered
  <2>1. i + 1 < j + 1
    BY <1>1, <1>2
  <2> QED BY <1>3, <2>1 DEF Ordered
<1>6. ASSUME list[1] \in Gid, NEW k \in Keys(rest), k \in Gid PROVE DependsOn[list[1]] # k
  <2>1. PICK i \in DOMAIN rest : rest[i] = k
    BY <1>6 DEF Keys
  <2>2. 1 \in DOMAIN list /\ i + 1 \in DOMAIN list /\ 1 < i + 1 /\ list[i + 1] = k
    BY <1>1, <1>2, <1>3, <2>1
  <2> QED BY <1>6, <2>2 DEF Ordered
<1> QED BY <1>1, <1>4, <1>5, <1>6

\* Two lists one after the other.
LEMMA OrderedConcat ==
    ASSUME NEW a \in Seq(Gid), NEW b \in Seq(Gid), Ordered(a), Ordered(b),
           \A g \in Keys(a) : DependsOn[g] \notin Keys(b)
    PROVE  Ordered(a \o b)
<1>1. PICK c : c = a \o b
  OBVIOUS
<1>2. /\ Len(a) \in Nat /\ Len(b) \in Nat /\ DOMAIN a = 1 .. Len(a) /\ DOMAIN b = 1 .. Len(b)
      /\ DOMAIN c = 1 .. Len(a) + Len(b)
      /\ \A i \in 1 .. Len(a) + Len(b) : c[i] = IF i <= Len(a) THEN a[i] ELSE b[i - Len(a)]
  BY <1>1, ConcatElements
<1>3. ASSUME NEW i \in DOMAIN c, NEW j \in DOMAIN c, i < j, c[i] \in Gid, c[j] \in Gid
      PROVE  DependsOn[c[i]] # c[j]
  <2>1. CASE j <= Len(a)
    <3>1. i \in DOMAIN a /\ j \in DOMAIN a /\ c[i] = a[i] /\ c[j] = a[j]
      BY <1>2, <1>3, <2>1
    <3> QED BY <1>3, <3>1 DEF Ordered
  <2>2. CASE i <= Len(a) /\ ~(j <= Len(a))
    <3>1. i \in DOMAIN a /\ j - Len(a) \in DOMAIN b /\ c[i] = a[i] /\ c[j] = b[j - Len(a)]
      BY <1>2, <1>3, <2>2
    <3>2. c[i] \in Keys(a) /\ c[j] \in Keys(b)
      BY <3>1 DEF Keys
    <3> QED BY <3>2
  <2>3. CASE ~(i <= Len(a))
    <3>1. /\ i - Len(a) \in DOMAIN b /\ j - Len(a) \in DOMAIN b /\ i - Len(a) < j - Len(a)
          /\ c[i] = b[i - Len(a)] /\ c[j] = b[j - Len(a)]
      BY <1>2, <1>3, <2>3
    <3> QED BY <1>3, <3>1 DEF Ordered
  <2> QED BY <2>1, <2>2, <2>3, <1>2
<1> QED BY <1>1, <1>3 DEF Ordered

\* The calls that are left leave the queue alone.
LEMMA RpcUndisturbed ==
    ASSUME Undisturbed, TypeOK, Unpaused, RpcNext
    PROVE  /\ UNCHANGED <<reservedGroups, pending, pc, uriListParser, known>> /\ Unpaused'
           /\ \A g \in Gid : group'[g].dependee = group[g].dependee
<1> USE DEF UnchangedByGroupCall, UnchangedByRpc
<1>0. group \in [Gid -> Group] /\ \A g \in Gid : group[g] \in Group
  BY DEF TypeOK
<1>1. \A m \in {"add", "remove", "pause", "pauseAll", "changeOption", "changeUri",
                "changePosition"} : ~Rpc(m)
  BY DEF Undisturbed, Rpc
<1>2. CASE \E g \in Gid : Unpause(g)
  <2>1. PICK g \in Gid : Unpause(g)
    BY <1>2
  <2>2. group' = [group EXCEPT ![g] = [group[g] EXCEPT !.pauseRequested = FALSE]]
    BY <2>1, <1>0 DEF Unpause
  <2>3. Unpaused' /\ \A k \in Gid : group'[k].dependee = group[k].dependee
    BY <1>0, <2>2 DEF Unpaused, Group
  <2> QED BY <2>1, <2>3 DEF Unpause
<1>3. CASE UnpauseAll
  <2>1. \A g \in Gid : group'[g] \in {group[g], [group[g] EXCEPT !.pauseRequested = FALSE]}
    BY <1>3 DEF UnpauseAll
  <2>2. Unpaused' /\ \A k \in Gid : group'[k].dependee = group[k].dependee
    BY <1>0, <2>1 DEF Unpaused, Group
  <2> QED BY <1>3, <2>2 DEF UnpauseAll
<1>4. CASE \E force \in BOOLEAN : Shutdown(force)
  BY <1>4 DEF Shutdown, Unpaused
<1>5. CASE \E limit \in ConcurrencyLimits : ChangeMaxConcurrentDownloads(limit)
  BY <1>5 DEF ChangeMaxConcurrentDownloads, Unpaused
<1>6. CASE \E gids \in SUBSET Gid : RemoveResults(gids)
  BY <1>6 DEF RemoveResults, Unpaused
<1>7. \/ \E g \in Gid : Unpause(g)
      \/ UnpauseAll \/ \E force \in BOOLEAN : Shutdown(force)
      \/ \E limit \in ConcurrencyLimits : ChangeMaxConcurrentDownloads(limit)
      \/ \E gids \in SUBSET Gid : RemoveResults(gids)
  BY <1>1, Zenon DEF RpcNext, Add, RemoveWaiting, RemoveActive, Pause, ChangeOption, ChangeUri,
     ChangePosition, PauseAll
<1> QED BY <1>2, <1>3, <1>4, <1>5, <1>6, <1>7

\* A step of the fill command keeps the order.
LEMMA FillDepends ==
    ASSUME InTurn, ListsInv, DependInv, FillNext
    PROVE  DependInv'
<1>0. /\ TypeOK /\ Distinct(reservedGroups) /\ Distinct(requestGroups)
      /\ reservedGroups \in Seq(Gid) /\ pending \in Seq(Gid)
      /\ Keys(reservedGroups) \subseteq known /\ Keys(pending) \subseteq known
      /\ known \subseteq Gid /\ Keys(reservedGroups) \subseteq Gid /\ Keys(pending) \subseteq Gid
      /\ uriListParser \in Seq(Gid \cup {BadEntry})
      /\ group \in [Gid -> Group] /\ \A g \in Gid : group[g] \in Group
  BY DEF ListsInv, ListsDisjoint, TypeOK, Keys, Live
<1>1. /\ Unpaused /\ Ordered(reservedGroups) /\ SetAside /\ ReadInOrder
      /\ \A g \in Gid : ~group[g].pauseRequested /\ group[g].dependee \in {NoGid, DependsOn[g]}
  BY DEF DependInv, Unpaused
<1>a. /\ Keys(uriListParser) \subseteq Keys(DeferredInput) /\ Ordered(uriListParser)
      /\ \A g \in known : DependsOn[g] \notin Keys(uriListParser) \cap Gid
  BY <1>1 DEF ReadInOrder
<1>b. \A g \in Keys(pending) : DependsOn[g] # NoGid /\ DependsOn[g] \notin Keys(reservedGroups)
  <2>1. SetAside
    BY <1>1
  <2> QED BY <2>1, Zenon DEF SetAside
<1>2. NoGid \notin Gid /\ DependsOn \in [Gid -> Gid \cup {NoGid}] /\ Keys(<<>>) = {}
  BY GidAssumption, ManAssumption DEF Keys
<1>3. ASSUME UNCHANGED <<group, reservedGroups, pending, uriListParser, known>>,
             pc = "fill" => pc' = "fill" \/ pending = <<>>
      PROVE  DependInv'
  BY <1>1, <1>3 DEF DependInv, Unpaused, SetAside, ReadInOrder, Ordered
<1>4. CASE FillExecute \/ FillBegin \/ FillReturn \/ FillPeriodicCheck
  BY <1>3, <1>4 DEF FillExecute, FillBegin, FillReturn, FillPeriodicCheck
<1>5. CASE RemoveStoppedGroup
  <2>1. PICK g \in Keys(requestGroups) :
          /\ g \in Gid /\ \A k \in Gid : k # g => group'[k] = group[k]
          /\ group[g].pauseRequested \/ group'[g] = Ended(group[g])
          /\ pc # "fill" /\ UNCHANGED <<uriListParser, pc, pending>>
    BY <1>0, <1>5, StopEffect
  <2>2. group'[g] = Ended(group[g])
    BY <1>1, <2>1
  <2>3. Ended(group[g]).dependee = group[g].dependee
        /\ Ended(group[g]).pauseRequested = group[g].pauseRequested
    <3>1. group[g] \in Group
      BY <1>0, <2>1
    <3> QED BY <3>1, ReapedFields DEF Ended, ReleaseRuntimeResource, Group
  <2>4. Unpaused'
    BY <1>1, <2>1, <2>2, <2>3 DEF Unpaused
  <2>5. pending = <<>> /\ SetAside'
    BY <1>1, <1>2, <2>1 DEF SetAside
  <2>6. \/ UNCHANGED <<reservedGroups, known>>
        \/ /\ FollowUps # <<>> /\ Keys(FollowUps) \cap known = {}
           /\ reservedGroups' = FollowUps \o reservedGroups
           /\ known' = known \cup Keys(FollowUps)
    <3>1. PICK i \in DOMAIN requestGroups : ProcessStopped(i)
      BY <1>5 DEF RemoveStoppedGroup
    <3>2. requestGroups[i] \in Gid
      BY <1>0, <3>1 DEF TypeOK
    <3> QED BY <1>1, <3>1, <3>2 DEF ProcessStopped, StopForGood
  <2>7. CASE UNCHANGED <<reservedGroups, known>>
    BY <1>1, <2>1, <2>4, <2>5, <2>7 DEF DependInv, ReadInOrder
  <2>8. CASE /\ Keys(FollowUps) \cap known = {} /\ reservedGroups' = FollowUps \o reservedGroups
             /\ known' = known \cup Keys(FollowUps)
    <3>1. FollowUps \in Seq(Gid) /\ Keys(DeferredInput) \cap Keys(FollowUps) = {}
      BY ManAssumption
    <3>2. \A k \in Keys(FollowUps) : DependsOn[k] \in Keys(FollowUps) \cup {NoGid}
      BY DEF InTurn
    <3>3. \A k \in Keys(FollowUps) : DependsOn[k] \notin Keys(reservedGroups)
      BY <1>0, <1>2, <2>8, <3>2
    <3>4. Ordered(FollowUps \o reservedGroups)
      BY <1>0, <1>1, <3>1, <3>3, OrderedConcat DEF InTurn
    <3>5. ReadInOrder'
      BY <1>1, <1>2, <2>1, <2>8, <3>1, <3>2 DEF ReadInOrder
    <3>6. Ordered(reservedGroups')
      BY <2>8, <3>4
    <3> QED BY <2>4, <2>5, <3>5, <3>6 DEF DependInv
  <2> QED BY <2>6, <2>7, <2>8
<1>6. CASE FillParse
  <2>1. pc = "fill" /\ uriListParser # <<>> /\ reservedGroups = <<>> /\ UNCHANGED group
        /\ uriListParser' = Tail(uriListParser)
    BY <1>6 DEF FillParse, Looping
  <2>2. PICK h : h = Head(uriListParser)
    OBVIOUS
  <2>3. /\ Ordered(uriListParser') /\ Keys(uriListParser') \subseteq Keys(uriListParser)
        /\ h \in Keys(uriListParser)
        /\ h \in Gid => DependsOn[h] \notin Keys(uriListParser') \cap Gid
    <3>1. PICK q : q = uriListParser'
      OBVIOUS
    <3>2. Ordered(uriListParser)
      BY <1>a
    <3>3. /\ Ordered(q) /\ Keys(q) \subseteq Keys(uriListParser)
          /\ uriListParser[1] \in Keys(uriListParser) /\ h = uriListParser[1]
          /\ uriListParser[1] \in Gid => DependsOn[uriListParser[1]] \notin Keys(q) \cap Gid
      BY <1>0, <2>1, <2>2, <3>1, <3>2, OrderedRest
    <3> QED BY <3>1, <3>3
  <2>4. Unpaused'
    BY <1>1, <2>1 DEF Unpaused
  <2>5. \A g \in known : DependsOn[g] \notin Keys(uriListParser) \cap Gid
    BY <1>a
  <2>6. CASE h = BadEntry
    <3>1. pending' = <<>> /\ UNCHANGED <<reservedGroups, known>>
      BY <1>6, <2>2, <2>6 DEF FillParse
    <3>2. SetAside'
      BY <1>2, <3>1 DEF SetAside
    <3>3. ReadInOrder'
      BY <1>1, <2>3, <3>1 DEF ReadInOrder
    <3> QED BY <1>1, <2>4, <3>1, <3>2, <3>3 DEF DependInv
  <2>7. CASE h # BadEntry
    <3>1. /\ reservedGroups' = PushBack(reservedGroups, h) /\ known' = known \cup {h}
          /\ UNCHANGED <<pc, pending>>
      BY <1>6, <2>2, <2>7 DEF FillParse
    <3>2. h \in Gid
      BY <1>0, <2>3, <2>7 DEF Keys
    <3>3. reservedGroups' = <<h>>
      BY <2>1, <3>1 DEF PushBack, Contains
    <3>4. Ordered(reservedGroups') /\ Keys(reservedGroups') = {h}
      BY <3>3 DEF Ordered, Keys
    <3>5. \A g \in known' : DependsOn[g] \notin Keys(uriListParser') \cap Gid
      BY <2>3, <2>5, <3>1, <3>2
    <3>8. Keys(uriListParser') \subseteq Keys(DeferredInput)
      BY <1>a, <2>3
    <3>9. ReadInOrder'
      BY <2>3, <3>5, <3>8 DEF ReadInOrder
    <3>6. \A g \in Keys(pending) : DependsOn[g] # h
      BY <1>0, <2>3, <2>5, <3>2
    <3>7. SetAside'
      BY <1>1, <2>1, <3>1, <3>4, <3>6 DEF SetAside
    <3> QED BY <2>4, <3>4, <3>7, <3>9 DEF DependInv
  <2> QED BY <2>6, <2>7
<1>7. CASE FillSkip
  <2>1. PICK g : g = reservedGroups[1]
    OBVIOUS
  <2>2. /\ pc = "fill" /\ reservedGroups # <<>> /\ Held(g) /\ pending' = Append(pending, g)
        /\ reservedGroups' = EraseAt(reservedGroups, 1)
        /\ UNCHANGED <<group, pc, uriListParser, known>>
    BY <1>7, <2>1 DEF FillSkip, Looping
  <2>3. /\ Ordered(reservedGroups') /\ Keys(reservedGroups') \subseteq Keys(reservedGroups)
        /\ g \in Keys(reservedGroups)
        /\ DependsOn[g] \notin Keys(reservedGroups') \cap Gid
    BY <1>0, <1>1, <2>1, <2>2, OrderedRest
  <2>4. g \in Gid
    BY <1>0, <2>3
  <2>5. DependsOn[g] # NoGid
    BY <1>1, <2>2, <2>4 DEF Held, DependencyResolved
  <2>6. Keys(pending') = Keys(pending) \cup {g}
    BY <1>0, <2>2, <2>4, AppendList
  <2>7. SetAside'
    BY <1>0, <1>1, <2>2, <2>3, <2>5, <2>6 DEF SetAside
  <2>8. Unpaused' /\ ReadInOrder'
    BY <1>1, <2>2 DEF Unpaused, ReadInOrder, Ordered
  <2> QED BY <2>3, <2>7, <2>8 DEF DependInv
<1>8. CASE FillStart
  <2>1. PICK g \in Keys(reservedGroups) :
          /\ \A k \in Gid : k # g => group'[k] = group[k]
          /\ group'[g].dependee = NoGid /\ SameRequests(group'[g], group[g])
    BY <1>0, <1>8, FillStartEffect
  <2>2. /\ reservedGroups # <<>> /\ reservedGroups' = EraseAt(reservedGroups, 1)
        /\ UNCHANGED <<uriListParser, pc, pending, known>>
    BY <1>8 DEF FillStart
  <2>3. Ordered(reservedGroups') /\ Keys(reservedGroups') \subseteq Keys(reservedGroups)
    BY <1>0, <1>1, <2>2, OrderedRest
  <2>4. Unpaused'
    BY <1>0, <1>1, <2>1 DEF Unpaused, SameRequests
  <2>5. SetAside' /\ ReadInOrder'
    BY <1>1, <2>2, <2>3 DEF SetAside, ReadInOrder, Ordered
  <2> QED BY <2>3, <2>4, <2>5 DEF DependInv
<1>9. CASE FillEnd
  <2>1. /\ reservedGroups' = pending \o reservedGroups /\ pending' = <<>>
        /\ UNCHANGED <<group, uriListParser, known>>
    BY <1>9 DEF FillEnd, ReturnPending
  <2>2. \A g \in Keys(pending) : DependsOn[g] \in Gid /\ DependsOn[g] \notin Keys(pending)
    <3> SUFFICES ASSUME NEW g \in Keys(pending)
                 PROVE  DependsOn[g] \in Gid /\ DependsOn[g] \notin Keys(pending)
      OBVIOUS
    <3>1. g \in Gid /\ DependsOn[g] # NoGid
      BY <1>0, <1>b
    <3>2. DependsOn[DependsOn[g]] = NoGid
      BY <3>1 DEF InTurn
    <3> QED BY <1>2, <1>b, <3>1, <3>2
  <2>3. Ordered(pending)
    BY <2>2 DEF Ordered, Keys
  <2>4. Ordered(pending \o reservedGroups)
    BY <1>0, <1>1, <2>3, OrderedConcat DEF SetAside
  <2>5. Ordered(reservedGroups')
    BY <2>1, <2>4
  <2>6. SetAside' /\ Unpaused' /\ ReadInOrder'
    BY <1>1, <1>2, <2>1 DEF SetAside, Unpaused, ReadInOrder, Ordered
  <2> QED BY <2>5, <2>6 DEF DependInv
<1> QED BY <1>4, <1>5, <1>6, <1>7, <1>8, <1>9 DEF FillNext

\* Every step keeps the order.
LEMMA NextDepends ==
    ASSUME InTurn, Undisturbed, ListsInv, DependInv, [Next]_vars
    PROVE  DependInv'
<1>0. TypeOK /\ \A g \in Gid : group[g] \in Group
  BY DEF ListsInv, TypeOK
<1>1. ASSUME UNCHANGED <<reservedGroups, pending, uriListParser, known>>, Unpaused',
             pc' = "fill" \/ pc # "fill" \/ pending = <<>>
      PROVE  DependInv'
  BY <1>1 DEF DependInv, SetAside, ReadInOrder, Ordered
<1>2. Unpaused
  BY DEF DependInv
<1>3. CASE CommandNext
  <2>1. UNCHANGED <<reservedGroups, pending, uriListParser, known, pc>>
    BY <1>0, <1>3, CommandEffect DEF UnchangedByCommand
  <2>2. PICK g \in Gid :
          /\ \A k \in Gid : k # g => group'[k] = group[k]
          /\ SameRest(group'[g], group[g])
          /\ SameRequests(group'[g], group[g]) \/ HaltedItself(group'[g], group[g])
    BY <1>0, <1>3, CommandEffect
  <2>3. Unpaused'
    BY <1>2, <2>2 DEF Unpaused, SameRest, SameRequests, HaltedItself
  <2> QED BY <1>1, <2>1, <2>3
<1>4. CASE FillNext
  BY <1>4, FillDepends
<1>5. CASE RpcNext
  BY <1>0, <1>1, <1>2, <1>5, RpcUndisturbed
<1>6. CASE HaltNext
  <2>1. UNCHANGED <<reservedGroups, pending, uriListParser, known>>
    BY <1>6 DEF HaltNext, TimedHaltFires, AfterEachIteration, StoreGlobalHalt, EndOfRun, Exit,
       ReceiveSignal, UnchangedByHalt
  <2>2. Unpaused'
    BY <1>0, <1>2, <1>6, HaltEffect DEF Unpaused, HaltedFor, SameRest
  <2>3. pc' = "fill" \/ pc # "fill"
    BY <1>6 DEF HaltNext, TimedHaltFires, AfterEachIteration, StoreGlobalHalt, EndOfRun, Exit,
       ReceiveSignal
  <2> QED BY <1>1, <2>1, <2>2, <2>3
<1>7. CASE UNCHANGED vars
  <2>1. UNCHANGED <<group, reservedGroups, pending, uriListParser, known, pc>>
    BY <1>7 DEF vars
  <2> QED BY <1>1, <1>2, <2>1 DEF Unpaused
<1> QED BY <1>3, <1>4, <1>5, <1>6, <1>7 DEF Next, LoopIterates, Exited

\* Only a start lets go of a dependee, of one that has no command and does
\* not wait.
LEMMA NextCuts ==
    ASSUME InTurn, Undisturbed, ListsInv, DependInv, [Next]_vars,
           NEW g \in Gid, NEW d, d = group[g].dependee, d # NoGid, group'[g].dependee = NoGid
    PROVE  /\ group[d].numCommand = 0
           /\ d \notin Keys(reservedGroups) \cup Keys(pending)
<1>0. /\ TypeOK /\ Distinct(reservedGroups) /\ Distinct(requestGroups)
      /\ reservedGroups \in Seq(Gid) /\ Keys(reservedGroups) \subseteq Gid
      /\ Keys(pending) \subseteq Gid /\ \A k \in Gid : group[k] \in Group
  BY DEF ListsInv, ListsDisjoint, TypeOK, Keys
<1>1. /\ Unpaused /\ Ordered(reservedGroups) /\ SetAside
  BY DEF DependInv
<1>2. d = DependsOn[g] /\ d \in Gid /\ DependsOn[d] = NoGid /\ d # g
  <2>1. d = DependsOn[g]
    BY <1>1 DEF Unpaused
  <2>2. d \in Gid
    BY <2>1, GidAssumption, ManAssumption
  <2> QED BY <2>1, <2>2, GidAssumption DEF InTurn
<1>3. ASSUME group'[g].dependee = group[g].dependee PROVE FALSE
  BY <1>3
<1>4. FillStart
  <2>1. ~CommandNext
    BY <1>0, <1>3, CommandEffect DEF SameRest
  <2>2. ~HaltNext
    BY <1>0, <1>3, HaltEffect DEF HaltedFor, SameRest
  <2>3. ~RpcNext
    BY <1>0, <1>1, <1>3, RpcUndisturbed
  <2>4. ~RemoveStoppedGroup
    <3>1. ASSUME RemoveStoppedGroup PROVE FALSE
      <4>1. PICK h \in Gid :
              /\ \A k \in Gid : k # h => group'[k] = group[k]
              /\ group'[h] = Requeued(group[h]) \/ group'[h] = Ended(group[h])
        BY <1>0, <3>1, StopEffect
      <4>2. /\ Requeued(group[h]).dependee = group[h].dependee
            /\ Ended(group[h]).dependee = group[h].dependee
        BY <1>0, ReapedFields
      <4> QED BY <1>3, <4>1, <4>2
    <3> QED BY <3>1
  <2>5. ~(UNCHANGED group)
    BY <1>3
  <2>6. ~(FillExecute \/ FillBegin \/ FillReturn \/ FillPeriodicCheck \/ FillParse \/ FillSkip \/ FillEnd)
    BY <2>5 DEF FillExecute, FillBegin, FillReturn, FillPeriodicCheck, FillParse, FillSkip, FillEnd
  <2>7. ~(UNCHANGED vars)
    BY <2>5 DEF vars
  <2> QED BY <2>1, <2>2, <2>3, <2>4, <2>6, <2>7 DEF Next, FillNext, LoopIterates, Exited
<1>5. PICK h : h = reservedGroups[1] /\ reservedGroups # <<>> /\ ~Held(h)
  BY <1>4 DEF FillStart
<1>6. h = g
  <2>2. group' = [group EXCEPT ![h] = group'[h]]
    <3>1. group \in [Gid -> Group]
      BY <1>0 DEF TypeOK
    <3> QED BY <1>4, <1>5, <3>1 DEF FillStart, Started, StartFailed
  <2>3. group \in [Gid -> Group]
    BY <1>0 DEF TypeOK
  <2> QED BY <1>3, <2>2, <2>3
<1>7. group[d].numCommand = 0
  BY <1>5, <1>6 DEF Held, DependencyResolved
<1>8. PICK rest : rest = EraseAt(reservedGroups, 1)
  OBVIOUS
<1>9. d \notin Keys(rest)
  <2>1. reservedGroups[1] = g /\ Ordered(reservedGroups)
    BY <1>1, <1>5, <1>6
  <2>2. reservedGroups[1] \in Gid => DependsOn[reservedGroups[1]] \notin Keys(rest) \cap Gid
    BY <1>0, <1>5, <1>8, <2>1, OrderedRest
  <2> QED BY <1>2, <2>1, <2>2
<1>10. Keys(rest) = Keys(reservedGroups) \ {g}
  <2>1. 1 \in 1 .. Len(reservedGroups)
    BY <1>0, <1>5
  <2>2. Keys(EraseAt(reservedGroups, 1)) = Keys(reservedGroups) \ {reservedGroups[1]}
    BY <1>0, <2>1, EraseList
  <2> QED BY <1>5, <1>6, <1>8, <2>2
<1>11. d \notin Keys(pending)
  BY <1>1, <1>2 DEF SetAside
<1> QED BY <1>2, <1>7, <1>9, <1>10, <1>11

\* The dependencies are in order at the beginning.
LEMMA InitDepends ==
    ASSUME InTurn, Undisturbed, Init
    PROVE  DependInv
<1>1. group = [g \in Gid |-> NewGroup(CreatedPaused(g), DependsOn[g])]
      /\ reservedGroups = InitialGroups /\ pending = <<>> /\ uriListParser = DeferredInput
      /\ known = Keys(InitialGroups)
  BY DEF Init
<1>2. Unpaused
  <2> SUFFICES ASSUME NEW g \in Gid
               PROVE  ~group[g].pauseRequested /\ group[g].dependee \in {NoGid, DependsOn[g]}
    BY Zenon DEF Unpaused
  <2>1. group[g] = NewGroup(CreatedPaused(g), DependsOn[g])
    BY <1>1
  <2>2. CreatedPaused(g) = FALSE
    <3>1. ~CreatedPaused(g)
      BY DEF Undisturbed
    <3>2. CreatedPaused(g) \in BOOLEAN
      BY DEF CreatedPaused
    <3> QED BY <3>1, <3>2
  <2>3. group[g] = NewGroup(FALSE, DependsOn[g])
    BY <2>1, <2>2
  <2> QED BY <2>3 DEF NewGroup
<1>3. Keys(<<>>) = {}
  BY DEF Keys
<1>4. SetAside
  BY <1>1, <1>3 DEF SetAside
<1>5. Ordered(reservedGroups) /\ Ordered(uriListParser)
  BY <1>1 DEF InTurn
<1>6. DeferredInput # <<>> => InitialGroups = <<>>
  BY ManAssumption
<1>7. ReadInOrder
  BY <1>1, <1>3, <1>5, <1>6 DEF ReadInOrder
<1> QED BY <1>2, <1>4, <1>5, <1>7 DEF DependInv

\* BtDependency lets go of the torrent file only when its download is over
\* (BtDependency::resolve), where the torrent file is queued in front of the
\* download that waits for it and no client interferes.
THEOREM DependenciesCorrect ==
    InTurn /\ Undisturbed /\ Spec => DependeeOverWhenCut
<1> DEFINE Cut == \A g \in Gid :
                    LET d == group[g].dependee
                    IN (d # NoGid /\ group'[g].dependee = NoGid)
                         => /\ group[d].numCommand = 0
                            /\ \/ DownloadFinished(group[d])
                               \/ d \notin Keys(reservedGroups) \cup Keys(pending)
<1>1. InTurn /\ Undisturbed /\ Init => ListsInv /\ DependInv
  BY InitLists, InitDepends
<1>2. InTurn /\ Undisturbed /\ ListsInv /\ DependInv /\ [Next]_vars => ListsInv' /\ DependInv'
  BY NextLists, NextDepends
<1>3. InTurn /\ Undisturbed /\ ListsInv /\ DependInv /\ [Next]_vars => [Cut]_vars
  BY NextCuts
<1>4. DependeeOverWhenCut <=> [][Cut]_vars
  BY DEF DependeeOverWhenCut
<1> HIDE DEF Cut
<1>5. (InTurn => InTurn') /\ (Undisturbed => Undisturbed')
  BY DEF InTurn, Undisturbed, Ordered, CreatedPaused
<1> QED BY <1>1, <1>2, <1>3, <1>4, <1>5, PTL DEF Spec

-----------------------------------------------------------------------------
(***************************************************************************)
(* What a call of a client does to one download.                           *)
(***************************************************************************)

KnownAsBefore(g) ==
    (g \in known' <=> g \in known) /\ (g \in dropped' <=> g \in dropped)

\* Nothing happens to it, or its result is taken off the list.
CallIgnores(g) ==
    /\ group'[g] = group[g] /\ promise'[g] = promise[g]
    /\ g \in known' <=> g \in known
    /\ g \in dropped' <=> (g \in dropped \/ (g \in dropped' /\ g \in Keys(downloadResults)))

CallAdds(g) ==
    /\ g \notin known /\ g \in known' /\ (g \in dropped' <=> g \in dropped)
    /\ \E pause \in BOOLEAN :
         /\ group'[g] = [group[g] EXCEPT !.pauseRequested = pause]
         /\ promise'[g] = [promise[g] EXCEPT !.pause = pause]

CallRemovesActive(g) ==
    /\ g \in Keys(requestGroups) /\ KnownAsBefore(g)
    /\ HaltedFor(group'[g], group[g], "USER_REQUEST")
    /\ promise'[g] = [promise[g] EXCEPT !.remove = TRUE]

CallRemovesWaiting(g) ==
    /\ g \in Keys(reservedGroups)
    /\ g \in dropped' /\ (g \in known' <=> g \in known)
    /\ group'[g] = [group[g] EXCEPT !.dependee = NoGid]
    /\ promise'[g] = promise[g]

CallPauses(g) ==
    \E reserved \in BOOLEAN, force \in BOOLEAN :
        /\ g \in IF reserved THEN Keys(reservedGroups) ELSE Keys(requestGroups)
        /\ KnownAsBefore(g)
        /\ PauseAccepted(group[g], reserved, force)
        /\ PausedFor(group'[g], group[g], reserved)
        /\ promise'[g] = [promise[g] EXCEPT !.pause = TRUE]

CallResumes(g) ==
    /\ g \in Keys(reservedGroups) /\ KnownAsBefore(g)
    /\ group'[g] = [group[g] EXCEPT !.pauseRequested = FALSE]
    /\ promise'[g] = [promise[g] EXCEPT !.pause = FALSE]

CallChangesOption(g) ==
    /\ "changeOption" \in Methods
    /\ g \in Managed /\ KnownAsBefore(g)
    /\ \E o \in Opts : /\ group'[g] = OptionChanged(group[g], o)
                       /\ promise'[g] = [promise[g] EXCEPT !.option = @ \cup {o}]

CallChangesUri(g) ==
    /\ "changeUri" \in Methods
    /\ KnownAsBefore(g) /\ promise'[g] = promise[g]
    /\ \E n : group'[g] = [group[g] EXCEPT !.numCommand = n]

\* The state of a download says which list it is in.
LEMMA ManagedState ==
    ASSUME WaitInv, NEW g \in Managed
    PROVE  /\ g \in Gid
           /\ group[g].state = "WAITING" <=> g \in Keys(reservedGroups)
           /\ group[g].state = "ACTIVE" <=> g \in Keys(requestGroups)
           /\ g \in Keys(reservedGroups) <=> g \notin Keys(requestGroups)
<1>1. /\ ListsInv /\ WaitingState /\ ActiveState
      /\ Keys(reservedGroups) \cap Keys(requestGroups) = {}
  BY DEF WaitInv, ListsInv, ListsDisjoint
<1>2. g \in Gid
  BY <1>1 DEF ListsInv, TypeOK, Managed, Keys
<1> QED BY <1>1, <1>2 DEF Managed, WaitingState, ActiveState

\* Every call does one of these things to each download.
LEMMA RpcEach ==
    ASSUME WaitInv, RpcNext, NEW g \in Gid
    PROVE  /\ KeepRunning
           /\ \/ CallIgnores(g) \/ CallAdds(g) \/ CallRemovesActive(g)
              \/ CallRemovesWaiting(g) \/ CallPauses(g) \/ CallResumes(g)
              \/ CallChangesOption(g) \/ CallChangesUri(g)
<1> USE DEF UnchangedByGroupCall, UnchangedByRpc
<1>0. /\ group \in [Gid -> Group] /\ promise \in [Gid -> Promise]
      /\ \A k \in Gid : group[k] \in Group
  BY DEF WaitInv, ListsInv, TypeOK
<1>1. KeepRunning
  BY ZenonT(60) DEF RpcNext, Add, RemoveWaiting, Unpause, RemoveActive, Pause, ChangeOption,
         ChangeUri, ChangePosition, UnpauseAll, PauseAll, Shutdown, Rpc,
         ChangeMaxConcurrentDownloads, RemoveResults
<1> DEFINE Goal == \/ CallIgnores(g) \/ CallAdds(g) \/ CallRemovesActive(g)
                   \/ CallRemovesWaiting(g) \/ CallPauses(g) \/ CallResumes(g)
                   \/ CallChangesOption(g) \/ CallChangesUri(g)
<1>2. ASSUME group'[g] = group[g], promise'[g] = promise[g],
             g \in known' <=> g \in known, g \in dropped' <=> g \in dropped
      PROVE  Goal
  BY <1>2 DEF CallIgnores
<1> HIDE DEF Goal
<1>3. ASSUME NEW k \in Gid, NEW pos, NEW pause \in BOOLEAN, Add(k, pos, pause) PROVE Goal
  <2>1. /\ k \notin known /\ known' = known \cup {k} /\ dropped' = dropped
        /\ group' = [group EXCEPT ![k] = [group[k] EXCEPT !.pauseRequested = pause]]
        /\ promise' = [promise EXCEPT ![k] = [promise[k] EXCEPT !.pause = pause]]
    BY <1>3 DEF Add
  <2>2. CASE k = g
    <3>1. CallAdds(g)
      BY <1>0, <2>1, <2>2 DEF CallAdds
    <3> QED BY <3>1 DEF Goal
  <2>3. CASE k # g
    BY <1>0, <1>2, <2>1, <2>3
  <2> QED BY <2>2, <2>3
<1>4. ASSUME NEW k \in Gid, RemoveWaiting(k) PROVE Goal
  <2>1. /\ k \in Managed /\ group[k].state = "WAITING"
        /\ dropped' = dropped \cup {k}
        /\ group' = [group EXCEPT ![k] = [group[k] EXCEPT !.dependee = NoGid]]
        /\ UNCHANGED <<known, promise>>
    BY <1>4 DEF RemoveWaiting
  <2>2. k \in Keys(reservedGroups)
    BY <2>1, ManagedState
  <2>3. CASE k = g
    <3>1. CallRemovesWaiting(g)
      BY <1>0, <2>1, <2>2, <2>3 DEF CallRemovesWaiting
    <3> QED BY <3>1 DEF Goal
  <2>4. CASE k # g
    BY <1>0, <1>2, <2>1, <2>4
  <2> QED BY <2>3, <2>4
<1>5. ASSUME NEW k \in Gid, Unpause(k) PROVE Goal
  <2>1. /\ k \in Managed /\ group[k].state = "WAITING"
        /\ group' = [group EXCEPT ![k] = [group[k] EXCEPT !.pauseRequested = FALSE]]
        /\ promise' = [promise EXCEPT ![k] = [promise[k] EXCEPT !.pause = FALSE]]
        /\ UNCHANGED <<known, dropped>>
    BY <1>5 DEF Unpause
  <2>2. k \in Keys(reservedGroups)
    BY <2>1, ManagedState
  <2>3. CASE k = g
    <3>1. CallResumes(g)
      BY <1>0, <2>1, <2>2, <2>3 DEF CallResumes, KnownAsBefore
    <3> QED BY <3>1 DEF Goal
  <2>4. CASE k # g
    BY <1>0, <1>2, <2>1, <2>4
  <2> QED BY <2>3, <2>4
<1>6. ASSUME NEW k \in Gid, NEW force \in BOOLEAN, RemoveActive(k, force) PROVE Goal
  <2> DEFINE r == IF force THEN SetForceHaltRequested(group[k], TRUE, "USER_REQUEST")
                           ELSE SetHaltRequested(group[k], TRUE, "USER_REQUEST")
  <2>1. /\ k \in Managed /\ group[k].state = "ACTIVE"
        /\ group' = [group EXCEPT ![k] = r]
        /\ promise' = [promise EXCEPT ![k] = [promise[k] EXCEPT !.remove = TRUE]]
        /\ UNCHANGED <<known, dropped>>
    BY <1>6 DEF RemoveActive
  <2>2. k \in Keys(requestGroups)
    BY <2>1, ManagedState
  <2>3. HaltedFor(r, group[k], "USER_REQUEST")
    <3>1. "USER_REQUEST" \in HaltReason
      BY DEF HaltReason
    <3> QED BY <1>0, <3>1, HaltFields
  <2> HIDE DEF r
  <2>4. CASE k = g
    <3>1. CallRemovesActive(g)
      BY <1>0, <2>1, <2>2, <2>3, <2>4 DEF CallRemovesActive, KnownAsBefore
    <3> QED BY <3>1 DEF Goal
  <2>5. CASE k # g
    BY <1>0, <1>2, <2>1, <2>5
  <2> QED BY <2>4, <2>5
<1>7. ASSUME NEW k \in Gid, NEW force \in BOOLEAN, Pause(k, force) PROVE Goal
  <2> DEFINE reserved == group[k].state = "WAITING"
             r == PauseRequestGroup(group[k], reserved, force)
  <2>1. /\ k \in Managed
        /\ PauseAccepted(group[k], reserved, force)
        /\ group' = [group EXCEPT ![k] = r]
        /\ promise' = [promise EXCEPT ![k] = [promise[k] EXCEPT !.pause = TRUE]]
        /\ UNCHANGED <<known, dropped>>
    BY <1>7 DEF Pause
  <2>2. /\ k \in IF reserved THEN Keys(reservedGroups) ELSE Keys(requestGroups)
        /\ reserved \in BOOLEAN
    BY <2>1, ManagedState
  <2> HIDE DEF reserved
  <2>3. PausedFor(r, group[k], reserved)
    BY <1>0, <2>1, <2>2, PauseFields
  <2> HIDE DEF r
  <2>4. CASE k = g
    <3>1. CallPauses(g)
      BY <1>0, <2>1, <2>2, <2>3, <2>4 DEF CallPauses, KnownAsBefore
    <3> QED BY <3>1 DEF Goal
  <2>5. CASE k # g
    BY <1>0, <1>2, <2>1, <2>5
  <2> QED BY <2>4, <2>5
<1>8. ASSUME NEW k \in Gid, NEW o \in Opts, ChangeOption(k, o) PROVE Goal
  <2>1. /\ k \in Managed /\ "changeOption" \in Methods
        /\ group' = [group EXCEPT ![k] = OptionChanged(group[k], o)]
        /\ promise' = [promise EXCEPT ![k] = [promise[k] EXCEPT !.option = @ \cup {o}]]
        /\ UNCHANGED <<known, dropped>>
    BY <1>8 DEF ChangeOption, Rpc
  <2>2. CASE k = g
    <3>1. CallChangesOption(g)
      BY <1>0, <2>1, <2>2 DEF CallChangesOption, KnownAsBefore
    <3> QED BY <3>1 DEF Goal
  <2>3. CASE k # g
    BY <1>0, <1>2, <2>1, <2>3
  <2> QED BY <2>2, <2>3
<1>9. ASSUME NEW k \in Gid, NEW n, ChangeUri(k, n) PROVE Goal
  <2>1. /\ "changeUri" \in Methods
        /\ group' = [group EXCEPT ![k] =
             [group[k] EXCEPT !.numCommand = group[k].numCommand + n]]
        /\ UNCHANGED <<known, dropped, promise>>
    BY <1>9 DEF ChangeUri, Rpc
  <2>2. CASE k = g
    <3>1. CallChangesUri(g)
      BY <1>0, <2>1, <2>2 DEF CallChangesUri, KnownAsBefore
    <3> QED BY <3>1 DEF Goal
  <2>3. CASE k # g
    BY <1>0, <1>2, <2>1, <2>3
  <2> QED BY <2>2, <2>3
<1>10. ASSUME NEW force \in BOOLEAN, PauseAll(force) PROVE Goal
  <2> DEFINE reserved == g \notin Keys(requestGroups)
             r == PauseRequestGroup(group[g], reserved, force)
  <2>1. /\ g \in Managed => group'[g] = r
        /\ g \notin Managed => group'[g] = group[g]
        /\ UNCHANGED <<known, dropped>>
    BY <1>10 DEF PauseAll, Managed
  <2>2. promise'[g] = [promise[g] EXCEPT !.pause =
                         @ \/ (g \in Managed /\ PauseAccepted(group[g], reserved, force))]
    BY <1>10 DEF PauseAll
  <2>3. promise[g] \in Promise
    BY <1>0
  <2>4. g \in Managed => g \in IF reserved THEN Keys(reservedGroups) ELSE Keys(requestGroups)
    BY DEF Managed
  <2>5. reserved \in BOOLEAN
    OBVIOUS
  <2> HIDE DEF reserved
  <2>6. IF PauseAccepted(group[g], reserved, force)
        THEN PausedFor(r, group[g], reserved) ELSE r = group[g]
    BY <1>0, <2>5, PauseFields
  <2> HIDE DEF r
  <2>7. CASE g \in Managed /\ PauseAccepted(group[g], reserved, force)
    <3>1. promise'[g] = [promise[g] EXCEPT !.pause = TRUE]
      BY <2>2, <2>3, <2>7 DEF Promise
    <3>2. CallPauses(g)
      BY <2>1, <2>4, <2>5, <2>6, <2>7, <3>1 DEF CallPauses, KnownAsBefore
    <3> QED BY <3>2 DEF Goal
  <2>8. CASE ~(g \in Managed /\ PauseAccepted(group[g], reserved, force))
    <3>1. promise'[g] = promise[g]
      BY <2>2, <2>3, <2>8 DEF Promise
    <3>2. group'[g] = group[g]
      BY <2>1, <2>6, <2>8
    <3> QED BY <1>2, <2>1, <3>1, <3>2
  <2> QED BY <2>7, <2>8
<1>11. ASSUME UnpauseAll PROVE Goal
  <2>1. CASE g \in Keys(reservedGroups)
    <3>1. CallResumes(g)
      BY <1>11, <2>1 DEF UnpauseAll, CallResumes, KnownAsBefore
    <3> QED BY <3>1 DEF Goal
  <2>2. CASE g \notin Keys(reservedGroups)
    BY <1>2, <1>11, <2>2 DEF UnpauseAll
  <2> QED BY <2>1, <2>2
<1>12. ASSUME NEW gids, RemoveResults(gids) PROVE Goal
  <2>1. /\ gids \subseteq Keys(downloadResults) /\ dropped' = dropped \cup gids
        /\ UNCHANGED <<group, promise, known>>
    BY <1>12 DEF RemoveResults
  <2>2. CallIgnores(g)
    BY <2>1 DEF CallIgnores
  <2> QED BY <2>2 DEF Goal
<1>13. ASSUME UNCHANGED <<group, clientVars>> PROVE Goal
  BY <1>2, <1>13
<1>14. ASSUME NEW k \in Gid, NEW pos, NEW how, ChangePosition(k, pos, how) PROVE Goal
  BY <1>13, <1>14 DEF ChangePosition
<1>15. ASSUME NEW force, Shutdown(force) PROVE Goal
  BY <1>13, <1>15 DEF Shutdown
<1>16. ASSUME NEW limit, ChangeMaxConcurrentDownloads(limit) PROVE Goal
  BY <1>13, <1>16 DEF ChangeMaxConcurrentDownloads
<1>17. Goal
  BY <1>3, <1>4, <1>5, <1>6, <1>7, <1>8, <1>9, <1>10, <1>11, <1>12, <1>14, <1>15, <1>16
     DEF RpcNext
<1> QED BY <1>1, <1>17 DEF Goal

-----------------------------------------------------------------------------
(***************************************************************************)
(* Pauses.  A download that a client was told is paused carries the pause  *)
(* request for as long as it waits: no command can clear it, for waiting   *)
(* downloads have none, and a stopped download takes it along to the       *)
(* queue.                                                                  *)
(***************************************************************************)

NoRestart == \A g \in Gid : ~group[g].restartRequested

\* Downloads that are waiting, or not created yet.
NotStarted == Keys(reservedGroups) \cup Keys(pending) \cup (Gid \ known)

PauseRecorded ==
    \A g \in Gid : promise[g].pause =>
        KeepRunning /\ (g \in NotStarted => group[g].pauseRequested)

\* A stopped download loses its restart request.
LEMMA ReapedRestart ==
    ASSUME NEW rg \in Group
    PROVE  ~Requeued(rg).restartRequested /\ ~Ended(rg).restartRequested
<1> DEFINE rel == ReleaseRuntimeResource(rg)
<1>1. rel \in Group
  BY DEF ReleaseRuntimeResource, Group
<1> HIDE DEF rel
<1>2. ~Ended(rg).restartRequested
  BY <1>1 DEF Ended, Group, rel
<1> QED BY <1>2, ReapedFields

\* What becomes of the waiting downloads in a pass over the queue.
LEMMA FillNotStarted ==
    ASSUME WaitInv, FillParse \/ FillSkip \/ FillEnd \/ FillExecute \/ FillBegin
                      \/ FillReturn \/ FillPeriodicCheck
    PROVE  NotStarted' \subseteq NotStarted /\ UNCHANGED <<group, promise>>
<1>0. TypeOK /\ Distinct(reservedGroups)
  BY DEF WaitInv, ListsInv, ListsDisjoint
<1>1. UNCHANGED <<group, promise>>
  BY DEF FillParse, FillSkip, FillEnd, FillExecute, FillBegin, FillReturn,
         FillPeriodicCheck, UnchangedByFill
<1>2. CASE FillParse
  BY <1>0, <1>1, <1>2, FillMoves DEF NotStarted
<1>3. CASE FillSkip
  <2>1. UNCHANGED known
    BY <1>3 DEF FillSkip
  <2> QED BY <1>0, <1>1, <1>3, <2>1, FillMoves DEF NotStarted
<1>4. CASE FillEnd
  <2>1. UNCHANGED known
    BY <1>4 DEF FillEnd
  <2> QED BY <1>0, <1>1, <1>4, <2>1, FillMoves DEF NotStarted
<1>5. CASE FillExecute \/ FillBegin \/ FillReturn \/ FillPeriodicCheck
  <2>1. UNCHANGED <<reservedGroups, pending, known>>
    BY <1>5 DEF FillExecute, FillBegin, FillReturn, FillPeriodicCheck
  <2> QED BY <1>1, <2>1 DEF NotStarted
<1> QED BY <1>1, <1>2, <1>3, <1>4, <1>5

\* A download in the queue is not active.
LEMMA NotStartedInactive ==
    ASSUME ListsInv
    PROVE  /\ NotStarted \cap Keys(requestGroups) = {}
           /\ Keys(reservedGroups) \subseteq NotStarted /\ NotStarted \subseteq Gid
           /\ Keys(requestGroups) \subseteq Gid
<1>1. /\ Keys(requestGroups) \subseteq known /\ known \subseteq Gid
      /\ Keys(reservedGroups) \cup Keys(pending) \subseteq known
      /\ Keys(reservedGroups) \cap Keys(requestGroups) = {}
      /\ Keys(pending) \cap (Keys(reservedGroups) \cup Keys(requestGroups)) = {}
  BY DEF ListsInv, ListsDisjoint, Live, TypeOK
<1> QED BY <1>1 DEF NotStarted

\* Every step keeps the pauses recorded.
LEMMA NextPause ==
    ASSUME "changeOption" \notin Methods, "changeUri" \notin Methods,
           SlotInv, WaitInv, NoRestart, PauseRecorded, [Next]_vars
    PROVE  NoRestart' /\ PauseRecorded'
<1>0. /\ TypeOK /\ ListsInv /\ ListsInv' /\ CommandsOnlyWhenActive
      /\ Distinct(reservedGroups) /\ Distinct(requestGroups)
      /\ \A g \in Gid : group[g] \in Group
      /\ \A g \in Gid : promise[g] \in Promise
  BY NextLists DEF WaitInv, ListsInv, ListsDisjoint, SlotInv, TypeOK
<1>1. /\ NotStarted \cap Keys(requestGroups) = {}
      /\ Keys(reservedGroups) \subseteq NotStarted /\ NotStarted \subseteq Gid
      /\ Keys(requestGroups) \subseteq Gid
  BY <1>0, NotStartedInactive
<1> DEFINE Kept(g) ==
             /\ group'[g].restartRequested = group[g].restartRequested
             /\ promise'[g] = promise[g]
             /\ g \in NotStarted' =>
                  g \in NotStarted /\ group'[g].pauseRequested = group[g].pauseRequested
<1>2. ASSUME \A g \in Gid : Kept(g) PROVE NoRestart' /\ PauseRecorded'
  BY <1>2 DEF NoRestart, PauseRecorded
<1>3. CASE CommandNext
  <2>1. PICK c \in Gid :
          /\ group[c].numCommand > 0
          /\ \A k \in Gid : k # c => group'[k] = group[k]
          /\ SameRest(group'[c], group[c])
          /\ UnchangedByCommand
    BY <1>0, <1>3, CommandEffect
  <2>2. c \notin NotStarted
    BY <1>0, <1>1, <2>1 DEF CommandsOnlyWhenActive
  <2>3. NotStarted' = NotStarted /\ UNCHANGED promise
    BY <2>1 DEF UnchangedByCommand, NotStarted
  <2>4. \A g \in Gid : Kept(g)
    BY <2>1, <2>2, <2>3 DEF SameRest
  <2> QED BY <1>2, <2>4
<1>4. CASE HaltNext
  <2>1. /\ \A g \in Gid : \/ group'[g] = group[g]
                          \/ /\ g \in Keys(requestGroups)
                             /\ HaltedFor(group'[g], group[g], "SHUTDOWN_SIGNAL")
        /\ UnchangedByHalt
    BY <1>0, <1>4, HaltEffect
  <2>2. NotStarted' = NotStarted /\ UNCHANGED promise
    BY <2>1 DEF UnchangedByHalt, NotStarted
  <2>3. \A g \in Gid : Kept(g)
    BY <1>1, <2>1, <2>2 DEF HaltedFor, SameRest
  <2> QED BY <1>2, <2>3
<1>5. CASE RpcNext
  <2>1. NotStarted' \subseteq NotStarted
    <3>1. \/ Keys(reservedGroups') \subseteq Keys(reservedGroups) /\ UNCHANGED known
          \/ \E g \in Gid : /\ g \notin known /\ known' = known \cup {g}
                            /\ Keys(reservedGroups') = Keys(reservedGroups) \cup {g}
      BY <1>0, <1>5, RpcQueue
    <3>2. UNCHANGED pending
      BY <1>0, <1>5, RpcFrame
    <3> QED BY <3>1, <3>2 DEF NotStarted
  <2>2. SUFFICES ASSUME NEW g \in Gid
                 PROVE  /\ ~group'[g].restartRequested
                        /\ promise'[g].pause => KeepRunning
                        /\ promise'[g].pause /\ g \in NotStarted' => group'[g].pauseRequested
    BY DEF NoRestart, PauseRecorded
  <2>3. /\ group[g] \in Group /\ promise[g] \in Promise
        /\ ~group[g].restartRequested
        /\ promise[g].pause => KeepRunning /\ (g \in NotStarted => group[g].pauseRequested)
    BY <1>0 DEF NoRestart, PauseRecorded
  <2>4. /\ KeepRunning
        /\ \/ CallIgnores(g) \/ CallAdds(g) \/ CallRemovesActive(g)
           \/ CallRemovesWaiting(g) \/ CallPauses(g) \/ CallResumes(g)
    BY <1>5, RpcEach DEF CallChangesOption, CallChangesUri
  <2>5. CASE CallIgnores(g)
    BY <2>1, <2>3, <2>4, <2>5 DEF CallIgnores
  <2>6. CASE CallAdds(g)
    BY <2>3, <2>4, <2>6 DEF CallAdds, Group, Promise
  <2>7. CASE CallRemovesActive(g)
    <3>1. promise'[g].pause = promise[g].pause
      BY <2>3, <2>7 DEF CallRemovesActive, Promise
    <3>2. g \notin NotStarted'
      BY <1>1, <2>1, <2>7 DEF CallRemovesActive
    <3>3. ~group'[g].restartRequested
      BY <2>3, <2>7 DEF CallRemovesActive, HaltedFor, SameRest
    <3> QED BY <2>4, <3>1, <3>2, <3>3
  <2>8. CASE CallRemovesWaiting(g)
    BY <2>1, <2>3, <2>4, <2>8 DEF CallRemovesWaiting, Group
  <2>9. CASE CallPauses(g)
    BY <2>3, <2>4, <2>9 DEF CallPauses, PausedFor, SameRest
  <2>10. CASE CallResumes(g)
    BY <2>3, <2>4, <2>10 DEF CallResumes, Group, Promise
  <2> QED BY <2>4, <2>5, <2>6, <2>7, <2>8, <2>9, <2>10
<1>6. CASE RemoveStoppedGroup
  <2>1. PICK d \in Keys(requestGroups) :
          /\ d \in Gid
          /\ \A k \in Gid : k # d => group'[k] = group[k]
          /\ \/ /\ group'[d] = Requeued(group[d])
                /\ Keys(reservedGroups') = Keys(reservedGroups) \cup {d}
                /\ UNCHANGED known
             \/ /\ group'[d] = Ended(group[d])
                /\ \/ UNCHANGED <<reservedGroups, known>>
                   \/ /\ Keys(FollowUps) \cap known = {}
                      /\ Keys(FollowUps) \subseteq Gid
                      /\ Keys(reservedGroups') = Keys(FollowUps) \cup Keys(reservedGroups)
                      /\ known' = known \cup Keys(FollowUps)
          /\ UNCHANGED pending /\ UnchangedByFill
    BY <1>0, <1>6, StopEffect
  <2>2. UNCHANGED promise
    BY <2>1 DEF UnchangedByFill
  <2>3. /\ d \notin NotStarted /\ group[d] \in Group
        /\ \A g \in Gid : g # d => (g \in NotStarted' => g \in NotStarted)
    BY <1>0, <1>1, <2>1 DEF NotStarted
  <2>4. ASSUME NEW g \in Gid, g # d PROVE Kept(g)
    BY <2>1, <2>2, <2>3, <2>4
  <2>5. ~group[d].restartRequested /\ ~group'[d].restartRequested
    <3>1. ~Requeued(group[d]).restartRequested /\ ~Ended(group[d]).restartRequested
      BY <2>3, ReapedRestart
    <3> QED BY <2>1, <3>1 DEF NoRestart
  <2>6. d \in NotStarted' => group'[d].pauseRequested
    <3>1. CASE group'[d] = Requeued(group[d])
      <4>1. Requeued(group[d]).pauseRequested = ~group[d].restartRequested
        BY <2>3, ReapedFields
      <4> QED BY <2>5, <3>1, <4>1
    <3>2. CASE /\ group'[d] = Ended(group[d])
               /\ \/ UNCHANGED <<reservedGroups, known>>
                  \/ /\ Keys(FollowUps) \cap known = {}
                     /\ Keys(reservedGroups') = Keys(FollowUps) \cup Keys(reservedGroups)
                     /\ known' = known \cup Keys(FollowUps)
      <4>1. /\ d \in known /\ d \notin Keys(reservedGroups) /\ d \notin Keys(pending')
            /\ d \in Gid
        BY <2>1, <2>3 DEF NotStarted
      <4>2. known \subseteq known' /\ d \notin Keys(reservedGroups')
        BY <3>2, <4>1
      <4> QED BY <4>1, <4>2 DEF NotStarted
    <3> QED BY <2>1, <3>1, <3>2
  <2> QED BY <2>1, <2>2, <2>4, <2>5, <2>6 DEF NoRestart, PauseRecorded
<1>7. CASE FillStart
  <2>1. PICK d \in Keys(reservedGroups) :
          /\ Keys(reservedGroups') = Keys(reservedGroups) \ {d}
          /\ \A k \in Gid : k # d => group'[k] = group[k]
          /\ SameRequests(group'[d], group[d])
          /\ group'[d].restartRequested = group[d].restartRequested
          /\ UNCHANGED <<pending, known>> /\ UnchangedByFill
    BY <1>0, <1>7, FillStartEffect
  <2>2. NotStarted' \subseteq NotStarted /\ UNCHANGED promise
    BY <2>1 DEF NotStarted, UnchangedByFill
  <2>3. \A g \in Gid : Kept(g)
    BY <1>1, <2>1, <2>2 DEF SameRequests
  <2> QED BY <1>2, <2>3
<1>8. CASE FillParse \/ FillSkip \/ FillEnd \/ FillExecute \/ FillBegin \/ FillReturn
             \/ FillPeriodicCheck
  <2>1. \A g \in Gid : Kept(g)
    BY <1>8, FillNotStarted
  <2> QED BY <1>2, <2>1
<1>9. CASE UNCHANGED vars
  <2>1. \A g \in Gid : Kept(g)
    BY <1>9 DEF vars, NotStarted
  <2> QED BY <1>2, <2>1
<1> QED BY <1>3, <1>4, <1>5, <1>6, <1>7, <1>8, <1>9
     DEF Next, FillNext, LoopIterates, Exited

\* At the start the pauses asked for are recorded.
LEMMA InitPause ==
    ASSUME Init
    PROVE  NoRestart /\ PauseRecorded
<1>1. \A g \in Gid : ~group[g].restartRequested /\ group[g].pauseRequested = CreatedPaused(g)
  BY DEF Init, NewGroup
<1>2. \A g \in Gid : promise[g].pause = CreatedPaused(g)
  BY DEF Init
<1> QED BY <1>1, <1>2 DEF NoRestart, PauseRecorded, CreatedPaused

\* Only a start makes a waiting download active.
LEMMA OnlyStartActivates ==
    ASSUME SlotInv, WaitInv, [Next]_vars, NEW g \in Gid,
           group[g].state = "WAITING", group'[g].state # "WAITING"
    PROVE  FillStart /\ g \in Keys(reservedGroups) /\ ~Held(g)
<1>0. /\ TypeOK /\ ActiveState /\ Distinct(requestGroups) /\ Distinct(reservedGroups)
      /\ group[g] \in Group /\ Keys(requestGroups) \subseteq Gid
  <2>1. TypeOK /\ ActiveState /\ Distinct(requestGroups) /\ Distinct(reservedGroups)
    BY DEF WaitInv, ListsInv, ListsDisjoint
  <2>2. Keys(requestGroups) \subseteq Gid
    BY <2>1 DEF TypeOK, Keys
  <2> QED BY <2>1, <2>2 DEF TypeOK
<1>1. group'[g].state # group[g].state
  OBVIOUS
<1>2. ~CommandNext /\ ~RpcNext
  BY <1>0, <1>1, CommandFrame, RpcFrame
<1>3. ~HaltNext
  BY <1>0, <1>1, HaltFrame DEF SameCore
<1>4. ~RemoveStoppedGroup
  <2> SUFFICES ASSUME RemoveStoppedGroup PROVE FALSE
    OBVIOUS
  <2>1. PICK d \in Keys(requestGroups) :
          /\ \A k \in Gid : k # d => group'[k] = group[k]
    BY <1>0, StopEffect
  <2> QED BY <1>0, <1>1, <2>1 DEF ActiveState
<1>5. ~(FillExecute \/ FillBegin \/ FillParse \/ FillSkip \/ FillEnd \/ FillReturn
         \/ FillPeriodicCheck)
  BY <1>1, FillNotStarted
<1>6. ~UNCHANGED vars
  BY <1>1 DEF vars
<1>7. FillStart
  BY <1>2, <1>3, <1>4, <1>5, <1>6 DEF Next, FillNext, LoopIterates, Exited
<1>8. PICK d \in Keys(reservedGroups) :
        ~Held(d) /\ \A k \in Gid : k # d => group'[k] = group[k]
  BY <1>0, <1>7, FillStartEffect
<1> QED BY <1>1, <1>7, <1>8

\* A download that a client was told is paused waits until a client resumes
\* it, through any pauses, starts, stops, halts and removals of any downloads.
\* (changeOption restarts an active download and takes a pause with it that
\* came in between; a command that changeUri gives a waiting download may
\* clear its pause.)
THEOREM PausesCorrect ==
    ASSUME "changeOption" \notin Methods, "changeUri" \notin Methods
    PROVE  Spec => PausedStaysPaused
<1> DEFINE Inv == SlotInv /\ WaitInv /\ NoRestart /\ PauseRecorded
<1>1. Init => Inv
  BY InitSlots, InitWait, InitPause
<1>2. Inv /\ [Next]_vars => Inv'
  BY NextSlots, NextWait, NextPause
<1>3. Inv /\ [Next]_vars =>
        [\A g \in Gid : promise[g].pause /\ group[g].state = "WAITING"
            => group'[g].state = "WAITING"]_vars
  <2> SUFFICES ASSUME Inv, [Next]_vars, NEW g \in Gid, promise[g].pause,
                      group[g].state = "WAITING", group'[g].state # "WAITING"
               PROVE  FALSE
    OBVIOUS
  <2>1. g \in Keys(reservedGroups) /\ ~Held(g)
    BY OnlyStartActivates
  <2>2. KeepRunning /\ group[g].pauseRequested
    BY <2>1 DEF PauseRecorded, NotStarted
  <2> QED BY <2>1, <2>2 DEF Held
<1> QED BY <1>1, <1>2, <1>3, PTL DEF Spec, PausedStaysPaused

-----------------------------------------------------------------------------
(***************************************************************************)
(* Options.  What a client changed is in force, or pending for a download  *)
(* that runs, and a download that goes back to the queue takes the pending *)
(* options over.                                                           *)
(***************************************************************************)

OptionsKept ==
    \A g \in Gid :
        /\ g \in NotStarted => promise[g].option \subseteq group[g].option
        /\ g \in Keys(requestGroups) =>
             promise[g].option \subseteq group[g].option \cup group[g].pendingOption

\* changeOption: pending for an active download, in force for a waiting one.
LEMMA OptionFields ==
    ASSUME NEW rg \in Group, NEW o \in Opts
    PROVE  IF rg.state = "ACTIVE"
           THEN /\ OptionChanged(rg, o).option = rg.option
                /\ OptionChanged(rg, o).pendingOption = {o}
           ELSE OptionChanged(rg, o).option = rg.option \cup {o}
<1>1. CASE rg.state = "ACTIVE"
  <2> DEFINE p == PauseRequestGroup(rg, FALSE, FALSE)
             b == rg.restartRequested \/ PauseAccepted(rg, FALSE, FALSE)
  <2>1. p \in Group
    BY PauseType
  <2>2. p.option = rg.option
    <3>1. p = rg \/ PausedFor(p, rg, FALSE)
      BY PauseFields
    <3> HIDE DEF p
    <3> QED BY <3>1 DEF PausedFor, SameRest
  <2>3. OptionChanged(rg, o) = [p EXCEPT !.pendingOption = {o}, !.restartRequested = b]
    BY <1>1 DEF OptionChanged
  <2> HIDE DEF p, b
  <2> QED BY <1>1, <2>1, <2>2, <2>3 DEF Group
<1>2. CASE rg.state # "ACTIVE"
  <2>1. OptionChanged(rg, o) = [rg EXCEPT !.option = rg.option \cup {o}]
    BY <1>2 DEF OptionChanged
  <2> QED BY <1>2, <2>1 DEF Group
<1> QED BY <1>1, <1>2

\* Every step keeps the options.
LEMMA NextOptions ==
    ASSUME \A o1, o2 \in Opts : o1 = o2, WaitInv, OptionsKept, [Next]_vars
    PROVE  OptionsKept'
<1>0. /\ TypeOK /\ ListsInv /\ Distinct(reservedGroups) /\ Distinct(requestGroups)
      /\ \A g \in Gid : group[g] \in Group
      /\ \A g \in Gid : promise[g] \in Promise
  BY DEF WaitInv, ListsInv, ListsDisjoint, TypeOK
<1>1. /\ NotStarted \cap Keys(requestGroups) = {}
      /\ Keys(reservedGroups) \subseteq NotStarted /\ NotStarted \subseteq Gid
      /\ Keys(requestGroups) \subseteq Gid
  BY <1>0, NotStartedInactive
<1> DEFINE SameOptions(g) ==
             /\ group'[g].option = group[g].option
             /\ group'[g].pendingOption = group[g].pendingOption
             /\ promise'[g].option = promise[g].option
<1>2. ASSUME \A g \in Gid : SameOptions(g), NotStarted' \subseteq NotStarted,
             Keys(requestGroups') \subseteq Keys(requestGroups) \cup NotStarted
      PROVE  OptionsKept'
  BY <1>1, <1>2 DEF OptionsKept
<1>3. CASE CommandNext
  <2>1. PICK c \in Gid :
          /\ \A k \in Gid : k # c => group'[k] = group[k]
          /\ SameRest(group'[c], group[c])
          /\ UnchangedByCommand
    BY <1>0, <1>3, CommandEffect
  <2>2. NotStarted' = NotStarted /\ UNCHANGED <<promise, requestGroups>>
    BY <2>1 DEF UnchangedByCommand, NotStarted
  <2>3. \A g \in Gid : SameOptions(g)
    BY <2>1, <2>2 DEF SameRest
  <2> QED BY <1>2, <2>2, <2>3
<1>4. CASE HaltNext
  <2>1. /\ \A g \in Gid : \/ group'[g] = group[g]
                          \/ HaltedFor(group'[g], group[g], "SHUTDOWN_SIGNAL")
        /\ UnchangedByHalt
    BY <1>0, <1>4, HaltEffect
  <2>2. NotStarted' = NotStarted /\ UNCHANGED <<promise, requestGroups>>
    BY <2>1 DEF UnchangedByHalt, NotStarted
  <2>3. \A g \in Gid : SameOptions(g)
    BY <2>1, <2>2 DEF HaltedFor, SameRest
  <2> QED BY <1>2, <2>2, <2>3
<1>5. CASE RpcNext
  <2>0. UNCHANGED <<pending, requestGroups>>
    BY <1>0, <1>5, RpcFrame
  <2>1. NotStarted' \subseteq NotStarted
    <3>1. \/ Keys(reservedGroups') \subseteq Keys(reservedGroups) /\ UNCHANGED known
          \/ \E g \in Gid : /\ g \notin known /\ known' = known \cup {g}
                            /\ Keys(reservedGroups') = Keys(reservedGroups) \cup {g}
      BY <1>0, <1>5, RpcQueue
    <3> QED BY <2>0, <3>1 DEF NotStarted
  <2> DEFINE Good(g) == /\ g \in NotStarted => promise'[g].option \subseteq group'[g].option
                        /\ g \in Keys(requestGroups) =>
                             promise'[g].option \subseteq
                                group'[g].option \cup group'[g].pendingOption
  <2>2. SUFFICES ASSUME NEW g \in Gid PROVE Good(g)
    BY <2>0, <2>1 DEF OptionsKept
  <2>3. /\ group[g] \in Group /\ promise[g] \in Promise
        /\ g \in NotStarted => promise[g].option \subseteq group[g].option
        /\ g \in Keys(requestGroups) =>
             promise[g].option \subseteq group[g].option \cup group[g].pendingOption
    BY <1>0 DEF OptionsKept
  <2>4. ASSUME SameOptions(g) PROVE Good(g)
    BY <2>3, <2>4
  <2>5. \/ CallIgnores(g) \/ CallAdds(g) \/ CallRemovesActive(g)
        \/ CallRemovesWaiting(g) \/ CallPauses(g) \/ CallResumes(g)
        \/ CallChangesOption(g) \/ CallChangesUri(g)
    BY <1>5, RpcEach
  <2>6. ASSUME CallChangesOption(g) PROVE Good(g)
    <3>1. PICK o \in Opts : /\ group'[g] = OptionChanged(group[g], o)
                            /\ promise'[g] = [promise[g] EXCEPT !.option = @ \cup {o}]
      BY <2>6 DEF CallChangesOption
    <3>2. promise'[g].option = promise[g].option \cup {o}
      BY <2>3, <3>1 DEF Promise
    <3>3. IF group[g].state = "ACTIVE"
          THEN group'[g].option = group[g].option /\ group'[g].pendingOption = {o}
          ELSE group'[g].option = group[g].option \cup {o}
      BY <2>3, <3>1, OptionFields
    <3>4. /\ group[g].state = "WAITING" <=> g \in Keys(reservedGroups)
          /\ group[g].state = "ACTIVE" <=> g \in Keys(requestGroups)
          /\ g \in Keys(reservedGroups) \/ g \in Keys(requestGroups)
      BY <2>6, ManagedState DEF CallChangesOption, Managed
    <3>5. group[g].pendingOption \subseteq {o}
      BY <2>3 DEF Group
    <3>6. CASE group[g].state = "ACTIVE"
      <4>1. g \notin NotStarted /\ g \in Keys(requestGroups)
        BY <1>1, <3>4, <3>6
      <4> QED BY <2>3, <3>2, <3>3, <3>5, <3>6, <4>1
    <3>7. CASE group[g].state # "ACTIVE"
      <4>1. g \in NotStarted /\ g \notin Keys(requestGroups)
        BY <1>1, <3>4, <3>7
      <4> QED BY <2>3, <3>2, <3>3, <3>7, <4>1
    <3> QED BY <3>6, <3>7
  <2> HIDE DEF Good
  <2>7. ASSUME CallIgnores(g) PROVE Good(g)
    BY <2>4, <2>7 DEF CallIgnores
  <2>8. ASSUME CallAdds(g) PROVE Good(g)
    <3>1. SameOptions(g)
      BY <2>3, <2>8 DEF CallAdds, Group, Promise
    <3> QED BY <2>4, <3>1
  <2>9. ASSUME CallRemovesActive(g) PROVE Good(g)
    <3>1. SameOptions(g)
      BY <2>3, <2>9 DEF CallRemovesActive, HaltedFor, SameRest, Promise
    <3> QED BY <2>4, <3>1
  <2>10. ASSUME CallRemovesWaiting(g) PROVE Good(g)
    <3>1. SameOptions(g)
      BY <2>3, <2>10 DEF CallRemovesWaiting, Group
    <3> QED BY <2>4, <3>1
  <2>11. ASSUME CallPauses(g) PROVE Good(g)
    <3>1. SameOptions(g)
      BY <2>3, <2>11 DEF CallPauses, PausedFor, SameRest, Promise
    <3> QED BY <2>4, <3>1
  <2>12. ASSUME CallResumes(g) PROVE Good(g)
    <3>1. SameOptions(g)
      BY <2>3, <2>12 DEF CallResumes, Group, Promise
    <3> QED BY <2>4, <3>1
  <2>13. ASSUME CallChangesUri(g) PROVE Good(g)
    <3>1. SameOptions(g)
      BY <2>3, <2>13 DEF CallChangesUri, Group
    <3> QED BY <2>4, <3>1
  <2> QED BY <2>5, <2>6, <2>7, <2>8, <2>9, <2>10, <2>11, <2>12, <2>13
<1>6. CASE RemoveStoppedGroup
  <2>1. PICK d \in Keys(requestGroups) :
          /\ d \in Gid
          /\ Keys(requestGroups') = Keys(requestGroups) \ {d}
          /\ \A k \in Gid : k # d => group'[k] = group[k]
          /\ \/ /\ group'[d] = Requeued(group[d])
                /\ Keys(reservedGroups') = Keys(reservedGroups) \cup {d}
                /\ UNCHANGED known
             \/ \/ UNCHANGED <<reservedGroups, known>>
                \/ /\ Keys(FollowUps) \cap known = {}
                   /\ Keys(FollowUps) \subseteq Gid
                   /\ Keys(reservedGroups') = Keys(FollowUps) \cup Keys(reservedGroups)
                   /\ known' = known \cup Keys(FollowUps)
          /\ UNCHANGED pending /\ UnchangedByFill
    BY <1>0, <1>6, StopEffect
  <2>2. UNCHANGED promise
    BY <2>1 DEF UnchangedByFill
  <2>3. /\ d \notin NotStarted /\ group[d] \in Group /\ d \in known
        /\ d \notin Keys(reservedGroups) /\ d \notin Keys(pending')
        /\ \A g \in Gid : g # d => (g \in NotStarted' => g \in NotStarted)
    BY <1>0, <1>1, <2>1 DEF NotStarted
  <2>4. d \in NotStarted' => group'[d] = Requeued(group[d])
    <3>1. CASE \/ UNCHANGED <<reservedGroups, known>>
               \/ /\ Keys(FollowUps) \cap known = {}
                  /\ Keys(reservedGroups') = Keys(FollowUps) \cup Keys(reservedGroups)
                  /\ known' = known \cup Keys(FollowUps)
      <4>1. known \subseteq known' /\ d \notin Keys(reservedGroups')
        BY <2>3, <3>1
      <4> QED BY <2>1, <2>3, <4>1 DEF NotStarted
    <3> QED BY <2>1, <3>1
  <2>5. d \in NotStarted' => promise[d].option \subseteq group'[d].option
    <3>1. Requeued(group[d]).option = group[d].option \cup group[d].pendingOption
      BY <2>3, ReapedFields
    <3> QED BY <2>1, <2>4, <3>1 DEF OptionsKept
  <2> QED BY <2>1, <2>2, <2>3, <2>5 DEF OptionsKept
<1>7. CASE FillStart
  <2>1. PICK d \in Keys(reservedGroups) :
          /\ Keys(reservedGroups') = Keys(reservedGroups) \ {d}
          /\ Keys(requestGroups') = Keys(requestGroups) \cup {d}
          /\ \A k \in Gid : k # d => group'[k] = group[k]
          /\ group'[d].option = group[d].option
          /\ group'[d].pendingOption = group[d].pendingOption
          /\ UNCHANGED <<pending, known>> /\ UnchangedByFill
    BY <1>0, <1>7, FillStartEffect
  <2>2. NotStarted' \subseteq NotStarted /\ UNCHANGED promise
    BY <2>1 DEF NotStarted, UnchangedByFill
  <2>3. \A g \in Gid : SameOptions(g)
    BY <1>1, <2>1, <2>2
  <2> QED BY <1>1, <1>2, <2>1, <2>2, <2>3
<1>8. CASE FillParse \/ FillSkip \/ FillEnd \/ FillExecute \/ FillBegin \/ FillReturn
             \/ FillPeriodicCheck
  <2>1. UNCHANGED requestGroups
    BY <1>8 DEF FillParse, FillSkip, FillEnd, FillExecute, FillBegin, FillReturn,
                FillPeriodicCheck
  <2> QED BY <1>2, <1>8, <2>1, FillNotStarted
<1>9. CASE UNCHANGED vars
  <2>1. UNCHANGED <<group, promise, requestGroups>> /\ NotStarted' = NotStarted
    BY <1>9 DEF vars, NotStarted
  <2> QED BY <1>2, <2>1
<1> QED BY <1>3, <1>4, <1>5, <1>6, <1>7, <1>8, <1>9
     DEF Next, FillNext, LoopIterates, Exited

\* A changed option is in force whenever the download waits to be started,
\* through any pauses, restarts and failures and with every method in use,
\* changeUri included.  It is the theorem for one option: a second change of
\* a running download replaces the pending options of the first, and the run
\* that checks OptionsApplied has one option for the same reason.
THEOREM OptionsCorrect ==
    ASSUME \A o1, o2 \in Opts : o1 = o2
    PROVE  Spec => []OptionsApplied
<1>1. Init => WaitInv /\ OptionsKept
  <2> SUFFICES ASSUME Init PROVE OptionsKept
    BY InitWait
  <2>1. \A g \in Gid : promise[g].option = {}
    BY DEF Init
  <2> QED BY <2>1 DEF OptionsKept
<1>2. WaitInv /\ OptionsKept /\ [Next]_vars => (WaitInv /\ OptionsKept)'
  BY NextWait, NextOptions
<1>3. WaitInv /\ OptionsKept => OptionsApplied
  <2> SUFFICES ASSUME WaitInv, OptionsKept PROVE OptionsApplied
    OBVIOUS
  <2>1. Keys(reservedGroups) \subseteq NotStarted /\ NotStarted \subseteq Gid
    BY NotStartedInactive DEF WaitInv
  <2> QED BY <2>1 DEF OptionsKept, OptionsApplied
<1> QED BY <1>1, <1>2, <1>3, PTL DEF Spec

(***************************************************************************)
(* The queue implements DownloadLifecycle: every step of RequestGroupMan   *)
(* moves the status of each download, as aria2.tellStatus gives it, along  *)
(* the life its clients were promised.                                     *)
(*                                                                         *)
(* It is the theorem for a program that nobody shuts down (a shutdown      *)
(* turns a pause into an unfinished result) and without changeOption and   *)
(* changeUri, whose effects on pauses are described above.                 *)
(***************************************************************************)

\* No halt is under way or can be asked for.
NoHalt ==
    /\ haltRequested = 0 /\ timedHalt = <<>> /\ globalHaltRequested \in {0, 5}
    /\ pc \notin {"store2", "store4"}

\* The requests that the record of a download carries are the ones that were
\* acknowledged, whether it waits or runs.  A removal overrides a pause.
AsAsked(g) ==
    /\ promise[g].pause => KeepRunning
    /\ g \notin Keys(requestGroups) =>
         /\ ~promise[g].remove
         /\ promise[g].pause <=> group[g].pauseRequested
         /\ group[g].haltReason # "USER_REQUEST"
    /\ g \in Keys(requestGroups) =>
         /\ promise[g].remove => /\ group[g].haltRequested /\ ~group[g].pauseRequested
                                 /\ group[g].haltReason = "USER_REQUEST"
         /\ ~promise[g].remove => /\ group[g].haltReason # "USER_REQUEST"
                                  /\ promise[g].pause <=> group[g].pauseRequested
         /\ group[g].pauseRequested => group[g].haltRequested

Carried == \A g \in Gid : result[g] = "NONE" => AsAsked(g)

LifeInv == SlotInv /\ WaitInv /\ NoRestart /\ PauseRecorded /\ NoHalt /\ Carried

\* Without a signal or a shutdown the engine does not halt.
LEMMA NextNoHalt ==
    ASSUME "shutdown" \notin Methods, Signals = {}, TypeOK, NoHalt, [Next]_vars
    PROVE  NoHalt' /\ (HaltNext => UNCHANGED <<group, clientVars, queueVars, resultVars>>)
<1>1. ASSUME UNCHANGED <<haltRequested, timedHalt, globalHaltRequested>>,
             pc' \in {pc, "commands", "remove", "fill", "return"}, ~HaltNext
      PROVE  NoHalt' /\ (HaltNext => UNCHANGED <<group, clientVars, queueVars, resultVars>>)
  BY <1>1 DEF NoHalt
<1>2. CASE HaltNext
  <2>1. EndOfRun \/ Exit
    <3>1. ~TimedHaltFires /\ ~StoreGlobalHalt
      BY DEF TimedHaltFires, StoreGlobalHalt, NoHalt
    <3>2. ~AfterEachIteration
      <4>1. AfterEachIteration => globalHaltRequested = 1 \/ globalHaltRequested = 3
        BY DEF AfterEachIteration
      <4>2. globalHaltRequested = 0 \/ globalHaltRequested = 5
        BY DEF NoHalt
      <4> QED BY <4>1, <4>2
    <3>3. \A signal \in {"SIGINT", "SIGTERM"} : ~ReceiveSignal(signal)
      BY DEF ReceiveSignal
    <3> QED BY <1>2, <3>1, <3>2, <3>3 DEF HaltNext
  <2> QED BY <2>1 DEF EndOfRun, Exit, NoHalt, UnchangedByHalt
<1>3. CASE CommandNext /\ ~HaltNext
  <2>1. UNCHANGED <<haltVars, pc>>
    BY <1>3, CommandEffect DEF UnchangedByCommand
  <2> QED BY <1>1, <1>3, <2>1
<1>4. CASE FillNext /\ ~HaltNext
  <2>1. UNCHANGED haltVars
    BY <1>4 DEF FillNext, FillExecute, RemoveStoppedGroup, ProcessStopped, FillBegin,
                FillParse, FillSkip, FillStart, FillEnd, FillReturn, FillPeriodicCheck,
                UnchangedByFill
  <2>2. pc' \in {pc, "commands", "remove", "fill", "return"}
    BY <1>4 DEF FillNext, FillExecute, RemoveStoppedGroup, ProcessStopped, FillBegin,
                FillParse, FillSkip, FillStart, FillEnd, FillReturn, FillPeriodicCheck
  <2> QED BY <1>1, <1>4, <2>1, <2>2
<1>5. CASE RpcNext /\ ~HaltNext
  <2>1. UNCHANGED <<haltRequested, globalHaltRequested, pc, timedHalt>>
    BY ZenonT(60), <1>5 DEF RpcNext, Add, RemoveWaiting, Unpause, RemoveActive, Pause, ChangeOption,
         ChangeUri, ChangePosition, UnpauseAll, PauseAll, Shutdown, Rpc,
         ChangeMaxConcurrentDownloads, RemoveResults, UnchangedByGroupCall, UnchangedByRpc
  <2> QED BY <1>1, <1>5, <2>1
<1>6. CASE UNCHANGED vars /\ ~HaltNext
  BY <1>1, <1>6 DEF vars
<1> QED BY <1>2, <1>3, <1>4, <1>5, <1>6 DEF Next, LoopIterates, Exited

-----------------------------------------------------------------------------
(***************************************************************************)
(* What a step does to one download, in terms of the queue.                *)
(***************************************************************************)

SameLists(g) ==
    /\ KnownAsBefore(g) /\ result'[g] = result[g]
    /\ g \in Keys(requestGroups') <=> g \in Keys(requestGroups)

Stays(g) ==
    SameLists(g) /\ SameRequests(group'[g], group[g]) /\ promise'[g] = promise[g]

\* It is over, and its result may be taken off the list.
StaysOver(g) ==
    /\ result[g] # "NONE" /\ result'[g] = result[g]
    /\ g \in known' <=> g \in known
    /\ promise'[g] = promise[g]

\* A command gives the download up.
Fails(g) ==
    /\ g \in Keys(requestGroups) /\ SameLists(g)
    /\ HaltedItself(group'[g], group[g]) /\ promise'[g] = promise[g]

Appears(g) ==
    /\ g \notin known /\ g \in known' /\ result'[g] = result[g]
    /\ g \in dropped' <=> g \in dropped
    /\ g \in Keys(requestGroups') <=> g \in Keys(requestGroups)
    /\ group'[g].haltReason = group[g].haltReason
    /\ promise'[g].remove = promise[g].remove
    /\ \/ UNCHANGED <<group[g].pauseRequested, promise[g].pause>>
       \/ /\ group'[g].pauseRequested <=> promise'[g].pause
          /\ KeepRunning

Starts(g) ==
    /\ g \in Keys(reservedGroups) /\ ~Held(g)
    /\ KnownAsBefore(g) /\ result'[g] = result[g]
    /\ g \in Keys(requestGroups')
    /\ SameRequests(group'[g], group[g]) /\ promise'[g] = promise[g]

StopsPaused(g) ==
    /\ g \in Keys(requestGroups) /\ g \notin Keys(requestGroups')
    /\ KnownAsBefore(g) /\ result'[g] = result[g] /\ promise'[g] = promise[g]
    /\ group[g].pauseRequested /\ group'[g].pauseRequested
    /\ group'[g].haltReason = group[g].haltReason

Ends(g) ==
    /\ g \in Keys(requestGroups) /\ KnownAsBefore(g) /\ promise'[g] = promise[g]
    /\ ~group[g].pauseRequested /\ result'[g] = DownloadResult(group[g])

Called(g) ==
    /\ result'[g] = result[g] /\ KeepRunning
    /\ g \in Keys(requestGroups') <=> g \in Keys(requestGroups)
    /\ CallRemovesActive(g) \/ CallRemovesWaiting(g) \/ CallPauses(g) \/ CallResumes(g)

Moves(g) ==
    \/ Stays(g) \/ StaysOver(g) \/ Fails(g) \/ Appears(g) \/ Starts(g)
    \/ StopsPaused(g) \/ Ends(g) \/ Called(g)

\* The downloads of the lists exist and have no result.
LEMMA ListedIsLive ==
    ASSUME ListsInv, NEW g \in Keys(requestGroups) \cup Keys(reservedGroups)
    PROVE  g \in Gid /\ g \in known /\ g \notin dropped /\ result[g] = "NONE"
<1>1. g \in Live /\ known \subseteq Gid
  BY DEF ListsInv, ListsDisjoint, TypeOK
<1> QED BY <1>1 DEF Live

\* Every step makes each download do one of these.
LEMMA NextMoves ==
    ASSUME "changeOption" \notin Methods, "changeUri" \notin Methods,
           "shutdown" \notin Methods, Signals = {}, LifeInv, [Next]_vars, NEW g \in Gid
    PROVE  Moves(g)
<1>0. /\ TypeOK /\ ListsInv /\ WaitInv /\ NoHalt /\ NoRestart
      /\ Distinct(reservedGroups) /\ Distinct(requestGroups)
      /\ \A k \in Gid : group[k] \in Group
  BY DEF LifeInv, WaitInv, ListsInv, ListsDisjoint, SlotInv, TypeOK
<1>1. /\ Keys(reservedGroups) \subseteq Gid /\ Keys(requestGroups) \subseteq Gid
      /\ result \in [Gid -> Result \cup {"NONE"}] /\ promise \in [Gid -> Promise]
  BY <1>0 DEF TypeOK, Keys
<1>2. ASSUME group'[g] = group[g], promise'[g] = promise[g], SameLists(g) PROVE Moves(g)
  BY <1>2 DEF Moves, Stays, SameRequests
<1>3. CASE CommandNext
  <2>1. PICK c \in Gid :
          /\ group[c].numCommand > 0
          /\ \A k \in Gid : k # c => group'[k] = group[k]
          /\ SameRequests(group'[c], group[c]) \/ HaltedItself(group'[c], group[c])
          /\ UnchangedByCommand
    BY <1>0, <1>3, CommandEffect
  <2>2. c \in Keys(requestGroups)
    BY <2>1 DEF LifeInv, SlotInv, CommandsOnlyWhenActive
  <2>3. SameLists(g) /\ promise'[g] = promise[g]
    BY <2>1 DEF UnchangedByCommand, SameLists, KnownAsBefore
  <2>4. CASE g # c
    BY <1>2, <2>1, <2>3, <2>4
  <2>5. CASE g = c
    BY <2>1, <2>2, <2>3, <2>5 DEF Moves, Stays, Fails
  <2> QED BY <2>4, <2>5
<1>4. CASE HaltNext
  <2>1. UNCHANGED <<group, clientVars, queueVars, resultVars>>
    BY <1>0, <1>4, NextNoHalt
  <2> QED BY <1>2, <2>1 DEF SameLists, KnownAsBefore
<1>5. CASE RpcNext
  <2>1. UNCHANGED <<requestGroups, result>>
    BY <1>0, <1>5, RpcFrame
  <2>2. /\ KeepRunning
        /\ \/ CallIgnores(g) \/ CallAdds(g) \/ CallRemovesActive(g)
           \/ CallRemovesWaiting(g) \/ CallPauses(g) \/ CallResumes(g)
    BY <1>0, <1>5, RpcEach DEF CallChangesOption, CallChangesUri
  <2>3. CASE CallIgnores(g)
    <3>1. CASE g \in dropped' /\ g \in Keys(downloadResults)
      <4>1. result[g] # "NONE"
        BY <1>0, <3>1 DEF ListsInv, ResultsAreResults
      <4> QED BY <2>1, <2>3, <4>1 DEF CallIgnores, Moves, StaysOver
    <3>2. CASE ~(g \in dropped' /\ g \in Keys(downloadResults))
      BY <1>2, <2>1, <2>3, <3>2 DEF CallIgnores, SameLists, KnownAsBefore
    <3> QED BY <3>1, <3>2
  <2>4. CASE CallAdds(g)
    <3>1. PICK pause \in BOOLEAN :
            /\ group'[g] = [group[g] EXCEPT !.pauseRequested = pause]
            /\ promise'[g] = [promise[g] EXCEPT !.pause = pause]
      BY <2>4 DEF CallAdds
    <3>2. /\ group'[g].pauseRequested = pause /\ group'[g].haltReason = group[g].haltReason
      BY <1>0, <3>1 DEF Group
    <3>3. promise'[g].pause = pause /\ promise'[g].remove = promise[g].remove
      BY <1>1, <3>1 DEF Promise
    <3> QED BY <2>1, <2>2, <2>4, <3>2, <3>3 DEF CallAdds, Moves, Appears
  <2>5. CASE CallRemovesActive(g) \/ CallRemovesWaiting(g) \/ CallPauses(g) \/ CallResumes(g)
    BY <2>1, <2>2, <2>5 DEF Moves, Called
  <2> QED BY <2>2, <2>3, <2>4, <2>5
<1>6. CASE RemoveStoppedGroup
  <2>1. PICK d \in Keys(requestGroups) :
          /\ d \in Gid
          /\ Keys(requestGroups') = Keys(requestGroups) \ {d}
          /\ \A k \in Gid : k # d => group'[k] = group[k]
          /\ \/ /\ group[d].pauseRequested
                /\ group'[d] = Requeued(group[d])
                /\ UNCHANGED <<resultVars, known>>
             \/ /\ ~group[d].pauseRequested
                /\ AddDownloadResult(d, DownloadResult(group[d]))
                /\ UNCHANGED known \/ /\ Keys(FollowUps) \cap known = {}
                                      /\ known' = known \cup Keys(FollowUps)
          /\ UnchangedByFill
    BY <1>0, <1>6, StopEffect
  <2>2. UNCHANGED <<promise, dropped>>
    BY <2>1 DEF UnchangedByFill
  <2>3. \/ UNCHANGED result
        \/ result' = [result EXCEPT ![d] = DownloadResult(group[d])]
    BY <2>1 DEF AddDownloadResult
  <2>4. d \in known /\ known \subseteq known'
    BY <1>0, <2>1, ListedIsLive
  <2>5. CASE g # d
    <3>1. result'[g] = result[g] /\ group'[g] = group[g]
      BY <1>1, <2>1, <2>3, <2>5
    <3>2. g \in Keys(requestGroups') <=> g \in Keys(requestGroups)
      BY <2>1, <2>5
    <3>3. CASE g \in known' /\ g \notin known
      BY <2>2, <3>1, <3>2, <3>3 DEF Moves, Appears
    <3>4. CASE g \in known' <=> g \in known
      BY <1>2, <2>2, <3>1, <3>2, <3>4 DEF SameLists, KnownAsBefore
    <3> QED BY <2>4, <3>3, <3>4
  <2>6. CASE g = d
    <3>1. KnownAsBefore(g)
      BY <2>2, <2>4, <2>6 DEF KnownAsBefore
    <3>2. CASE group[g].pauseRequested
      <4>1. group'[g] = Requeued(group[g]) /\ UNCHANGED result
        BY <2>1, <2>6, <3>2
      <4>2. /\ Requeued(group[g]).pauseRequested = ~group[g].restartRequested
            /\ Requeued(group[g]).haltReason = group[g].haltReason
        BY <1>0, ReapedFields
      <4>3. ~group[g].restartRequested
        BY <1>0 DEF NoRestart
      <4> QED BY <2>1, <2>2, <2>6, <3>1, <3>2, <4>1, <4>2, <4>3 DEF Moves, StopsPaused
    <3>3. CASE ~group[g].pauseRequested
      <4>1. result'[g] = DownloadResult(group[g])
        BY <1>1, <2>1, <2>6, <3>3 DEF AddDownloadResult
      <4> QED BY <2>1, <2>2, <2>6, <3>1, <3>3, <4>1 DEF Moves, Ends
    <3> QED BY <3>2, <3>3
  <2> QED BY <2>5, <2>6
<1>7. CASE FillStart
  <2>1. PICK d \in Keys(reservedGroups) :
          /\ ~Held(d)
          /\ Keys(requestGroups') = Keys(requestGroups) \cup {d}
          /\ \A k \in Gid : k # d => group'[k] = group[k]
          /\ SameRequests(group'[d], group[d])
          /\ UNCHANGED <<resultVars, known>> /\ UnchangedByFill
    BY <1>0, <1>7, FillStartEffect
  <2>2. /\ KnownAsBefore(g) /\ result'[g] = result[g] /\ promise'[g] = promise[g]
    BY <2>1 DEF UnchangedByFill, KnownAsBefore
  <2>3. CASE g = d
    BY <2>1, <2>2, <2>3 DEF Moves, Starts
  <2>4. CASE g # d
    BY <1>2, <2>1, <2>2, <2>4 DEF SameLists
  <2> QED BY <2>3, <2>4
<1>8. CASE FillParse
  <2>1. UNCHANGED <<group, requestGroups, resultVars, promise, dropped>>
    BY <1>8 DEF FillParse, UnchangedByFill
  <2>2. UNCHANGED known \/ \E h \in Gid : h \notin known /\ known' = known \cup {h}
    BY <1>0, <1>8, FillMoves
  <2>3. CASE g \in known' /\ g \notin known
    BY <2>1, <2>3 DEF Moves, Appears
  <2>4. CASE g \in known' <=> g \in known
    BY <1>2, <2>1, <2>4 DEF SameLists, KnownAsBefore
  <2> QED BY <2>2, <2>3, <2>4
<1>9. CASE \/ FillSkip \/ FillEnd \/ FillExecute \/ FillBegin \/ FillReturn
           \/ FillPeriodicCheck \/ UNCHANGED vars
  <2>1. UNCHANGED <<group, requestGroups, resultVars, promise, dropped, known>>
    BY <1>9 DEF FillSkip, FillEnd, FillExecute, FillBegin, FillReturn, FillPeriodicCheck,
                UnchangedByFill, vars
  <2> QED BY <1>2, <2>1 DEF SameLists, KnownAsBefore
<1> QED BY <1>3, <1>4, <1>5, <1>6, <1>7, <1>8, <1>9
     DEF Next, FillNext, LoopIterates, Exited

\* Whatever a download does, it carries the requests as they were asked.
LEMMA MoveCarries ==
    ASSUME LifeInv, ListsInv', NEW g \in Gid, Moves(g), result'[g] = "NONE"
    PROVE  AsAsked(g)'
<1>0. /\ ListsInv /\ group[g] \in Group /\ promise[g] \in Promise /\ promise'[g] \in Promise
      /\ result[g] = "NONE" => AsAsked(g)
  BY DEF LifeInv, Carried, SlotInv, ListsInv, TypeOK
<1>1. g \in Keys(requestGroups) \cup Keys(reservedGroups) => result[g] = "NONE"
  BY <1>0, ListedIsLive
<1>2. Keys(requestGroups) \cap Keys(reservedGroups) = {}
  BY <1>0 DEF ListsInv, ListsDisjoint
<1>3. CASE Stays(g)
  BY <1>0, <1>3 DEF Stays, SameLists, SameRequests, AsAsked
<1>4. CASE StaysOver(g)
  BY <1>4 DEF StaysOver
<1>5. CASE Fails(g)
  <2>1. AsAsked(g)
    BY <1>0, <1>1, <1>5 DEF Fails
  <2> QED BY <1>5, <2>1 DEF Fails, SameLists, HaltedItself, AsAsked
<1>6. CASE Appears(g)
  <2>1. AsAsked(g) /\ g \notin Keys(requestGroups)
    <3>1. g \notin Keys(requestGroups)
      BY <1>0, <1>6, ListedIsLive DEF Appears
    <3> QED BY <1>0, <1>6, <3>1 DEF Appears
  <2> QED BY <1>6, <2>1 DEF Appears, AsAsked
<1>7. CASE Starts(g)
  <2>1. AsAsked(g) /\ g \notin Keys(requestGroups)
    BY <1>0, <1>1, <1>2, <1>7 DEF Starts
  <2>2. ~(KeepRunning /\ group[g].pauseRequested)
    BY <1>7 DEF Starts, Held
  <2> QED BY <1>7, <2>1, <2>2 DEF Starts, SameRequests, AsAsked
<1>8. CASE StopsPaused(g)
  <2>1. AsAsked(g)
    BY <1>0, <1>1, <1>8 DEF StopsPaused
  <2> QED BY <1>8, <2>1 DEF StopsPaused, AsAsked
<1>9. CASE Ends(g)
  <2>1. DownloadResult(group[g]) \in Result
    BY <1>0, ResultType
  <2> QED BY <1>9, <2>1 DEF Ends, Result
<1>10. CASE Called(g)
  <2>0. /\ result'[g] = result[g] /\ KeepRunning
        /\ g \in Keys(requestGroups') <=> g \in Keys(requestGroups)
        /\ AsAsked(g)
    BY <1>0, <1>10 DEF Called
  <2>1. CASE CallRemovesActive(g)
    <3>1. promise'[g].remove /\ g \in Keys(requestGroups')
      BY <1>0, <2>0, <2>1 DEF CallRemovesActive, Promise
    <3> QED BY <2>0, <2>1, <3>1 DEF CallRemovesActive, HaltedFor, AsAsked
  <2>2. CASE CallRemovesWaiting(g)
    <3>1. SameRequests(group'[g], group[g]) /\ promise'[g] = promise[g]
      BY <1>0, <2>2 DEF CallRemovesWaiting, Group, SameRequests
    <3> QED BY <2>0, <3>1 DEF SameRequests, AsAsked
  <2>3. CASE CallPauses(g)
    <3>1. PICK reserved \in BOOLEAN, force \in BOOLEAN :
            /\ g \in IF reserved THEN Keys(reservedGroups) ELSE Keys(requestGroups)
            /\ PauseAccepted(group[g], reserved, force)
            /\ PausedFor(group'[g], group[g], reserved)
            /\ promise'[g] = [promise[g] EXCEPT !.pause = TRUE]
      BY <2>3 DEF CallPauses
    <3>2. promise'[g].pause /\ promise'[g].remove = promise[g].remove
      BY <1>0, <3>1 DEF Promise
    <3>3. CASE reserved
      <4>1. g \notin Keys(requestGroups)
        BY <1>2, <3>1, <3>3
      <4> QED BY <2>0, <3>1, <3>2, <3>3, <4>1 DEF PausedFor, AsAsked
    <3>4. CASE ~reserved
      <4>1. ~promise[g].remove /\ g \in Keys(requestGroups)
        BY <2>0, <3>1, <3>4 DEF PauseAccepted, AsAsked
      <4> QED BY <2>0, <3>1, <3>2, <3>4, <4>1 DEF PausedFor, AsAsked
    <3> QED BY <3>3, <3>4
  <2>4. CASE CallResumes(g)
    <3>1. /\ ~group'[g].pauseRequested /\ group'[g].haltReason = group[g].haltReason
      BY <1>0, <2>4 DEF CallResumes, Group
    <3>2. ~promise'[g].pause /\ promise'[g].remove = promise[g].remove
      BY <1>0, <2>4 DEF CallResumes, Promise
    <3>3. g \notin Keys(requestGroups)
      BY <1>2, <2>4 DEF CallResumes
    <3> QED BY <2>0, <3>1, <3>2, <3>3 DEF AsAsked
  <2> QED BY <1>10, <2>1, <2>2, <2>3, <2>4 DEF Called
<1> QED BY <1>3, <1>4, <1>5, <1>6, <1>7, <1>8, <1>9, <1>10 DEF Moves

-----------------------------------------------------------------------------
(* The steps of DownloadLifecycle. *)

LifeStep(g) ==
    \/ Lifecycle!Create(g) \/ Lifecycle!Start(g) \/ Lifecycle!Pause(g)
    \/ Lifecycle!Resume(g) \/ Lifecycle!Remove(g) \/ Lifecycle!Stop(g)
    \/ Lifecycle!SameStatus(g) /\ Lifecycle!SameAsked(g)

\* What the status and the requests of a step mean to the life cycle.
LEMMA MapAsk ==
    ASSUME NEW g \in Gid, promise[g] \in Promise, promise'[g] \in Promise
    PROVE  /\ promise'[g].remove = promise[g].remove =>
                /\ promise'[g].pause = promise[g].pause => Lifecycle!SameAsked(g)
                /\ promise'[g].pause => Lifecycle!Ask(g, "pause", TRUE)
                /\ ~promise'[g].pause => Lifecycle!Ask(g, "pause", FALSE)
           /\ promise'[g].pause = promise[g].pause /\ promise'[g].remove =>
                Lifecycle!Ask(g, "remove", TRUE)
           /\ StatusOf(g)' = StatusOf(g) => Lifecycle!SameStatus(g)
<1> DEFINE rec(p, r) == [pause |-> p, remove |-> r]
           old == rec(promise[g].pause, promise[g].remove)
           new == rec(promise'[g].pause, promise'[g].remove)
<1>1. /\ promise[g].pause \in BOOLEAN /\ promise[g].remove \in BOOLEAN
      /\ promise'[g].pause \in BOOLEAN /\ promise'[g].remove \in BOOLEAN
  BY DEF Promise
<1>2. StatusOf(g)' = StatusOf(g) => Lifecycle!SameStatus(g)
  BY DEF Lifecycle!SameStatus
<1>3. Lifecycle!SameAsked(g) <=> new = old
  BY DEF Lifecycle!SameAsked
<1>4. ASSUME NEW what, NEW yes
      PROVE  Lifecycle!Ask(g, what, yes) <=> new = [old EXCEPT ![what] = yes]
  BY DEF Lifecycle!Ask
<1>5. ASSUME NEW yes \in BOOLEAN
      PROVE  /\ [old EXCEPT !["pause"] = yes] = rec(yes, promise[g].remove)
             /\ [old EXCEPT !["remove"] = yes] = rec(promise[g].pause, yes)
  <2> DEFINE o == old
  <2>1. o = [pause |-> promise[g].pause, remove |-> promise[g].remove]
    OBVIOUS
  <2> HIDE DEF o
  <2>2. [o EXCEPT !["pause"] = yes] = [pause |-> yes, remove |-> promise[g].remove]
    BY <2>1
  <2>3. [o EXCEPT !["remove"] = yes] = [pause |-> promise[g].pause, remove |-> yes]
    BY <2>1
  <2> QED BY <2>2, <2>3 DEF o
<1>6. promise'[g].remove = promise[g].remove =>
        /\ promise'[g].pause = promise[g].pause => Lifecycle!SameAsked(g)
        /\ promise'[g].pause => Lifecycle!Ask(g, "pause", TRUE)
        /\ ~promise'[g].pause => Lifecycle!Ask(g, "pause", FALSE)
  BY <1>1, <1>3, <1>4, <1>5
<1>7. promise'[g].pause = promise[g].pause /\ promise'[g].remove =>
        Lifecycle!Ask(g, "remove", TRUE)
  BY <1>1, <1>4, <1>5
<1> QED BY <1>2, <1>6, <1>7

\* The status of a download, case by case.
StatusFacts(g) ==
    /\ g \notin known => StatusOf(g) = "none"
    /\ g \in known /\ result[g] = "NONE" =>
         /\ g \in dropped => StatusOf(g) = "gone"
         /\ g \notin dropped =>
              /\ g \in Keys(requestGroups) => StatusOf(g) = "active"
              /\ g \notin Keys(requestGroups) =>
                   /\ group[g].pauseRequested => StatusOf(g) = "paused"
                   /\ ~group[g].pauseRequested => StatusOf(g) = "waiting"
    /\ result[g] = "FINISHED" => StatusOf(g) = "complete"
    /\ result[g] = "REMOVED" => StatusOf(g) = "removed"
    /\ result[g] \notin {"NONE", "FINISHED", "REMOVED"} => StatusOf(g) = "error"

\* A download that was not created has no result, so the cases do not overlap.
LEMMA StatusCases ==
    ASSUME ListsInv, ListsInv', NEW g \in Gid
    PROVE  StatusFacts(g) /\ StatusFacts(g)'
<1>1. g \notin known => result[g] = "NONE"
  BY DEF ListsInv, NewIsFresh
<1>2. g \notin known' => result'[g] = "NONE"
  BY DEF ListsInv, NewIsFresh
<1>3. StatusFacts(g)
  BY <1>1 DEF StatusFacts, StatusOf
<1>4. StatusFacts(g)'
  BY <1>2 DEF StatusFacts, StatusOf
<1> QED BY <1>3, <1>4

\* The result of a download that stops: as a removal or a completion when it
\* was removed, and as neither removed when it was not.
LEMMA ResultAsAsked ==
    ASSUME NEW rg \in Group
    PROVE  /\ rg.haltReason = "USER_REQUEST" => DownloadResult(rg) \in {"FINISHED", "REMOVED"}
           /\ rg.haltReason # "USER_REQUEST" => DownloadResult(rg) # "REMOVED"
           /\ DownloadResult(rg) # "NONE"
<1>1. CASE DownloadFinished(rg)
  BY <1>1 DEF DownloadResult
<1>2. CASE ~DownloadFinished(rg) /\ rg.haltReason = "USER_REQUEST"
  BY <1>2 DEF DownloadResult
<1>3. CASE ~DownloadFinished(rg) /\ rg.haltReason # "USER_REQUEST"
  BY <1>3 DEF DownloadResult
<1> QED BY <1>1, <1>2, <1>3

\* What a download does is a step of its life, or none.
LEMMA MoveLives ==
    ASSUME LifeInv, ListsInv', NEW g \in Gid, Moves(g)
    PROVE  LifeStep(g)
<1>0. /\ ListsInv /\ group[g] \in Group /\ promise[g] \in Promise /\ promise'[g] \in Promise
      /\ result[g] = "NONE" => AsAsked(g)
  BY DEF LifeInv, Carried, SlotInv, ListsInv, TypeOK
<1>1. g \in Keys(requestGroups) \cup Keys(reservedGroups) =>
        g \in known /\ g \notin dropped /\ result[g] = "NONE"
  BY <1>0, ListedIsLive
<1>2. Keys(requestGroups) \cap Keys(reservedGroups) = {}
  BY <1>0 DEF ListsInv, ListsDisjoint
<1>3. StatusFacts(g) /\ StatusFacts(g)'
  BY <1>0, StatusCases
<1> DEFINE Ask == /\ promise'[g].remove = promise[g].remove =>
                       /\ promise'[g].pause = promise[g].pause => Lifecycle!SameAsked(g)
                       /\ promise'[g].pause => Lifecycle!Ask(g, "pause", TRUE)
                       /\ ~promise'[g].pause => Lifecycle!Ask(g, "pause", FALSE)
                  /\ promise'[g].pause = promise[g].pause /\ promise'[g].remove =>
                       Lifecycle!Ask(g, "remove", TRUE)
                  /\ StatusOf(g)' = StatusOf(g) => Lifecycle!SameStatus(g)
<1>4. Ask
  BY <1>0, MapAsk
<1>5. ASSUME StatusOf(g)' = StatusOf(g), promise'[g] = promise[g] PROVE LifeStep(g)
  BY <1>4, <1>5 DEF LifeStep
<1> DEFINE st(s) == StatusOf(g) = s
           st2(s) == StatusOf(g)' = s
<1>s. /\ \A s : st(s) <=> [k \in Gid |-> StatusOf(k)][g] = s
      /\ \A s : st2(s) <=> [k \in Gid |-> StatusOf(k)]'[g] = s
      /\ promise[g].pause = [k \in Gid |-> [pause |-> promise[k].pause,
                                           remove |-> promise[k].remove]][g].pause
      /\ promise[g].remove = [k \in Gid |-> [pause |-> promise[k].pause,
                                            remove |-> promise[k].remove]][g].remove
  OBVIOUS
<1>6. CASE Stays(g)
  <2>1. StatusOf(g)' = StatusOf(g)
    BY <1>6 DEF Stays, SameLists, KnownAsBefore, SameRequests, StatusOf
  <2> QED BY <1>5, <1>6, <2>1 DEF Stays
<1>7. CASE StaysOver(g)
  <2>1. StatusOf(g)' = StatusOf(g)
    BY <1>3, <1>7 DEF StaysOver, StatusFacts
  <2> QED BY <1>5, <1>7, <2>1 DEF StaysOver
<1>8. CASE Fails(g)
  <2>1. StatusOf(g)' = StatusOf(g)
    BY <1>1, <1>3, <1>8 DEF Fails, SameLists, KnownAsBefore, StatusFacts
  <2> QED BY <1>5, <1>8, <2>1 DEF Fails
<1>9. CASE Appears(g)
  <2>1. /\ g \notin Keys(requestGroups) /\ result[g] = "NONE" /\ g \notin dropped
        /\ AsAsked(g)
    BY <1>0, <1>1, <1>9 DEF Appears, ListsInv, NewIsFresh
  <2>2. promise'[g].pause <=> group'[g].pauseRequested
    BY <1>9, <2>1 DEF Appears, AsAsked
  <2>3. st("none") /\ (promise'[g].pause => st2("paused")) /\ (~promise'[g].pause => st2("waiting"))
    BY <1>3, <1>9, <2>1, <2>2 DEF Appears, StatusFacts
  <2>4. promise'[g].remove = promise[g].remove
    BY <1>9 DEF Appears
  <2>5. Lifecycle!Create(g)
    BY <1>0, <1>4, <1>s, <2>3, <2>4 DEF Lifecycle!Create
  <2> QED BY <2>5 DEF LifeStep
<1>10. CASE Starts(g)
  <2>1. /\ g \notin Keys(requestGroups) /\ g \in Keys(requestGroups')
        /\ g \in known' /\ g \notin dropped' /\ result'[g] = "NONE"
        /\ AsAsked(g) /\ g \in known /\ g \notin dropped /\ result[g] = "NONE"
    BY <1>0, <1>1, <1>2, <1>10 DEF Starts, KnownAsBefore
  <2>2. ~group[g].pauseRequested
    BY <1>10, <2>1 DEF Starts, Held, AsAsked
  <2>3. st("waiting") /\ st2("active")
    BY <1>3, <2>1, <2>2 DEF StatusFacts
  <2>4. promise'[g] = promise[g]
    BY <1>10 DEF Starts
  <2>5. Lifecycle!Start(g)
    BY <1>4, <1>s, <2>3, <2>4 DEF Lifecycle!Start
  <2> QED BY <2>5 DEF LifeStep
<1>11. CASE StopsPaused(g)
  <2>1. /\ AsAsked(g) /\ g \in known /\ g \notin dropped /\ result[g] = "NONE"
        /\ g \in Keys(requestGroups) /\ g \notin Keys(requestGroups')
        /\ g \in known' /\ g \notin dropped' /\ result'[g] = "NONE"
        /\ promise'[g] = promise[g]
    BY <1>0, <1>1, <1>11 DEF StopsPaused, KnownAsBefore
  <2>2. st("active") /\ st2("paused")
    BY <1>3, <1>11, <2>1 DEF StatusFacts, StopsPaused
  <2>3. ~promise[g].remove /\ promise[g].pause
    BY <1>11, <2>1 DEF StopsPaused, AsAsked
  <2>4. Lifecycle!Stop(g)
    BY <1>4, <1>s, <2>1, <2>2, <2>3 DEF Lifecycle!Stop
  <2> QED BY <2>4 DEF LifeStep
<1>12. CASE Ends(g)
  <2>1. /\ AsAsked(g) /\ g \in known /\ g \notin dropped /\ result[g] = "NONE"
        /\ g \in Keys(requestGroups) /\ promise'[g] = promise[g]
        /\ result'[g] = DownloadResult(group[g]) /\ ~group[g].pauseRequested
    BY <1>0, <1>1, <1>12 DEF Ends
  <2>2. /\ group[g].haltReason = "USER_REQUEST" => result'[g] \in {"FINISHED", "REMOVED"}
        /\ group[g].haltReason # "USER_REQUEST" => result'[g] # "REMOVED"
        /\ result'[g] # "NONE"
    BY <1>0, <2>1, ResultAsAsked
  <2>3. st("active")
    BY <1>3, <2>1 DEF StatusFacts
  <2>4. CASE promise[g].remove
    <3>1. st2("complete") \/ st2("removed")
      BY <1>3, <2>1, <2>2, <2>4 DEF StatusFacts, AsAsked
    <3>2. Lifecycle!Stop(g)
      BY <1>4, <1>s, <2>1, <2>3, <2>4, <3>1 DEF Lifecycle!Stop
    <3> QED BY <3>2 DEF LifeStep
  <2>5. CASE ~promise[g].remove
    <3>1. ~promise[g].pause /\ result'[g] # "REMOVED"
      BY <2>1, <2>2, <2>5 DEF AsAsked
    <3>2. st2("complete") \/ st2("error")
      BY <1>3, <2>2, <3>1 DEF StatusFacts
    <3>3. Lifecycle!Stop(g)
      BY <1>4, <1>s, <2>1, <2>3, <2>5, <3>1, <3>2 DEF Lifecycle!Stop
    <3> QED BY <3>3 DEF LifeStep
  <2> QED BY <2>4, <2>5
<1>13. CASE Called(g)
  <2>0. /\ result'[g] = result[g]
        /\ g \in Keys(requestGroups') <=> g \in Keys(requestGroups)
    BY <1>13 DEF Called
  <2>1. CASE CallRemovesActive(g)
    <3>1. g \in Keys(requestGroups) /\ KnownAsBefore(g)
      BY <2>1 DEF CallRemovesActive
    <3>2. st("active") /\ StatusOf(g)' = StatusOf(g)
      BY <1>1, <1>3, <2>0, <3>1 DEF KnownAsBefore, StatusFacts
    <3>3. promise'[g].remove /\ promise'[g].pause = promise[g].pause
      BY <1>0, <2>1 DEF CallRemovesActive, Promise
    <3>4. Lifecycle!Remove(g)
      BY <1>4, <1>s, <3>2, <3>3 DEF Lifecycle!Remove
    <3> QED BY <3>4 DEF LifeStep
  <2>2. CASE CallRemovesWaiting(g)
    <3>1. /\ g \in Keys(reservedGroups) /\ g \notin Keys(requestGroups)
          /\ g \in known' /\ g \in dropped' /\ promise'[g] = promise[g]
      BY <1>1, <1>2, <2>2 DEF CallRemovesWaiting
    <3>2. (st("waiting") \/ st("paused")) /\ st2("gone")
      BY <1>1, <1>3, <2>0, <3>1 DEF StatusFacts
    <3>3. Lifecycle!Remove(g)
      BY <1>4, <1>s, <3>1, <3>2 DEF Lifecycle!Remove
    <3> QED BY <3>3 DEF LifeStep
  <2>3. CASE CallPauses(g)
    <3>1. PICK reserved \in BOOLEAN, force \in BOOLEAN :
            /\ g \in IF reserved THEN Keys(reservedGroups) ELSE Keys(requestGroups)
            /\ KnownAsBefore(g)
            /\ PauseAccepted(group[g], reserved, force)
            /\ group'[g].pauseRequested
            /\ promise'[g] = [promise[g] EXCEPT !.pause = TRUE]
      BY <2>3 DEF CallPauses, PausedFor
    <3>2. promise'[g].pause /\ promise'[g].remove = promise[g].remove
      BY <1>0, <3>1 DEF Promise
    <3>3. AsAsked(g) /\ g \in known /\ g \notin dropped /\ result[g] = "NONE"
      BY <1>0, <1>1, <3>1
    <3>4. CASE reserved
      <4>1. st("waiting") /\ st2("paused")
        BY <1>2, <1>3, <2>0, <3>1, <3>3, <3>4
           DEF StatusFacts, KnownAsBefore, PauseAccepted
      <4>2. Lifecycle!Pause(g)
        BY <1>4, <1>s, <3>2, <4>1 DEF Lifecycle!Pause
      <4> QED BY <4>2 DEF LifeStep
    <3>5. CASE ~reserved
      <4>1. st("active") /\ StatusOf(g)' = StatusOf(g)
        BY <1>3, <2>0, <3>1, <3>3, <3>5 DEF StatusFacts, KnownAsBefore
      <4>2. ~promise[g].remove
        BY <3>1, <3>3, <3>5 DEF PauseAccepted, AsAsked
      <4>3. Lifecycle!Pause(g)
        BY <1>4, <1>s, <3>2, <4>1, <4>2 DEF Lifecycle!Pause
      <4> QED BY <4>3 DEF LifeStep
    <3> QED BY <3>4, <3>5
  <2>4. CASE CallResumes(g)
    <3>1. /\ g \in Keys(reservedGroups) /\ g \notin Keys(requestGroups) /\ KnownAsBefore(g)
          /\ AsAsked(g) /\ g \in known /\ g \notin dropped /\ result[g] = "NONE"
      BY <1>0, <1>1, <1>2, <2>4 DEF CallResumes
    <3>2. ~promise'[g].pause /\ promise'[g].remove = promise[g].remove
      BY <1>0, <2>4 DEF CallResumes, Promise
    <3>3. ~group'[g].pauseRequested
      BY <1>0, <2>4 DEF CallResumes, Group
    <3>4. st2("waiting")
      BY <1>3, <2>0, <3>1, <3>3 DEF StatusFacts, KnownAsBefore
    <3>5. CASE group[g].pauseRequested
      <4>1. st("paused")
        BY <1>3, <3>1, <3>5 DEF StatusFacts
      <4>2. Lifecycle!Resume(g)
        BY <1>4, <1>s, <3>2, <3>4, <4>1 DEF Lifecycle!Resume
      <4> QED BY <4>2 DEF LifeStep
    <3>6. CASE ~group[g].pauseRequested
      <4>1. st("waiting") /\ ~promise[g].pause
        BY <1>3, <3>1, <3>6 DEF StatusFacts, AsAsked
      <4>2. promise'[g].pause = promise[g].pause
        BY <1>0, <3>2, <4>1 DEF Promise
      <4> QED BY <1>4, <3>2, <3>4, <4>1, <4>2 DEF LifeStep
    <3> QED BY <3>5, <3>6
  <2> QED BY <1>13, <2>1, <2>2, <2>3, <2>4 DEF Called
<1> QED BY <1>6, <1>7, <1>8, <1>9, <1>10, <1>11, <1>12, <1>13 DEF Moves

\* At the start nothing is halted and the requests are as created.
LEMMA InitLife ==
    ASSUME Init
    PROVE  LifeInv /\ Lifecycle!Init
<1>1. SlotInv /\ WaitInv /\ NoRestart /\ PauseRecorded
  BY InitSlots, InitWait, InitPause
<1>2. NoHalt
  BY DEF Init, NoHalt
<1>3. \A g \in Gid : /\ group[g].pauseRequested = CreatedPaused(g)
                     /\ group[g].haltReason = "NONE"
  BY DEF Init, NewGroup
<1>4. \A g \in Gid : /\ promise[g].pause = CreatedPaused(g)
                     /\ promise[g].remove = FALSE
  BY DEF Init
<1>5. Keys(requestGroups) = {}
  BY DEF Init, Keys
<1>6. Carried
  BY <1>3, <1>4, <1>5 DEF Carried, AsAsked, CreatedPaused
<1>7. ASSUME NEW g \in Gid
      PROVE  /\ StatusOf(g) \in {"none", "waiting", "paused"}
             /\ StatusOf(g) = "waiting" => ~promise[g].pause
             /\ StatusOf(g) = "paused" => promise[g].pause
  <2>1. /\ result[g] = "NONE" /\ g \notin dropped /\ g \notin Keys(requestGroups)
    BY <1>5 DEF Init
  <2>2. \/ StatusOf(g) = "none"
        \/ StatusOf(g) = IF group[g].pauseRequested THEN "paused" ELSE "waiting"
    BY <2>1 DEF StatusOf
  <2> QED BY <1>3, <1>4, <2>2
<1>8. Lifecycle!Init
  BY <1>4, <1>7 DEF Lifecycle!Init
<1> QED BY <1>1, <1>2, <1>6, <1>8 DEF LifeInv

\* The queue implements the life cycle, for any number of downloads, limits,
\* commands, Metalink dependencies, follow-up downloads and deferred input,
\* and for any mix of the other calls: a step of the queue is, for each
\* download, a step of DownloadLifecycle or none.
THEOREM LifecycleCorrect ==
    ASSUME "changeOption" \notin Methods, "changeUri" \notin Methods,
           "shutdown" \notin Methods, Signals = {}
    PROVE  Spec => ImplementsLifecycle
<1>1. Init => LifeInv /\ Lifecycle!Init
  BY InitLife
<1>2. LifeInv /\ [Next]_vars => LifeInv'
  <2> SUFFICES ASSUME LifeInv, [Next]_vars PROVE LifeInv'
    OBVIOUS
  <2>1. SlotInv /\ WaitInv /\ NoRestart /\ PauseRecorded /\ NoHalt /\ TypeOK
    BY DEF LifeInv, SlotInv, ListsInv
  <2>2. SlotInv' /\ WaitInv' /\ NoHalt' /\ NoRestart' /\ PauseRecorded'
    BY <2>1, NextSlots, NextWait, NextNoHalt, NextPause
  <2>3. ListsInv'
    BY <2>2 DEF SlotInv
  <2>4. Carried'
    BY <2>3, NextMoves, MoveCarries DEF Carried
  <2> QED BY <2>2, <2>4 DEF LifeInv
<1>3. LifeInv /\ LifeInv' /\ [Next]_vars => [Lifecycle!Next]_(Lifecycle!vars)
  <2> SUFFICES ASSUME LifeInv, LifeInv', [Next]_vars PROVE Lifecycle!Next
    OBVIOUS
  <2>1. ListsInv'
    BY DEF LifeInv, SlotInv
  <2>2. ASSUME NEW g \in Gid PROVE LifeStep(g)
    BY <2>1, NextMoves, MoveLives
  <2> QED BY <2>2 DEF Lifecycle!Next, LifeStep
<1> QED BY <1>1, <1>2, <1>3, PTL DEF Spec, ImplementsLifecycle, Lifecycle!Spec

=============================================================================
