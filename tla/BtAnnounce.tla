---------------------------- MODULE BtAnnounce -----------------------------
(***************************************************************************)
(* The announces of BitTorrent downloads: the tiers of trackers            *)
(* (AnnounceList, AnnounceTier), when an announce is due and with which    *)
(* event (DefaultBtAnnounce), and the command that sends it, waits for its *)
(* end and tries the next tracker (TrackerWatcherCommand).  A tracker is   *)
(* asked over HTTP, by a download of its own that ends one way or the      *)
(* other, or through the shared UDPTrackerClient.                          *)
(***************************************************************************)
EXTENDS UDPTrackerClient

CONSTANTS
    Tiers,      \* [Download -> Seq(Seq(tracker))]: the announce-list
    Unparsable, \* trackers whose URI does not parse
    Reliable,   \* HTTP trackers that always give a proper answer
    Finishes,   \* downloads that may complete
    UserHalts   \* downloads that may be halted by themselves

VARIABLES
    ann,    \* DefaultBtAnnounce with its AnnounceList
    watch,  \* the watcher command and the announce it waits for
    rt,     \* of the download: halt, force halt, all pieces there
    acked   \* history: the events the trackers of a tier have acknowledged

Tracker ==
    UNION {UNION {ToSet(Tiers[d][t]) : t \in DOMAIN Tiers[d]} : d \in Download}

ASSUME BtAnnounceAssumption ==
    Tiers \in [Download -> Seq(Seq(Tracker) \ {<<>>})]

Event == {"STARTED", "STARTED_AFTER_COMPLETION", "DOWNLOADING", "COMPLETED",
          "SEEDING", "STOPPED", "HALTED"}

EventString(e) ==
    CASE e \in {"STARTED", "STARTED_AFTER_COMPLETION"} -> "started"
      [] e = "STOPPED" -> "stopped"
      [] e = "COMPLETED" -> "completed"
      [] OTHER -> ""

\* due: the announce interval is over.  tier is one past the tiers when all
\* of them have failed.
InitAnnounce(d) ==
    [tiers |-> [t \in DOMAIN Tiers[d] |->
                  [event |-> "STARTED", urls |-> Tiers[d][t]]],
     tier |-> 1, url |-> 1, trackers |-> 0, due |-> TRUE]

NoAnnounce ==
    [kind |-> "none", tier |-> 0, event |-> "", url |-> NoHost,
     state |-> "none"]

BtAnnounceInit ==
    /\ ann = [d \in Download |-> InitAnnounce(d)]
    /\ watch = [d \in Download |-> [alive |-> TRUE, req |-> NoAnnounce]]
    /\ rt = [d \in Download |->
               [halt |-> FALSE, force |-> FALSE, finished |-> FALSE]]
    /\ acked = [d \in Download |-> [t \in DOMAIN Tiers[d] |-> {}]]

----------------------------------------------------------------------------
(***************************************************************************)
(* AnnounceTier and AnnounceList, on a = ann[d].  currentTrackerInitialized*)
(* is tier <= Len(tiers).                                                  *)
(***************************************************************************)
allTiersFailed(a) == a.tier > Len(a.tiers)

\* Fault: a tier that was told "stopped" may be told again.
NextEventKeepsStopped(e) ==
    CASE e = "STARTED" -> "DOWNLOADING"
      [] e \in {"STARTED_AFTER_COMPLETION", "COMPLETED"} -> "SEEDING"
      [] OTHER -> e

nextEvent(e) ==
    CASE e = "STARTED" -> "DOWNLOADING"
      [] e \in {"STARTED_AFTER_COMPLETION", "COMPLETED"} -> "SEEDING"
      [] e = "STOPPED" -> "HALTED"
      [] OTHER -> e

\* Fault: a tier that cannot be reached is asked for ever.
NoForcedEvent(e) == e

nextEventIfAfterStarted(e) ==
    IF e \in {"STOPPED", "COMPLETED"} THEN nextEvent(e) ELSE e

StoppedAllowed(e) == e \in {"DOWNLOADING", "STOPPED", "COMPLETED", "SEEDING"}
CompletedAllowed(e) == e \in {"DOWNLOADING", "COMPLETED"}

resetTier(a) == [a EXCEPT !.tier = 1, !.url = 1]

\* The tracker that answered goes to the front of its tier.
listSuccess(a) ==
    LET u == a.tiers[a.tier].urls IN
    resetTier([a EXCEPT
      !.tiers[a.tier] =
         [event |-> nextEvent(@.event),
          urls |-> <<u[a.url]>> \o SubSeq(u, 1, a.url - 1)
                     \o SubSeq(u, a.url + 1, Len(u))]])

\* Fault: a tier that has failed is asked again instead of the next one.
StayInTier(a) ==
    IF allTiersFailed(a) THEN a
    ELSE IF a.url < Len(a.tiers[a.tier].urls) THEN [a EXCEPT !.url = @ + 1]
    ELSE [a EXCEPT !.tiers[a.tier].event = nextEventIfAfterStarted(@),
                   !.url = 1]

listFailure(a) ==
    IF allTiersFailed(a) THEN a
    ELSE IF a.url < Len(a.tiers[a.tier].urls) THEN [a EXCEPT !.url = @ + 1]
    ELSE [a EXCEPT !.tiers[a.tier].event = nextEventIfAfterStarted(@),
                   !.tier = @ + 1, !.url = 1]

\* The first tier from the current one on, round the end, that allows it.
moveToAllowedTier(a, Allowed(_)) ==
    LET n == Len(a.tiers)
        At(k) == IF a.tier + k <= n THEN a.tier + k ELSE a.tier + k - n
        k == CHOOSE j \in 0 .. n - 1 :
               /\ Allowed(a.tiers[At(j)].event)
               /\ \A i \in 0 .. j - 1 : ~Allowed(a.tiers[At(i)].event)
    IN  IF Allowed(a.tiers[a.tier].event) THEN a
        ELSE [a EXCEPT !.tier = At(k), !.url = 1]

----------------------------------------------------------------------------
(***************************************************************************)
(* DefaultBtAnnounce, with r = rt[d].                                      *)
(***************************************************************************)
AnyTier(a, Allowed(_)) ==
    \E t \in DOMAIN a.tiers : Allowed(a.tiers[t].event)

isStoppedAnnounceReady(a, r) ==
    a.trackers = 0 /\ r.halt /\ AnyTier(a, StoppedAllowed)
isCompletedAnnounceReady(a, r) ==
    a.trackers = 0 /\ r.finished /\ AnyTier(a, CompletedAllowed)
isDefaultAnnounceReady(a) ==
    a.trackers = 0 /\ a.due /\ ~allTiersFailed(a)
isAnnounceReady(a, r) ==
    \/ isStoppedAnnounceReady(a, r)
    \/ isCompletedAnnounceReady(a, r)
    \/ isDefaultAnnounceReady(a)

noMoreAnnounce(a, r) ==
    a.trackers = 0 /\ r.halt /\ ~AnyTier(a, StoppedAllowed)

SetEvent(a, e) == [a EXCEPT !.tiers[a.tier].event = e]

adjustAnnounceList(a, r) ==
    IF isStoppedAnnounceReady(a, r)
    THEN SetEvent(moveToAllowedTier(a, StoppedAllowed), "STOPPED")
    ELSE IF isCompletedAnnounceReady(a, r)
    THEN SetEvent(moveToAllowedTier(a, CompletedAllowed), "COMPLETED")
    ELSE IF r.finished /\ a.tiers[a.tier].event = "STARTED"
    THEN SetEvent(a, "STARTED_AFTER_COMPLETION") ELSE a

resetAnnounce(a) == [resetTier(a) EXCEPT !.due = FALSE]
announceStart(a) == [a EXCEPT !.trackers = @ + 1]
announceSuccess(a) == listSuccess([a EXCEPT !.trackers = 0])
announceFailure(a) == listFailure([a EXCEPT !.trackers = 0])

failedAnnounce(a) ==
    LET f == announceFailure(a) IN
    IF allTiersFailed(f) THEN resetAnnounce(f) ELSE f

----------------------------------------------------------------------------
(***************************************************************************)
(* TrackerWatcherCommand.                                                  *)
(***************************************************************************)
CurrentUrl(a) == a.tiers[a.tier].urls[a.url]

\* The loop of createAnnounce passes over URIs that do not parse.  The result
\* is the set of the one list it ends with.
SkipUnparsable(a, r) ==
    LET Pass(b) ==
          IF allTiersFailed(b) \/ ~isAnnounceReady(b, r) THEN b
          ELSE LET c == adjustAnnounceList(b, r)
               IN  IF CurrentUrl(c) \in Unparsable THEN announceFailure(c)
                   ELSE c
        n == Cardinality(UNION {{t} \X DOMAIN a.tiers[t].urls : t \in DOMAIN a.tiers})
        After[i \in 0 .. 1 + n] ==
          IF i = 0 THEN {a} ELSE {Pass(b) : b \in After[i - 1]}
    IN  After[1 + n]

\* The state of the announce a watcher waits for.
RequestState(d) ==
    IF watch[d].req.kind = "udp" THEN cli.reqs[<<"announce", d>>].state
    ELSE watch[d].req.state

Stopped(d) == RequestState(d) \in {"ok", "error", "dropped", "none"}

DropUdp(d) ==
    IF watch[d].req.kind = "udp"
    THEN [cli EXCEPT !.reqs[<<"announce", d>>] = NoRequest] ELSE cli

\* A new announce, if one is due.
Create(d) ==
    \E b \in SkipUnparsable(ann[d], rt[d]) :
    LET url == CurrentUrl(b)
        udp == url \in UdpHost
    IN  IF ~allTiersFailed(b) /\ isAnnounceReady(b, rt[d])
        THEN /\ ann' = [ann EXCEPT ![d] = announceStart(b)]
             /\ watch' = [watch EXCEPT ![d].req =
                  [kind |-> IF udp THEN "udp" ELSE "http", tier |-> b.tier,
                   event |-> EventString(b.tiers[b.tier].event),
                   url |-> url, state |-> "open"]]
             /\ cli' = IF ~udp THEN cli
                       ELSE [cli EXCEPT !.reqs[<<"announce", d>>] =
                              [host |-> url, fail |-> 0, state |-> "resolving"]]
        ELSE /\ ann' = [ann EXCEPT ![d] =
                          IF allTiersFailed(b) THEN resetAnnounce(b) ELSE b]
             /\ watch' = [watch EXCEPT ![d].alive =
                            ~noMoreAnnounce(ann'[d], rt[d])]
             /\ UNCHANGED cli

\* The announce is over.
Finish(d, proper) ==
    LET q == watch[d].req
        good == /\ RequestState(d) = "ok"
                /\ q.kind = "udp" \/ q.url \in Reliable \/ proper
        a == IF good THEN resetAnnounce(announceSuccess(ann[d]))
             ELSE failedAnnounce(ann[d])
    IN  /\ ann' = [ann EXCEPT ![d] = a]
        /\ acked' = IF good THEN [acked EXCEPT ![d][q.tier] = @ \cup {q.event}]
                    ELSE acked
        /\ watch' = [watch EXCEPT ![d] =
              [alive |-> ~noMoreAnnounce(a, rt[d]), req |-> NoAnnounce]]
        /\ cli' = DropUdp(d)

\* execute; proper: the body of an HTTP answer is a proper response.
Watch(d, proper) ==
    /\ watch[d].alive
    /\ LET q == watch[d].req IN
       IF rt[d].force
       THEN /\ IF Stopped(d)
               THEN /\ watch' = [watch EXCEPT ![d] =
                          [alive |-> FALSE, req |-> NoAnnounce]]
                    /\ cli' = IF RequestState(d) = "dropped" THEN cli
                              ELSE DropUdp(d)
               ELSE /\ watch' = [watch EXCEPT ![d].req =
                          IF q.kind = "udp"
                          THEN [@ EXCEPT !.kind = "gone", !.state = "dropped"]
                          ELSE [@ EXCEPT !.state = "stopping"]]
                    /\ UNCHANGED cli
            /\ UNCHANGED <<ann, acked>>
       ELSE IF noMoreAnnounce(ann[d], rt[d])
       THEN /\ watch' = [watch EXCEPT ![d].alive = FALSE]
            /\ UNCHANGED <<ann, acked, cli>>
       ELSE IF q = NoAnnounce
       THEN Create(d) /\ UNCHANGED acked
       ELSE IF Stopped(d) THEN Finish(d, proper)
       ELSE UNCHANGED <<ann, watch, acked, cli>>
    /\ UNCHANGED <<rt, pump, eng>>

\* The download that asks an HTTP tracker is over.
HttpDone(d) ==
    /\ watch[d].req.kind = "http"
    /\ watch[d].req.state \in {"open", "stopping"}
    /\ \E ok \in BOOLEAN :
          /\ IF watch[d].req.state = "stopping" THEN ~ok
             ELSE watch[d].req.url \in Reliable => ok
          /\ watch' = [watch EXCEPT ![d].req.state =
                         IF ok THEN "ok" ELSE "error"]
    /\ UNCHANGED <<ann, acked, rt, cli, pump, eng>>

=============================================================================
