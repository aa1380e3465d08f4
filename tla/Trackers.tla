------------------------------ MODULE Trackers ------------------------------
(***************************************************************************)
(* Downloads that announce to their trackers, the shared UDP client and    *)
(* the network between, while downloads complete and are halted and the    *)
(* engine shuts down, gracefully or not.                                   *)
(***************************************************************************)
EXTENDS BtAnnounce

vars == <<cli, pump, eng, ann, watch, rt, acked>>
annVars == <<ann, watch, rt, acked>>

Init ==
    /\ cli = InitClient
    /\ pump = TRUE
    /\ eng = [halt |-> FALSE, force |-> FALSE]
    /\ BtAnnounceInit

AnyWatcher == \E d \in Download : watch[d].alive

\* The announce interval of a download is over.
Due(d) ==
    /\ watch[d].alive /\ ~ann[d].due
    /\ ann' = [ann EXCEPT ![d].due = TRUE]
    /\ UNCHANGED <<watch, rt, acked, cli, pump, eng>>

DownloadFinishes(d) ==
    /\ d \in Finishes /\ ~rt[d].finished /\ ~rt[d].halt
    /\ rt' = [rt EXCEPT ![d].finished = TRUE]
    /\ UNCHANGED <<ann, watch, acked, cli, pump, eng>>

\* setHaltRequested and setForceHaltRequested on one download.
HaltDownload(d, force) ==
    /\ d \in UserHalts
    /\ ~rt[d].halt \/ (force /\ ~rt[d].force)
    /\ rt' = [rt EXCEPT ![d].halt = TRUE, ![d].force = @ \/ force]
    /\ UNCHANGED <<ann, watch, acked, cli, pump, eng>>

\* The engine is asked to halt, and with it every download.
HaltEngine(force) ==
    /\ ~eng.halt \/ (force /\ ~eng.force)
    /\ eng' = [halt |-> TRUE, force |-> eng.force \/ force]
    /\ rt' = [d \in Download |->
                [rt[d] EXCEPT !.halt = TRUE, !.force = @ \/ force]]
    /\ UNCHANGED <<ann, watch, acked, cli, pump>>

WatchStep(d) == \E proper \in BOOLEAN : Watch(d, proper)
PumpStep == PumpSteps(AnyWatcher) /\ UNCHANGED annVars
ResolveStep(d) == Resolve(d) /\ UNCHANGED annVars

Next ==
    \/ \E d \in Download :
         \/ WatchStep(d)
         \/ HttpDone(d)
         \/ ResolveStep(d)
         \/ Due(d)
         \/ DownloadFinishes(d)
         \/ \E force \in BOOLEAN : HaltDownload(d, force)
    \/ \E force \in BOOLEAN : HaltEngine(force)
    \/ PumpStep
    \/ Expire /\ UNCHANGED annVars

Spec == Init /\ [][Next]_vars

----------------------------------------------------------------------------
\* The engine goes on executing its commands, time goes on passing (an
\* interval ends, a request in flight times out), a name is resolved or not,
\* and an HTTP request ends.
TimesOut(id) ==
    /\ id \in ToSet(cli.inflight)
    /\ \E T \in SUBSET ToSet(cli.inflight), E \in SUBSET UdpHost :
          Pump({}, T \cup {id}, E, AnyWatcher)
    /\ UNCHANGED annVars

\* Nothing has arrived and nothing times out: what is pending is sent.
\* Every other execution of the pump sends it too, so that this is all that
\* executing the pump again and again guarantees.
SendsPending ==
    /\ \E E \in SUBSET UdpHost : Pump({}, {}, E, AnyWatcher)
    /\ UNCHANGED annVars

Fairness ==
    /\ \A d \in Download :
         /\ WF_vars(WatchStep(d))
         /\ WF_vars(HttpDone(d))
         /\ WF_vars(ResolveStep(d))
         /\ WF_vars(Due(d))
    /\ WF_vars(SendsPending)
    /\ \A id \in Id : WF_vars(TimesOut(id))

FairSpec == Spec /\ Fairness

----------------------------------------------------------------------------
(***************************************************************************)
(* Properties.                                                             *)
(***************************************************************************)

\* The type invariant of the trackers.
TypeOK ==
    /\ IsClient(cli)
    /\ pump \in BOOLEAN
    /\ \A d \in Download :
         /\ \A t \in DOMAIN ann[d].tiers : ann[d].tiers[t].event \in Event
         /\ ann[d].tier \in 1 .. Len(ann[d].tiers) + 1
         /\ ann[d].trackers \in 0 .. 1
         /\ ~allTiersFailed(ann[d]) =>
               ann[d].url \in DOMAIN ann[d].tiers[ann[d].tier].urls

\* To the trackers of a tier "started", "completed" and "stopped" are sent
\* until they are acknowledged and never again, the last two only after
\* "started", and nothing after "stopped": whatever fails, times out,
\* answers late or completes meanwhile.
EventsInOrder ==
    \A d \in Download :
      LET q == watch[d].req
          done == acked[d][q.tier]
      IN  q.kind # "none" =>
            /\ q.event # "" => q.event \notin done
            /\ "stopped" \notin done
            /\ q.event \in {"completed", "stopped"} => "started" \in done

\* A download that is halted is rid of its watcher: the "stopped" event is
\* sent or given up, and RequestGroup gets its command count back.
HaltEndsAnnounce ==
    \A d \in Download : rt[d].halt ~> ~watch[d].alive

\* A download with a tracker that always answers gets through to it, however
\* its other trackers fail.
ReachesReliable ==
    \A d \in Download :
      (\E t \in DOMAIN Tiers[d] : ToSet(Tiers[d][t]) \cap Reliable # {}) =>
        <>(rt[d].halt \/ \E t \in DOMAIN Tiers[d] : "started" \in acked[d][t])

=============================================================================
