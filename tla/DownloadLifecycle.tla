-------------------------- MODULE DownloadLifecycle --------------------------
(***************************************************************************)
(* What aria2 promises the clients about their downloads, in the terms of  *)
(* aria2.tellStatus: the status a client sees and what clients asked for.  *)
(* It says nothing of queues, commands, slots or wakeups.  One step of the *)
(* system may move several downloads (pauseAll), each along its own life.  *)
(***************************************************************************)
CONSTANT Gid

VARIABLES
    status,   \* "none" before it is created, "gone" when taken off the queue
    asked     \* [pause, remove]: the requests that were acknowledged

vars == <<status, asked>>

Init ==
    \A g \in Gid :
        /\ status[g] \in {"none", "waiting", "paused"}
        /\ ~asked[g].remove
        /\ status[g] = "waiting" => ~asked[g].pause
        /\ status[g] = "paused" => asked[g].pause

Ask(g, what, yes) == asked'[g] = [asked[g] EXCEPT ![what] = yes]
SameStatus(g) == status'[g] = status[g]
SameAsked(g) == asked'[g] = asked[g]

\* A download is created, paused or not.
Create(g) ==
    /\ status[g] = "none"
    /\ \/ status'[g] = "waiting" /\ Ask(g, "pause", FALSE)
       \/ status'[g] = "paused" /\ Ask(g, "pause", TRUE)

\* Only a download that nobody paused is started.
Start(g) == status[g] = "waiting" /\ status'[g] = "active" /\ SameAsked(g)

\* A pause takes effect at once in the queue, later on a running download.
Pause(g) ==
    /\ \/ status[g] = "waiting" /\ status'[g] = "paused"
       \/ status[g] = "active" /\ SameStatus(g) /\ ~asked[g].remove
    /\ Ask(g, "pause", TRUE)

Resume(g) ==
    status[g] = "paused" /\ status'[g] = "waiting" /\ Ask(g, "pause", FALSE)

Remove(g) ==
    \/ status[g] = "active" /\ SameStatus(g) /\ Ask(g, "remove", TRUE)
    \/ status[g] \in {"waiting", "paused"} /\ status'[g] = "gone" /\ SameAsked(g)

\* A running download stops: as it was asked to, and by itself only because
\* it is complete or failed.
Stop(g) ==
    /\ status[g] = "active"
    /\ status'[g] \in IF asked[g].remove THEN {"removed", "complete"}
                      ELSE IF asked[g].pause THEN {"paused"}
                      ELSE {"complete", "error"}
    /\ SameAsked(g)

Next ==
    \A g \in Gid :
        \/ Create(g) \/ Start(g) \/ Pause(g) \/ Resume(g) \/ Remove(g) \/ Stop(g)
        \/ SameStatus(g) /\ SameAsked(g)

Spec == Init /\ [][Next]_vars
=============================================================================
