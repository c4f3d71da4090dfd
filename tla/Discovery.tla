------------------------------ MODULE Discovery ------------------------------
(***************************************************************************)
(* The life of a server process (internal/app) and how agents find it: the *)
(* registry of internal/discovery, one file per process id, and the        *)
(* command "agent discover", which reads the registry, probes every entry  *)
(* over HTTP and removes the ones that do not answer.                      *)
(*                                                                         *)
(* Nothing locks the registry.  Servers are killed with their entry in     *)
(* place, process ids and ports are used again, and a probe gives up after *)
(* half a second.                                                          *)
(***************************************************************************)
EXTENDS Naturals, FiniteSets

CONSTANTS
    Servers,            \* the server processes that are ever started
    Agents,             \* who runs agent discover
    Pids, Urls, Roots,  \* process ids, loopback addresses, content roots
    RootOf,             \* RootOf[s]: the content root that s serves
    Around,             \* the roots that contain the agents' working directory
    AnyRoot,            \* discover without --root
    PidsRecur,          \* whether a process id is given to a second server
    UrlsRecur,          \* whether an address is given to a second server
    ProbesTimeOut       \* whether a server may answer /healthz too late

ASSUME RootAssumption == RootOf \in [Servers -> Roots] /\ AnyRoot \notin Roots
ASSUME WorldAssumption == {PidsRecur, UrlsRecur, ProbesTimeOut} \subseteq BOOLEAN

VARIABLES
    phase,      \* phase[s]: how far run is
    pid, url,   \* pid[s], url[s]: its process id and the address it listens on
    advertised, \* advertised[s]: run has deferred the cleanup of its entry
    busy,       \* busy[s]: handlers are at work
    registry,   \* the registry files, each with the name of its process id
    running,    \* running[a]: agent discover is at work
    want,       \* want[a]: the --root it looks for
    unread,     \* unread[a]: the registry files it has yet to read
    unprobed,   \* unprobed[a]: the entries it has yet to probe
    dead,       \* dead[a]: the entry that did not answer, until it is removed
    live,       \* live[a]: the entries that answered
    answer,     \* answer[a]: the one it prints
    steady,     \* ghost: the servers that could be found ever since it started
    doomed      \* ghost: the entries nobody ever answered for since it started

process == <<phase, pid, url, advertised, busy>>
discover == <<running, want, unread, unprobed, dead, live, answer>>
vars == <<process, registry, discover, steady, doomed>>

Phases == {"new", "listening", "ready", "serving", "closing", "leaving", "exited", "killed"}
Bound == {"listening", "ready", "serving"}          \* the port is taken
Alive == Bound \union {"closing", "leaving"}        \* the process id is taken
Entries == [server : Servers, pid : Pids, url : Urls, root : Roots]

\* Mutant of Entry: the root is registered as it was given, not as it was resolved.
EntryUnresolved(s) == [server |-> s, pid |-> pid[s], url |-> url[s], root |-> AnyRoot]

Entry(s) == [server |-> s, pid |-> pid[s], url |-> url[s], root |-> RootOf[s]]
Without(p) == {e \in registry : e.pid # p}

Reachable(u) == \E s \in Servers : phase[s] \in Bound /\ url[s] = u
Answers(u) == \E s \in Servers : phase[s] = "serving" /\ url[s] = u
Findable(s) == phase[s] = "serving" /\ Entry(s) \in registry

\* The ghosts follow every step.
Watch ==
    /\ steady' = [a \in Agents |-> {s \in steady[a] : Findable(s)'}]
    /\ doomed' = [a \in Agents |-> {e \in doomed[a] : ~Reachable(e.url)'}]

Init ==
    /\ phase = [s \in Servers |-> "new"]
    /\ pid \in [Servers -> Pids] /\ url \in [Servers -> Urls]
    /\ ~PidsRecur => \A s, t \in Servers : pid[s] = pid[t] => s = t
    /\ ~UrlsRecur => \A s, t \in Servers : url[s] = url[t] => s = t
    /\ advertised = [s \in Servers |-> FALSE]
    /\ busy = [s \in Servers |-> FALSE]
    /\ registry = {}
    /\ running = [a \in Agents |-> FALSE]
    /\ want = [a \in Agents |-> AnyRoot]
    /\ unread = [a \in Agents |-> {}]
    /\ unprobed = [a \in Agents |-> {}]
    /\ dead = [a \in Agents |-> {}]
    /\ live = [a \in Agents |-> {}]
    /\ answer = [a \in Agents |-> {}]
    /\ steady = [a \in Agents |-> {}]
    /\ doomed = [a \in Agents |-> {}]

-----------------------------------------------------------------------------
(***************************************************************************)
(* A server process                                                        *)
(***************************************************************************)

Go(s, from, to) == phase[s] \in from /\ phase' = [phase EXCEPT ![s] = to]

\* The process starts and binds its listener; without a free port it ends at once.
Listen(s) ==
    /\ Go(s, {"new"}, "listening")
    /\ \A t \in Servers : /\ phase[t] \in Alive => pid[t] # pid[s]
                          /\ phase[t] \in Bound => url[t] # url[s]
    /\ UNCHANGED <<pid, url, advertised, busy, registry, discover>>
    /\ Watch

\* server.New or a token fails: the deferred Close is all there is to undo.
StartFails(s) ==
    /\ Go(s, {"listening"}, "exited")
    /\ UNCHANGED <<pid, url, advertised, busy, registry, discover>>
    /\ Watch

\* Register replaces whatever file a former holder of the process id left.
Register(s) ==
    /\ Go(s, {"listening"}, "ready")
    /\ registry' = Without(pid[s]) \union {Entry(s)}
    /\ advertised' = [advertised EXCEPT ![s] = TRUE]
    /\ UNCHANGED <<pid, url, busy, discover>>
    /\ Watch

\* Without --review, or when Register fails, the server runs unadvertised.
StayUnadvertised(s) ==
    /\ Go(s, {"listening"}, "ready")
    /\ UNCHANGED <<pid, url, advertised, busy, registry, discover>>
    /\ Watch

Serve(s) ==
    /\ Go(s, {"ready"}, "serving")
    /\ UNCHANGED <<pid, url, advertised, busy, registry, discover>>
    /\ Watch

\* A handler starts; every handler has returned.
Receive(s) ==
    /\ phase[s] = "serving" /\ ~busy[s]
    /\ busy' = [busy EXCEPT ![s] = TRUE]
    /\ UNCHANGED <<phase, pid, url, advertised, registry, discover>>
    /\ Watch

Finish(s) ==
    /\ phase[s] \in Alive /\ busy[s]
    /\ busy' = [busy EXCEPT ![s] = FALSE]
    /\ UNCHANGED <<phase, pid, url, advertised, registry, discover>>
    /\ Watch

\* Serve returns an error: run returns it, whatever the handlers do.
ServeFails(s) ==
    /\ Go(s, {"serving"}, "leaving")
    /\ UNCHANGED <<pid, url, advertised, busy, registry, discover>>
    /\ Watch

\* A signal: Shutdown closes the listener and waits for the handlers.
Cancel(s) ==
    /\ Go(s, {"ready", "serving"}, "closing")
    /\ UNCHANGED <<pid, url, advertised, busy, registry, discover>>
    /\ Watch

Drained(s) ==
    /\ Go(s, {"closing"}, "leaving")
    /\ ~busy[s]
    /\ UNCHANGED <<pid, url, advertised, busy, registry, discover>>
    /\ Watch

\* Mutant of ShutdownTimesOut: Shutdown waits for as long as it takes.
ShutdownWaits(s) ==
    /\ Go(s, {"closing"}, "leaving")
    /\ ~busy[s]
    /\ UNCHANGED <<pid, url, advertised, busy, registry, discover>>
    /\ Watch

\* shutdownTimeout is over and handlers are still at work.
ShutdownTimesOut(s) ==
    /\ Go(s, {"closing"}, "leaving")
    /\ busy[s]
    /\ UNCHANGED <<pid, url, advertised, busy, registry, discover>>
    /\ Watch

\* Mutant of Cleanup: only an orderly shutdown withdraws the entry.
CleanupIfDrained(s) == IF advertised[s] /\ ~busy[s] THEN Without(pid[s]) ELSE registry

\* What run defers: the file of this process id is removed.
Cleanup(s) == IF advertised[s] THEN Without(pid[s]) ELSE registry

\* run returns, and the process ends with whatever its handlers were doing.
Leave(s) ==
    /\ Go(s, {"leaving"}, "exited")
    /\ registry' = Cleanup(s)
    /\ busy' = [busy EXCEPT ![s] = FALSE]
    /\ UNCHANGED <<pid, url, advertised, discover>>
    /\ Watch

Kill(s) ==
    /\ Go(s, Alive, "killed")
    /\ busy' = [busy EXCEPT ![s] = FALSE]
    /\ UNCHANGED <<pid, url, advertised, registry, discover>>
    /\ Watch

-----------------------------------------------------------------------------
(***************************************************************************)
(* agent discover                                                          *)
(***************************************************************************)

\* ReadDir: the names of the files.
StartDiscover(a, root) ==
    /\ ~running[a]
    /\ running' = [running EXCEPT ![a] = TRUE]
    /\ want' = [want EXCEPT ![a] = root]
    /\ unread' = [unread EXCEPT ![a] = {e.pid : e \in registry}]
    /\ unprobed' = [unprobed EXCEPT ![a] = {}]
    /\ live' = [live EXCEPT ![a] = {}]
    /\ answer' = [answer EXCEPT ![a] = {}]
    /\ steady' = [steady EXCEPT ![a] = {s \in Servers : Findable(s)}]
    /\ doomed' = [doomed EXCEPT ![a] = {e \in registry : ~Reachable(e.url)}]
    /\ UNCHANGED <<process, registry, dead>>

\* ReadFile: what the file holds by now; a file that is gone is skipped.
ReadEntry(a, p) ==
    /\ p \in unread[a]
    /\ unread' = [unread EXCEPT ![a] = @ \ {p}]
    /\ unprobed' = [unprobed EXCEPT ![a] = @ \union {e \in registry : e.pid = p}]
    /\ UNCHANGED <<process, registry, running, want, dead, live, answer>>
    /\ Watch

\* The next entry is probed once the list is complete and the last dead one removed.
NextProbe(a, e) ==
    /\ unread[a] = {} /\ dead[a] = {} /\ e \in unprobed[a]
    /\ unprobed' = [unprobed EXCEPT ![a] = @ \ {e}]

ProbeAnswers(a, e) ==
    /\ NextProbe(a, e)
    /\ Answers(e.url)
    /\ live' = [live EXCEPT ![a] = IF want[a] \in {AnyRoot, e.root} THEN @ \union {e} ELSE @]
    /\ UNCHANGED <<process, registry, running, want, unread, dead, answer>>
    /\ Watch

\* Mutant of ProbeFails: entries of other roots are dropped before they are probed.
ProbeFailsOfRoot(a, e) ==
    /\ NextProbe(a, e)
    /\ ProbesTimeOut \/ ~Reachable(e.url)
    /\ dead' = [dead EXCEPT ![a] = IF want[a] \in {AnyRoot, e.root} THEN {e} ELSE {}]
    /\ UNCHANGED <<process, registry, running, want, unread, live, answer>>
    /\ Watch

\* The connection is refused, or the server behind it is too slow.
ProbeFails(a, e) ==
    /\ NextProbe(a, e)
    /\ ProbesTimeOut \/ ~Reachable(e.url)
    /\ dead' = [dead EXCEPT ![a] = {e}]
    /\ UNCHANGED <<process, registry, running, want, unread, live, answer>>
    /\ Watch

\* Mutant of Prune: the entries of the same root go as well.
PruneRoot(a) ==
    /\ \E e \in dead[a] : registry' = {f \in registry : f.root # e.root}
    /\ dead' = [dead EXCEPT ![a] = {}]
    /\ UNCHANGED <<process, running, want, unread, unprobed, live, answer>>
    /\ Watch

\* Remove goes by the process id in the entry, whoever has the file by now.
Prune(a) ==
    /\ \E e \in dead[a] : registry' = Without(e.pid)
    /\ dead' = [dead EXCEPT ![a] = {}]
    /\ UNCHANGED <<process, running, want, unread, unprobed, live, answer>>
    /\ Watch

\* Mutant of Candidates: the first entry around the working directory will do.
CandidatesNearest(a) ==
    LET near == {e \in live[a] : e.root \in Around}
    IN  IF want[a] = AnyRoot /\ near # {} THEN {CHOOSE e \in near : TRUE} ELSE live[a]

\* narrowByWorkingDirectory, which only applies without --root.
Candidates(a) ==
    LET near == {e \in live[a] : e.root \in Around}
    IN  IF want[a] = AnyRoot /\ Cardinality(live[a]) > 1 /\ Cardinality(near) = 1
        THEN near
        ELSE live[a]

\* One candidate is printed; none or several are an error.
Conclude(a) ==
    /\ running[a] /\ unread[a] = {} /\ unprobed[a] = {} /\ dead[a] = {}
    /\ answer' = [answer EXCEPT ![a] = IF Cardinality(Candidates(a)) = 1 THEN Candidates(a) ELSE {}]
    /\ running' = [running EXCEPT ![a] = FALSE]
    /\ UNCHANGED <<process, registry, want, unread, unprobed, dead, live>>
    /\ Watch

-----------------------------------------------------------------------------

Run(s) ==
    \/ Listen(s) \/ StartFails(s) \/ Register(s) \/ StayUnadvertised(s) \/ Serve(s)
    \/ Receive(s) \/ Finish(s) \/ ServeFails(s)
    \/ Cancel(s) \/ Drained(s) \/ ShutdownTimesOut(s) \/ Leave(s)

Discover(a) ==
    \/ \E root \in Roots \union {AnyRoot} : StartDiscover(a, root)
    \/ \E p \in Pids : ReadEntry(a, p)
    \/ \E e \in unprobed[a] : ProbeAnswers(a, e) \/ ProbeFails(a, e)
    \/ Prune(a)
    \/ Conclude(a)

Next ==
    \/ \E s \in Servers : Run(s) \/ Kill(s)
    \/ \E a \in Agents : Discover(a)

\* The timer of Shutdown fires, and a process that returns from run ends.  Handlers
\* need not ever return.
Fairness ==
    \A s \in Servers : WF_vars(Drained(s) \/ ShutdownTimesOut(s)) /\ WF_vars(Leave(s))

Spec == Init /\ [][Next]_vars /\ Fairness

-----------------------------------------------------------------------------
(***************************************************************************)
(* Properties                                                              *)
(***************************************************************************)

\* Every variable has its type.
TypeOK ==
    /\ phase \in [Servers -> Phases]
    /\ pid \in [Servers -> Pids] /\ url \in [Servers -> Urls]
    /\ advertised \in [Servers -> BOOLEAN] /\ busy \in [Servers -> BOOLEAN]
    /\ registry \subseteq Entries
    /\ running \in [Agents -> BOOLEAN]
    /\ want \in [Agents -> Roots \union {AnyRoot}]
    /\ unread \in [Agents -> SUBSET Pids]
    /\ unprobed \in [Agents -> SUBSET Entries]
    /\ dead \in [Agents -> SUBSET Entries]
    /\ live \in [Agents -> SUBSET Entries]
    /\ answer \in [Agents -> SUBSET Entries]
    /\ steady \in [Agents -> SUBSET Servers]
    /\ doomed \in [Agents -> SUBSET Entries]

\* However run ends (signal, timeout of Shutdown, failure of Serve), the process
\* takes its entry along: only a kill leaves one behind (app.run, discovery.Register).
WithdrawnOnExit == \A e \in registry : phase[e.server] # "exited"

\* A finished agent discover has removed every entry that was there when it started
\* and that nobody answered for in the meantime, of whatever root (runAgentDiscover).
DiscoverHeals == \A a \in Agents : ~running[a] => doomed[a] \intersect registry = {}

\* discover never guesses: when it prints a server, any other that could be found all
\* along has another root than --root asked for or, without --root, does not contain
\* the working directory while the printed one does (narrowByWorkingDirectory).
AnswerIsNoGuess ==
    \A a \in Agents : \A e \in answer[a] : \A s \in steady[a] \ {e.server} :
        IF want[a] = AnyRoot
        THEN e.root \in Around /\ RootOf[s] \notin Around
        ELSE RootOf[s] # want[a]

\* The entries that agents remove "were left behind by a server that exited without
\* cleaning up after itself" (runAgentDiscover): a server that can be found stays so
\* for as long as it serves.
ServingStaysListed ==
    [][ \A s \in Servers : Findable(s) /\ phase'[s] = "serving" => Findable(s)' ]_vars

\* A signal ends the process, whatever its handlers do (app.run, shutdownTimeout).
ShutdownEnds == \A s \in Servers : phase[s] = "closing" ~> phase[s] \in {"exited", "killed"}
=============================================================================
