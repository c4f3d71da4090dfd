-------------------------- MODULE Discovery_proofs --------------------------
(***************************************************************************)
(* Theorems about Discovery, for any number of servers, agents, process    *)
(* ids, addresses and roots.                                               *)
(***************************************************************************)
EXTENDS Discovery, FiniteSetTheorems, TLAPS

Stopped == {"closing", "leaving", "exited", "killed"}

\* An entry that the server e.server wrote, which it does once it listens.
OfServer(e) == e = Entry(e.server) /\ phase[e.server] \notin {"new", "listening"}

\* A file in the registry belongs to a server whose run will remove it, or that was killed.
EntriesAreKept ==
    \A e \in registry : OfServer(e) /\ advertised[e.server] /\ phase[e.server] # "exited"

\* What agents have at hand was written by a server, and no server answers for a doomed one.
AgentsKnow ==
    \A a \in Agents :
       /\ \A e \in unprobed[a] \union dead[a] \union doomed[a] : OfServer(e)
       /\ \A e \in doomed[a] : ~Reachable(e.url)

\* A doomed entry still in the registry is on the way to be removed.
DoomedAreSeen ==
    \A a \in Agents : \A e \in doomed[a] \intersect registry :
       running[a] /\ (e.pid \in unread[a] \/ e \in unprobed[a] \union dead[a])

\* Without timeouts only a server that has stopped fails its probe.
DeadHasStopped ==
    ~ProbesTimeOut => \A a \in Agents : \A e \in dead[a] : phase[e.server] \in Stopped

\* The entry that did not answer is removed before the next one is probed.
OneDeadAtATime == \A a \in Agents : \A d, e \in dead[a] : d = e

DistinctPids == ~PidsRecur => \A s, t \in Servers : pid[s] = pid[t] => s = t

IInv ==
    /\ TypeOK
    /\ EntriesAreKept
    /\ AgentsKnow
    /\ DoomedAreSeen
    /\ OneDeadAtATime
    /\ DeadHasStopped
    /\ DistinctPids

-----------------------------------------------------------------------------
(***************************************************************************)
(* Initial states                                                          *)
(***************************************************************************)

LEMMA InitInv == Init => IInv
  <1> SUFFICES ASSUME Init PROVE IInv
    OBVIOUS
  <1>1. TypeOK
    BY DEF Init, TypeOK, Phases
  <1>2. /\ EntriesAreKept /\ AgentsKnow /\ DoomedAreSeen
        /\ OneDeadAtATime /\ DeadHasStopped /\ DistinctPids
    BY DEF Init, EntriesAreKept, AgentsKnow, DoomedAreSeen, OneDeadAtATime, DeadHasStopped,
           DistinctPids
  <1> QED
    BY <1>1, <1>2 DEF IInv

-----------------------------------------------------------------------------
(***************************************************************************)
(* Steps of a server                                                       *)
(***************************************************************************)

\* No server is started twice, and none serves again.
Forward ==
    /\ phase' \in [Servers -> Phases]
    /\ \A s \in Servers :
          /\ phase[s] \notin {"new", "listening"} => phase'[s] \notin {"new", "listening"}
          /\ phase[s] \in Stopped => phase'[s] \in Stopped

LEMMA GoForward ==
    ASSUME TypeOK, NEW s \in Servers, NEW from, NEW to \in Phases, Go(s, from, to),
           \/ to \in Stopped
           \/ to = "listening" /\ phase[s] = "new"
           \/ to \in {"ready", "serving"} /\ phase[s] \notin Stopped
    PROVE  Forward /\ phase'[s] = to /\ \A t \in Servers \ {s} : phase'[t] = phase[t]
  <1>1. phase \in [Servers -> Phases] /\ phase' = [phase EXCEPT ![s] = to]
    BY DEF TypeOK, Go
  <1>2. phase'[s] = to /\ \A t \in Servers \ {s} : phase'[t] = phase[t]
    BY <1>1
  <1>3. phase' \in [Servers -> Phases]
    BY <1>1
  <1>4. Forward
    BY <1>2, <1>3 DEF Forward, Stopped
  <1> QED
    BY <1>2, <1>4

\* What is left to show of a server's step is what it does to the registry.
LEMMA ServerStep ==
    ASSUME IInv, Forward, Watch, UNCHANGED <<pid, url, discover>>,
           advertised' \in [Servers -> BOOLEAN], busy' \in [Servers -> BOOLEAN],
           registry' \subseteq Entries, EntriesAreKept',
           \A e \in registry' \ registry : phase[e.server] = "listening"
    PROVE  IInv'
  <1>1. TypeOK /\ UNCHANGED <<running, want, unread, unprobed, dead, live, answer>>
    BY DEF IInv, discover
  <1>2. \A a \in Agents : doomed'[a] \subseteq doomed[a] /\ steady'[a] \subseteq steady[a]
    BY DEF Watch
  <1>3. \A a \in Agents : \A e \in doomed'[a] : ~Reachable(e.url)'
    BY DEF Watch
  <1>4. TypeOK'
    <2>1. steady' \in [Agents -> SUBSET Servers] /\ doomed' \in [Agents -> SUBSET Entries]
      BY <1>1 DEF Watch, TypeOK
    <2> QED
      BY <1>1, <2>1 DEF TypeOK, Forward
  <1>5. \A e \in Entries : OfServer(e) => OfServer(e)'
    BY DEF OfServer, Entry, Forward, Entries
  <1>6. AgentsKnow'
    <2> SUFFICES ASSUME NEW a \in Agents, NEW e \in unprobed[a] \union dead[a] \union doomed'[a]
                 PROVE  OfServer(e)'
      BY <1>1, <1>3 DEF AgentsKnow
    <2>1. e \in Entries /\ OfServer(e)
      BY <1>1, <1>2 DEF IInv, AgentsKnow, TypeOK
    <2> QED
      BY <1>5, <2>1
  <1>7. DoomedAreSeen'
    <2> SUFFICES ASSUME NEW a \in Agents, NEW e \in doomed'[a] \intersect registry'
                 PROVE  running[a] /\ (e.pid \in unread[a] \/ e \in unprobed[a] \union dead[a])
      BY <1>1 DEF DoomedAreSeen
    <2>1. e \in doomed[a] /\ OfServer(e)
      BY <1>2 DEF IInv, AgentsKnow
    <2>2. e \in registry
      BY <2>1 DEF OfServer
    <2> QED
      BY <2>1, <2>2 DEF IInv, DoomedAreSeen
  <1>8. DeadHasStopped'
    <2> SUFFICES ASSUME ~ProbesTimeOut, NEW a \in Agents, NEW e \in dead[a]
                 PROVE  phase'[e.server] \in Stopped
      BY <1>1 DEF DeadHasStopped
    <2>1. phase[e.server] \in Stopped /\ e \in Entries
      BY <1>1 DEF IInv, DeadHasStopped, TypeOK
    <2> QED
      BY <2>1 DEF Forward, Entries
  <1>9. OneDeadAtATime' /\ DistinctPids'
    BY <1>1 DEF IInv, OneDeadAtATime, DistinctPids
  <1> QED
    BY <1>4, <1>6, <1>7, <1>8, <1>9 DEF IInv

\* A step that leaves the registry alone and does not end run.
LEMMA QuietStep ==
    ASSUME IInv, Forward, Watch, UNCHANGED <<pid, url, advertised, registry, discover>>,
           busy' \in [Servers -> BOOLEAN],
           \A e \in registry : phase'[e.server] # "exited"
    PROVE  IInv'
  <1>1. registry \subseteq Entries /\ advertised \in [Servers -> BOOLEAN]
    BY DEF IInv, TypeOK
  <1>2. EntriesAreKept'
    <2> SUFFICES ASSUME NEW e \in registry
                 PROVE  OfServer(e)' /\ advertised[e.server] /\ phase'[e.server] # "exited"
      BY DEF EntriesAreKept
    <2>1. e \in Entries /\ OfServer(e) /\ advertised[e.server]
      BY <1>1 DEF IInv, EntriesAreKept
    <2> QED
      BY <2>1 DEF OfServer, Entry, Forward, Entries
  <1> QED
    BY <1>1, <1>2, ServerStep

LEMMA RegisterStep == ASSUME IInv, NEW s \in Servers, Register(s) PROVE IInv'
  <1>1. TypeOK /\ phase[s] = "listening" /\ Go(s, {"listening"}, "ready")
    BY DEF IInv, Register, Go
  <1>2. Forward /\ phase'[s] = "ready" /\ \A t \in Servers \ {s} : phase'[t] = phase[t]
    BY <1>1, GoForward DEF Phases, Stopped
  <1>3. Watch /\ UNCHANGED <<pid, url, busy, discover>>
    BY DEF Register
  <1>4. /\ registry' \subseteq registry \union {Entry(s)}
        /\ advertised' = [advertised EXCEPT ![s] = TRUE]
    BY DEF Register, Without
  <1>5. Entry(s) \in Entries
    BY <1>1, RootAssumption DEF Entry, Entries, TypeOK
  <1>6. /\ registry' \subseteq Entries /\ busy' \in [Servers -> BOOLEAN]
        /\ advertised' \in [Servers -> BOOLEAN]
    BY <1>1, <1>3, <1>4, <1>5 DEF TypeOK
  <1>7. EntriesAreKept'
    <2> SUFFICES ASSUME NEW e \in registry'
                 PROVE  OfServer(e)' /\ advertised'[e.server] /\ phase'[e.server] # "exited"
      BY DEF EntriesAreKept
    <2>1. CASE e = Entry(s)
      <3>1. e.server = s
        BY <2>1 DEF Entry
      <3>2. Entry(e.server)' = Entry(s)
        BY <1>3, <3>1 DEF Entry
      <3> QED
        BY <1>1, <1>2, <1>4, <2>1, <3>1, <3>2 DEF OfServer, TypeOK
    <2>2. CASE e \in registry
      <3>1. e \in Entries /\ OfServer(e) /\ advertised[e.server] /\ phase[e.server] # "exited"
        BY <1>1, <2>2 DEF IInv, EntriesAreKept, TypeOK
      <3>2. e.server \in Servers \ {s}
        BY <1>1, <3>1 DEF OfServer, Entries
      <3> QED
        BY <1>1, <1>2, <1>3, <1>4, <3>1, <3>2 DEF OfServer, Entry, TypeOK
    <2> QED
      BY <1>4, <2>1, <2>2
  <1>8. \A e \in registry' \ registry : phase[e.server] = "listening"
    BY <1>1, <1>4 DEF Entry
  <1> QED
    BY <1>2, <1>3, <1>6, <1>7, <1>8, ServerStep

LEMMA LeaveStep == ASSUME IInv, NEW s \in Servers, Leave(s) PROVE IInv'
  <1>1. TypeOK /\ Go(s, {"leaving"}, "exited")
    BY DEF IInv, Leave
  <1>2. Forward /\ phase'[s] = "exited" /\ \A t \in Servers \ {s} : phase'[t] = phase[t]
    BY <1>1, GoForward DEF Phases, Stopped
  <1>3. /\ Watch /\ UNCHANGED <<pid, url, advertised, discover>>
        /\ busy' = [busy EXCEPT ![s] = FALSE] /\ registry' = Cleanup(s)
    BY DEF Leave
  <1>4. registry' \subseteq registry /\ (advertised[s] => \A e \in registry' : e.pid # pid[s])
    BY <1>3 DEF Cleanup, Without
  <1>5. /\ registry' \subseteq Entries /\ busy' \in [Servers -> BOOLEAN]
        /\ advertised' \in [Servers -> BOOLEAN]
    BY <1>1, <1>3, <1>4 DEF TypeOK
  <1>6. EntriesAreKept'
    <2> SUFFICES ASSUME NEW e \in registry'
                 PROVE  OfServer(e)' /\ advertised[e.server] /\ phase'[e.server] # "exited"
      BY <1>3 DEF EntriesAreKept
    <2>1. e \in Entries /\ OfServer(e) /\ advertised[e.server] /\ phase[e.server] # "exited"
      BY <1>4, <1>5 DEF IInv, EntriesAreKept
    <2>2. e.server # s
      BY <1>4, <2>1 DEF OfServer, Entry
    <2>3. e.server \in Servers \ {s}
      BY <2>1, <2>2 DEF Entries
    <2> QED
      BY <1>2, <1>3, <2>1, <2>3 DEF OfServer, Entry
  <1> QED
    BY <1>2, <1>3, <1>4, <1>5, <1>6, ServerStep

LEMMA RunStep == ASSUME IInv, NEW s \in Servers, Run(s) \/ Kill(s) PROVE IInv'
  <1>1. TypeOK
    BY DEF IInv
  <1>2. CASE Register(s) \/ Leave(s)
    BY <1>2, RegisterStep, LeaveStep
  <1>3. CASE Receive(s) \/ Finish(s)
    <2>1. /\ Watch /\ UNCHANGED <<phase, pid, url, advertised, registry, discover>>
          /\ busy' \in [Servers -> BOOLEAN]
      BY <1>1, <1>3 DEF Receive, Finish, TypeOK
    <2>2. Forward
      BY <1>1, <2>1 DEF Forward, TypeOK
    <2>3. \A e \in registry : phase'[e.server] # "exited"
      BY <2>1 DEF IInv, EntriesAreKept
    <2> QED
      BY <2>1, <2>2, <2>3, QuietStep
  <1>4. CASE StartFails(s)
    <2>1. Watch /\ UNCHANGED <<pid, url, advertised, busy, registry, discover>>
      BY <1>4 DEF StartFails
    <2>2. Go(s, {"listening"}, "exited") /\ phase[s] = "listening"
      BY <1>4 DEF StartFails, Go
    <2>3. Forward /\ \A t \in Servers \ {s} : phase'[t] = phase[t]
      BY <1>1, <2>2, GoForward DEF Phases, Stopped
    <2>4. \A e \in registry : e.server \in Servers \ {s} /\ phase[e.server] # "exited"
      BY <1>1, <2>2 DEF IInv, EntriesAreKept, OfServer, TypeOK, Entries
    <2> QED
      BY <1>1, <2>1, <2>3, <2>4, QuietStep DEF TypeOK
  <1>5. CASE \/ Listen(s) \/ StayUnadvertised(s) \/ Serve(s) \/ ServeFails(s)
             \/ Cancel(s) \/ Drained(s) \/ ShutdownTimesOut(s) \/ Kill(s)
    <2>1. Watch /\ UNCHANGED <<pid, url, advertised, registry, discover>>
      BY <1>5 DEF Listen, StayUnadvertised, Serve, ServeFails, Cancel, Drained,
                  ShutdownTimesOut, Kill
    <2>2. busy' \in [Servers -> BOOLEAN]
      BY <1>1, <1>5 DEF Listen, StayUnadvertised, Serve, ServeFails, Cancel, Drained,
                        ShutdownTimesOut, Kill, TypeOK
    <2>3. \E from, to :
             /\ Go(s, from, to) /\ to \in Phases \ {"exited"}
             /\ \/ to \in Stopped
                \/ to = "listening" /\ phase[s] = "new"
                \/ to \in {"ready", "serving"} /\ phase[s] \notin Stopped
      <3>1. CASE Listen(s)
        BY <3>1 DEF Listen, Go, Phases
      <3>2. CASE StayUnadvertised(s)
        BY <3>2 DEF StayUnadvertised, Go, Phases, Stopped
      <3>3. CASE Serve(s)
        BY <3>3 DEF Serve, Go, Phases, Stopped
      <3>4. CASE ServeFails(s) \/ Cancel(s) \/ Drained(s) \/ ShutdownTimesOut(s) \/ Kill(s)
        BY <3>4 DEF ServeFails, Cancel, Drained, ShutdownTimesOut, Kill, Phases, Stopped
      <3> QED
        BY <1>5, <3>1, <3>2, <3>3, <3>4
    <2>4. /\ Forward /\ phase'[s] # "exited"
          /\ \A t \in Servers \ {s} : phase'[t] = phase[t]
      BY <1>1, <2>3, GoForward
    <2>5. \A e \in registry : phase'[e.server] # "exited"
      BY <1>1, <2>4 DEF IInv, EntriesAreKept, TypeOK, Entries
    <2> QED
      BY <2>1, <2>2, <2>4, <2>5, QuietStep
  <1> QED
    BY <1>2, <1>3, <1>4, <1>5 DEF Run

-----------------------------------------------------------------------------
(***************************************************************************)
(* Steps of agent discover                                                 *)
(***************************************************************************)

\* Processes stand still, and so do the ghosts, but for what the registry lost.
LEMMA WatchStandsStill ==
    ASSUME TypeOK, Watch, UNCHANGED process
    PROVE  /\ steady' \in [Agents -> SUBSET Servers] /\ doomed' \in [Agents -> SUBSET Entries]
           /\ \A a \in Agents : doomed'[a] \subseteq doomed[a]
           /\ \A a \in Agents : \A e \in doomed'[a] : ~Reachable(e.url)
  <1>1. UNCHANGED <<phase, url>>
    BY DEF process
  <1> QED
    BY <1>1 DEF Watch, TypeOK, Reachable

\* What is left to show of an agent's step is where the doomed entries have gone.
LEMMA AgentStep ==
    ASSUME IInv, TypeOK', UNCHANGED process, registry' \subseteq registry,
           DoomedAreSeen', OneDeadAtATime',
           \A a \in Agents : \A e \in unprobed'[a] \union dead'[a] \union doomed'[a] :
              e \in registry \union unprobed[a] \union dead[a] \union doomed[a],
           \A a \in Agents : \A e \in doomed'[a] : ~Reachable(e.url),
           ~ProbesTimeOut => \A a \in Agents : \A e \in dead'[a] : phase[e.server] \in Stopped
    PROVE  IInv'
  <1>1. UNCHANGED <<phase, pid, url, advertised>>
    BY DEF process
  <1>2. \A e : OfServer(e)' <=> OfServer(e)
    BY <1>1 DEF OfServer, Entry
  <1>3. EntriesAreKept'
    BY <1>1, <1>2 DEF IInv, EntriesAreKept
  <1>4. AgentsKnow'
    <2>1. \A a \in Agents : \A e \in unprobed'[a] \union dead'[a] \union doomed'[a] : OfServer(e)
      BY DEF IInv, AgentsKnow, EntriesAreKept
    <2> QED
      BY <1>1, <1>2, <2>1 DEF AgentsKnow, Reachable
  <1>5. DeadHasStopped' /\ DistinctPids'
    BY <1>1 DEF IInv, DeadHasStopped, DistinctPids
  <1> QED
    BY <1>3, <1>4, <1>5 DEF IInv

LEMMA StartStep ==
    ASSUME IInv, NEW a \in Agents, NEW root \in Roots \union {AnyRoot}, StartDiscover(a, root)
    PROVE  IInv'
  <1>1. TypeOK /\ UNCHANGED <<process, registry, dead>>
    BY DEF IInv, StartDiscover
  <1>2. UNCHANGED <<phase, pid, url, advertised, busy>>
    BY <1>1 DEF process
  <1>3. registry \subseteq Entries /\ \A e \in registry : e.pid \in Pids
    BY <1>1 DEF TypeOK, Entries
  <1>4. TypeOK'
    BY <1>1, <1>2, <1>3 DEF StartDiscover, TypeOK
  <1>5. /\ running'[a] /\ unread'[a] = {e.pid : e \in registry}
        /\ unprobed'[a] = {} /\ doomed'[a] = {e \in registry : ~Reachable(e.url)}
    BY <1>1 DEF StartDiscover, TypeOK
  <1>6. \A b \in Agents \ {a} : /\ running'[b] = running[b] /\ unread'[b] = unread[b]
                                /\ unprobed'[b] = unprobed[b] /\ doomed'[b] = doomed[b]
    BY <1>1 DEF StartDiscover, TypeOK
  <1>7. DoomedAreSeen'
    <2> SUFFICES ASSUME NEW b \in Agents, NEW e \in doomed'[b] \intersect registry
                 PROVE  running'[b] /\ (e.pid \in unread'[b] \/ e \in unprobed'[b] \union dead[b])
      BY <1>1 DEF DoomedAreSeen
    <2>1. CASE b = a
      BY <1>5, <2>1
    <2>2. CASE b # a
      BY <1>6, <2>2 DEF IInv, DoomedAreSeen
    <2> QED
      BY <2>1, <2>2
  <1>8. \A b \in Agents : \A e \in unprobed'[b] \union dead'[b] \union doomed'[b] :
           e \in registry \union unprobed[b] \union dead[b] \union doomed[b]
    BY <1>1, <1>5, <1>6
  <1>9. \A b \in Agents : \A e \in doomed'[b] : ~Reachable(e.url)
    BY <1>5, <1>6 DEF IInv, AgentsKnow
  <1>10. ~ProbesTimeOut => \A b \in Agents : \A e \in dead'[b] : phase[e.server] \in Stopped
    BY <1>1 DEF IInv, DeadHasStopped
  <1>11. OneDeadAtATime'
    BY <1>1 DEF IInv, OneDeadAtATime
  <1> QED
    BY <1>1, <1>4, <1>7, <1>8, <1>9, <1>10, <1>11, AgentStep

LEMMA ReadStep ==
    ASSUME IInv, NEW a \in Agents, NEW p \in Pids, ReadEntry(a, p)
    PROVE  IInv'
  <1>1. TypeOK /\ Watch /\ UNCHANGED <<process, registry, running, want, dead, live, answer>>
    BY DEF IInv, ReadEntry
  <1>2. UNCHANGED <<phase, pid, url, advertised, busy>>
    BY <1>1 DEF process
  <1>3. /\ steady' \in [Agents -> SUBSET Servers] /\ doomed' \in [Agents -> SUBSET Entries]
        /\ \A b \in Agents : doomed'[b] \subseteq doomed[b]
        /\ \A b \in Agents : \A e \in doomed'[b] : ~Reachable(e.url)
    BY <1>1, WatchStandsStill
  <1>4. TypeOK'
    BY <1>1, <1>2, <1>3 DEF ReadEntry, TypeOK
  <1>5. /\ unread'[a] = unread[a] \ {p}
        /\ unprobed'[a] = unprobed[a] \union {e \in registry : e.pid = p}
        /\ \A b \in Agents \ {a} : unread'[b] = unread[b] /\ unprobed'[b] = unprobed[b]
    BY <1>1 DEF ReadEntry, TypeOK
  <1>6. DoomedAreSeen'
    <2> SUFFICES ASSUME NEW b \in Agents, NEW e \in doomed'[b] \intersect registry
                 PROVE  running[b] /\ (e.pid \in unread'[b] \/ e \in unprobed'[b] \union dead[b])
      BY <1>1 DEF DoomedAreSeen
    <2>1. running[b] /\ (e.pid \in unread[b] \/ e \in unprobed[b] \union dead[b])
      BY <1>3 DEF IInv, DoomedAreSeen
    <2> QED
      BY <1>5, <2>1
  <1>7. \A b \in Agents : \A e \in unprobed'[b] \union dead'[b] \union doomed'[b] :
           e \in registry \union unprobed[b] \union dead[b] \union doomed[b]
    BY <1>1, <1>3, <1>5
  <1>8. ~ProbesTimeOut => \A b \in Agents : \A e \in dead'[b] : phase[e.server] \in Stopped
    BY <1>1 DEF IInv, DeadHasStopped
  <1>9. OneDeadAtATime'
    BY <1>1 DEF IInv, OneDeadAtATime
  <1> QED
    BY <1>1, <1>3, <1>4, <1>6, <1>7, <1>8, <1>9, AgentStep

LEMMA ProbeStep ==
    ASSUME IInv, NEW a \in Agents, NEW e \in unprobed[a], ProbeAnswers(a, e) \/ ProbeFails(a, e)
    PROVE  IInv'
  <1>1. TypeOK /\ Watch /\ UNCHANGED <<process, registry, running, want, unread, answer>>
    BY DEF IInv, ProbeAnswers, ProbeFails
  <1>2. UNCHANGED <<phase, pid, url, advertised, busy>>
    BY <1>1 DEF process
  <1>3. /\ steady' \in [Agents -> SUBSET Servers] /\ doomed' \in [Agents -> SUBSET Entries]
        /\ \A b \in Agents : doomed'[b] \subseteq doomed[b]
        /\ \A b \in Agents : \A d \in doomed'[b] : ~Reachable(d.url)
    BY <1>1, WatchStandsStill
  <1>4. e \in Entries /\ OfServer(e)
    BY <1>1 DEF IInv, AgentsKnow, TypeOK
  <1>5. /\ unprobed' = [unprobed EXCEPT ![a] = @ \ {e}]
        /\ unprobed'[a] = unprobed[a] \ {e}
        /\ \A b \in Agents \ {a} : unprobed'[b] = unprobed[b]
    BY <1>1 DEF ProbeAnswers, ProbeFails, NextProbe, TypeOK
  <1>6. /\ dead' \in [Agents -> SUBSET Entries] /\ live' \in [Agents -> SUBSET Entries]
        /\ \A b \in Agents \ {a} : dead'[b] = dead[b]
        /\ \/ dead'[a] = dead[a] /\ Answers(e.url)
           \/ dead[a] = {} /\ dead'[a] = {e} /\ (ProbesTimeOut \/ ~Reachable(e.url))
    BY <1>1, <1>4 DEF ProbeAnswers, ProbeFails, NextProbe, TypeOK
  <1>7. TypeOK'
    BY <1>1, <1>2, <1>3, <1>5, <1>6 DEF TypeOK
  <1>8. DoomedAreSeen'
    <2> SUFFICES ASSUME NEW b \in Agents, NEW d \in doomed'[b] \intersect registry
                 PROVE  running[b] /\ (d.pid \in unread[b] \/ d \in unprobed'[b] \union dead'[b])
      BY <1>1 DEF DoomedAreSeen
    <2>1. running[b] /\ (d.pid \in unread[b] \/ d \in unprobed[b] \union dead[b])
      BY <1>3 DEF IInv, DoomedAreSeen
    <2>2. ~Answers(d.url)
      BY <1>3 DEF Answers, Reachable, Bound
    <2> QED
      BY <1>5, <1>6, <2>1, <2>2
  <1>9. \A b \in Agents : \A d \in unprobed'[b] \union dead'[b] \union doomed'[b] :
           d \in registry \union unprobed[b] \union dead[b] \union doomed[b]
    BY <1>3, <1>5, <1>6
  <1>10. ~Reachable(e.url) => phase[e.server] \in Stopped
    BY <1>1, <1>4 DEF Reachable, Bound, Stopped, Phases, OfServer, Entry, Entries, TypeOK
  <1>11. ~ProbesTimeOut => \A b \in Agents : \A d \in dead'[b] : phase[d.server] \in Stopped
    BY <1>6, <1>10 DEF IInv, DeadHasStopped
  <1>12. OneDeadAtATime'
    BY <1>6 DEF IInv, OneDeadAtATime
  <1> QED
    BY <1>1, <1>3, <1>7, <1>8, <1>9, <1>11, <1>12, AgentStep

LEMMA PruneStep == ASSUME IInv, NEW a \in Agents, Prune(a) PROVE IInv'
  <1>1. TypeOK /\ Watch /\ UNCHANGED <<process, running, want, unread, unprobed, live, answer>>
    BY DEF IInv, Prune
  <1>2. UNCHANGED <<phase, pid, url, advertised, busy>>
    BY <1>1 DEF process
  <1>3. /\ steady' \in [Agents -> SUBSET Servers] /\ doomed' \in [Agents -> SUBSET Entries]
        /\ \A b \in Agents : doomed'[b] \subseteq doomed[b]
        /\ \A b \in Agents : \A d \in doomed'[b] : ~Reachable(d.url)
    BY <1>1, WatchStandsStill
  <1>4. PICK e \in dead[a] : registry' = Without(e.pid)
    BY DEF Prune
  <1>5. registry' \subseteq registry /\ e \notin registry'
    BY <1>4 DEF Without
  <1>6. dead'[a] = {} /\ \A b \in Agents \ {a} : dead'[b] = dead[b]
    BY <1>1 DEF Prune, TypeOK
  <1>7. TypeOK'
    BY <1>1, <1>2, <1>3, <1>5 DEF Prune, TypeOK
  <1>8. DoomedAreSeen'
    <2> SUFFICES ASSUME NEW b \in Agents, NEW d \in doomed'[b] \intersect registry'
                 PROVE  running[b] /\ (d.pid \in unread[b] \/ d \in unprobed[b] \union dead'[b])
      BY <1>1 DEF DoomedAreSeen
    <2>1. running[b] /\ (d.pid \in unread[b] \/ d \in unprobed[b] \union dead[b])
      BY <1>3, <1>5 DEF IInv, DoomedAreSeen
    <2>2. b = a => d \notin dead[b]
      BY <1>4, <1>5 DEF IInv, OneDeadAtATime
    <2> QED
      BY <1>6, <2>1, <2>2
  <1>9. \A b \in Agents : \A d \in unprobed'[b] \union dead'[b] \union doomed'[b] :
           d \in registry \union unprobed[b] \union dead[b] \union doomed[b]
    BY <1>1, <1>3, <1>6
  <1>10. ~ProbesTimeOut => \A b \in Agents : \A d \in dead'[b] : phase[d.server] \in Stopped
    BY <1>6 DEF IInv, DeadHasStopped
  <1>11. OneDeadAtATime'
    BY <1>6 DEF IInv, OneDeadAtATime
  <1> QED
    BY <1>1, <1>3, <1>5, <1>7, <1>8, <1>9, <1>10, <1>11, AgentStep

LEMMA ConcludeStep == ASSUME IInv, NEW a \in Agents, Conclude(a) PROVE IInv'
  <1>1. TypeOK /\ Watch /\ UNCHANGED <<process, registry, want, unread, unprobed, dead, live>>
    BY DEF IInv, Conclude
  <1>2. UNCHANGED <<phase, pid, url, advertised, busy>>
    BY <1>1 DEF process
  <1>3. /\ steady' \in [Agents -> SUBSET Servers] /\ doomed' \in [Agents -> SUBSET Entries]
        /\ \A b \in Agents : doomed'[b] \subseteq doomed[b]
        /\ \A b \in Agents : \A d \in doomed'[b] : ~Reachable(d.url)
    BY <1>1, WatchStandsStill
  <1>4. Candidates(a) \subseteq live[a]
    BY DEF Candidates
  <1>5. /\ running' \in [Agents -> BOOLEAN] /\ answer' \in [Agents -> SUBSET Entries]
        /\ \A b \in Agents \ {a} : running'[b] = running[b]
    BY <1>1, <1>4 DEF Conclude, TypeOK
  <1>6. TypeOK'
    BY <1>1, <1>2, <1>3, <1>5 DEF TypeOK
  <1>7. unread[a] = {} /\ unprobed[a] = {} /\ dead[a] = {}
    BY DEF Conclude
  <1>8. DoomedAreSeen'
    <2> SUFFICES ASSUME NEW b \in Agents, NEW d \in doomed'[b] \intersect registry
                 PROVE  running'[b] /\ (d.pid \in unread[b] \/ d \in unprobed[b] \union dead[b])
      BY <1>1 DEF DoomedAreSeen
    <2>1. running[b] /\ (d.pid \in unread[b] \/ d \in unprobed[b] \union dead[b])
      BY <1>3 DEF IInv, DoomedAreSeen
    <2> QED
      BY <1>5, <1>7, <2>1
  <1>9. \A b \in Agents : \A d \in unprobed'[b] \union dead'[b] \union doomed'[b] :
           d \in registry \union unprobed[b] \union dead[b] \union doomed[b]
    BY <1>1, <1>3
  <1>10. ~ProbesTimeOut => \A b \in Agents : \A d \in dead'[b] : phase[d.server] \in Stopped
    BY <1>1 DEF IInv, DeadHasStopped
  <1>11. OneDeadAtATime'
    BY <1>1 DEF IInv, OneDeadAtATime
  <1> QED
    BY <1>1, <1>3, <1>6, <1>8, <1>9, <1>10, <1>11, AgentStep

LEMMA StutterStep == ASSUME IInv, UNCHANGED vars PROVE IInv'
  BY DEF vars, process, discover, IInv, TypeOK, EntriesAreKept, AgentsKnow, DoomedAreSeen,
         OneDeadAtATime, DeadHasStopped, DistinctPids, OfServer, Entry, Reachable

LEMMA StepInv == IInv /\ [Next]_vars => IInv'
  <1> SUFFICES ASSUME IInv, [Next]_vars PROVE IInv'
    OBVIOUS
  <1>1. ASSUME NEW s \in Servers, Run(s) \/ Kill(s) PROVE IInv'
    BY <1>1, RunStep
  <1>2. ASSUME NEW a \in Agents, Discover(a) PROVE IInv'
    BY <1>2, StartStep, ReadStep, ProbeStep, PruneStep, ConcludeStep DEF Discover
  <1>3. CASE UNCHANGED vars
    BY <1>3, StutterStep
  <1> QED
    BY <1>1, <1>2, <1>3 DEF Next

LEMMA Invariant == Spec => []IInv
  BY InitInv, StepInv, PTL DEF Spec

-----------------------------------------------------------------------------
(***************************************************************************)
(* Theorems                                                                *)
(***************************************************************************)

\* Every variable of the registry, the servers and the agents keeps its type.
THEOREM TypeCorrect == Spec => []TypeOK
  <1>1. IInv => TypeOK
    BY DEF IInv
  <1> QED
    BY <1>1, Invariant, PTL

\* However run ends, the process takes its registry entry along (app.run).
THEOREM RunWithdraws == Spec => []WithdrawnOnExit
  <1>1. IInv => WithdrawnOnExit
    BY DEF IInv, EntriesAreKept, WithdrawnOnExit
  <1> QED
    BY <1>1, Invariant, PTL

\* A finished agent discover has removed every entry that nobody answered for since it
\* started, whatever servers and other agents did meanwhile (runAgentDiscover).
THEOREM DiscoverPrunes == Spec => []DiscoverHeals
  <1>1. IInv => DiscoverHeals
    BY DEF IInv, DoomedAreSeen, DiscoverHeals
  <1> QED
    BY <1>1, Invariant, PTL

\* One step keeps the entry of a server that goes on serving, if probes are answered
\* in time and process ids are not used again.
LEMMA ServingStep ==
    ASSUME IInv, ~PidsRecur, ~ProbesTimeOut, [Next]_vars,
           NEW s \in Servers, Findable(s), phase'[s] = "serving"
    PROVE  Findable(s)'
  <1>1. TypeOK /\ DistinctPids /\ Entry(s) \in registry /\ phase[s] = "serving"
    BY DEF IInv, Findable
  <1>2. UNCHANGED <<pid, url>>
    BY DEF Next, Run, Discover, Listen, StartFails, Register, StayUnadvertised, Serve, Receive,
           Finish, ServeFails, Cancel, Drained, ShutdownTimesOut, Leave, Kill, StartDiscover,
           ReadEntry, ProbeAnswers, ProbeFails, Prune, Conclude, process, vars
  <1>3. Entry(s)' = Entry(s) /\ Entry(s).pid = pid[s]
    BY <1>2 DEF Entry
  <1>4. Entry(s) \in registry'
    <2>1. ASSUME NEW t \in Servers, Register(t) \/ Leave(t)
          PROVE  Entry(s) \in registry'
      <3>1. phase[t] \in {"listening", "leaving"} /\ t # s
        BY <1>1, <2>1 DEF Register, Leave, Go
      <3>2. pid[t] # pid[s]
        BY <1>1, <3>1 DEF DistinctPids
      <3>3. Entry(s) \in Without(pid[t])
        BY <1>1, <1>3, <3>2 DEF Without
      <3> QED
        BY <1>1, <2>1, <3>3 DEF Register, Leave, Cleanup
    <2>2. ASSUME NEW a \in Agents, Prune(a)
          PROVE  Entry(s) \in registry'
      <3>1. PICK e \in dead[a] : registry' = Without(e.pid)
        BY <2>2 DEF Prune
      <3>2. e \in Entries /\ e = Entry(e.server) /\ phase[e.server] \in Stopped
        BY <1>1, <3>1 DEF IInv, DeadHasStopped, AgentsKnow, OfServer, TypeOK
      <3>3. e.server \in Servers /\ e.server # s
        BY <1>1, <3>2 DEF Stopped, Entries
      <3>4. e.pid = pid[e.server]
        BY <3>2 DEF Entry
      <3>5. e.pid # pid[s]
        BY <1>1, <3>3, <3>4 DEF DistinctPids
      <3> QED
        BY <1>1, <1>3, <3>1, <3>5 DEF Without
    <2>3. \/ \E t \in Servers : Register(t) \/ Leave(t)
          \/ \E a \in Agents : Prune(a)
          \/ UNCHANGED registry
      BY DEF Next, Run, Discover, Listen, StartFails, StayUnadvertised, Serve, Receive, Finish,
             ServeFails, Cancel, Drained, ShutdownTimesOut, Kill, StartDiscover, ReadEntry,
             ProbeAnswers, ProbeFails, Conclude, vars
    <2> QED
      BY <1>1, <2>1, <2>2, <2>3
  <1> QED
    BY <1>3, <1>4 DEF Findable

\* A server that can be found can be found for as long as it serves, if probes are
\* answered in time and process ids are not used again (runAgentDiscover).
THEOREM ServersStayListed ==
    ASSUME ~PidsRecur, ~ProbesTimeOut
    PROVE  Spec => ServingStaysListed
  <1>1. ASSUME IInv, [Next]_vars
        PROVE  \A s \in Servers : Findable(s) /\ phase'[s] = "serving" => Findable(s)'
    BY <1>1, ServingStep
  <1>2. IInv /\ [Next]_vars
          => [ \A s \in Servers : Findable(s) /\ phase'[s] = "serving" => Findable(s)' ]_vars
    BY <1>1
  <1> QED
    BY <1>2, Invariant, PTL DEF Spec, ServingStaysListed
-----------------------------------------------------------------------------
(***************************************************************************)
(* What agent discover prints                                              *)
(***************************************************************************)

\* A server that could be found all along is still to be read, to be probed or to be
\* removed, or it answered, or it serves another root than the agent wants.
Sought(a, s) ==
    \/ pid[s] \in unread[a]
    \/ Entry(s) \in unprobed[a] \union dead[a] \union live[a]
    \/ want[a] \notin {AnyRoot, RootOf[s]}

NoGuess(a) ==
    \A e \in answer[a] : \A s \in steady[a] \ {e.server} :
        IF want[a] = AnyRoot
        THEN e.root \in Around /\ RootOf[s] \notin Around
        ELSE RootOf[s] # want[a]

Search(a) ==
    /\ IsFiniteSet(live[a])
    /\ \A s \in steady[a] : Findable(s)
    /\ running[a] => \A s \in steady[a] : Sought(a, s)
    /\ NoGuess(a)

Searches == \A a \in Agents : Search(a)

LEMMA SearchesInitially == Init => Searches
  <1> SUFFICES ASSUME Init, NEW a \in Agents PROVE Search(a)
    BY DEF Searches
  <1>1. live[a] = {} /\ steady[a] = {} /\ ~running[a] /\ answer[a] = {}
    BY DEF Init
  <1>2. IsFiniteSet({})
    BY FS_EmptySet
  <1> QED
    BY <1>1, <1>2 DEF Search, NoGuess

\* A step that does nothing for an agent can only make servers harder to find.
LEMMA SearchStands ==
    ASSUME NEW a \in Agents, Search(a), UNCHANGED <<pid, url>>,
           running'[a] = running[a], want'[a] = want[a], unread'[a] = unread[a],
           unprobed'[a] = unprobed[a], dead'[a] = dead[a], live'[a] = live[a],
           answer'[a] = answer[a],
           steady'[a] \subseteq steady[a], \A s \in steady'[a] : Findable(s)'
    PROVE  Search(a)'
  <1>1. \A s \in Servers : Entry(s)' = Entry(s)
    BY DEF Entry
  <1>2. ASSUME running[a], NEW s \in steady'[a] PROVE Sought(a, s)'
    BY <1>2 DEF Search, Sought, Entry
  <1>3. NoGuess(a)'
    BY DEF Search, NoGuess
  <1> QED
    BY <1>2, <1>3 DEF Search

\* What the ghost keeps can still be found.
LEMMA SteadyAreFindable ==
    ASSUME Watch, NEW a \in Agents
    PROVE  steady'[a] \subseteq steady[a] /\ \A s \in steady'[a] : Findable(s)'
  BY DEF Watch

LEMMA SearchServer ==
    ASSUME Searches, NEW t \in Servers, Run(t) \/ Kill(t)
    PROVE  Searches'
  <1>1. Watch /\ UNCHANGED <<pid, url, discover>>
    BY DEF Run, Listen, StartFails, Register, StayUnadvertised, Serve, Receive,
           Finish, ServeFails, Cancel, Drained, ShutdownTimesOut, Leave, Kill
  <1>2. UNCHANGED <<running, want, unread, unprobed, dead, live, answer>>
    BY <1>1 DEF discover
  <1> SUFFICES ASSUME NEW a \in Agents PROVE Search(a)'
    BY DEF Searches
  <1> QED
    BY <1>1, <1>2, SteadyAreFindable, SearchStands DEF Searches

LEMMA SearchStart ==
    ASSUME TypeOK, Searches, NEW a \in Agents, NEW root \in Roots \union {AnyRoot},
           StartDiscover(a, root)
    PROVE  Searches'
  <1>1. UNCHANGED <<phase, pid, url, registry, dead>>
    BY DEF StartDiscover, process
  <1>2. \A s : Findable(s)' <=> Findable(s)
    BY <1>1 DEF Findable, Entry
  <1>3. /\ unread'[a] = {e.pid : e \in registry} /\ live'[a] = {} /\ answer'[a] = {}
        /\ steady'[a] = {s \in Servers : Findable(s)}
    BY DEF StartDiscover, TypeOK
  <1>4. Search(a)'
    <2>1. IsFiniteSet({})
      BY FS_EmptySet
    <2>2. ASSUME NEW s \in steady'[a] PROVE Findable(s)' /\ Sought(a, s)'
      <3>1. Findable(s) /\ Entry(s) \in registry /\ Entry(s).pid = pid[s]
        BY <1>3, <2>2 DEF Findable, Entry
      <3>2. pid'[s] \in unread'[a]
        BY <1>1, <1>3, <3>1
      <3> QED
        BY <1>2, <3>1, <3>2 DEF Sought
    <2> QED
      BY <1>3, <2>1, <2>2 DEF Search, NoGuess
  <1>5. ASSUME NEW b \in Agents, b # a PROVE Search(b)'
    <2>1. /\ running'[b] = running[b] /\ want'[b] = want[b] /\ unread'[b] = unread[b]
          /\ unprobed'[b] = unprobed[b] /\ live'[b] = live[b] /\ answer'[b] = answer[b]
          /\ steady'[b] = steady[b]
      BY <1>5 DEF StartDiscover, TypeOK
    <2>2. Search(b) /\ \A s \in steady'[b] : Findable(s)'
      BY <1>2, <2>1 DEF Searches, Search
    <2> QED
      BY <1>1, <2>1, <2>2, SearchStands
  <1> QED
    BY <1>4, <1>5 DEF Searches

\* While an agent works on its list the processes and the other agents stand still.
LEMMA SearchElsewhere ==
    ASSUME TypeOK, Searches, NEW a \in Agents, Watch, UNCHANGED process,
           NEW b \in Agents, b # a,
           running'[b] = running[b], UNCHANGED want, unread'[b] = unread[b],
           unprobed'[b] = unprobed[b], dead'[b] = dead[b], live'[b] = live[b],
           answer'[b] = answer[b]
    PROVE  Search(b)'
  <1>1. UNCHANGED <<pid, url>> /\ Search(b)
    BY DEF process, Searches
  <1> QED
    BY <1>1, SteadyAreFindable, SearchStands

LEMMA SearchRead ==
    ASSUME TypeOK, Searches, NEW a \in Agents, NEW p \in Pids, ReadEntry(a, p)
    PROVE  Searches'
  <1>1. Watch /\ UNCHANGED <<process, registry, running, want, dead, live, answer>>
    BY DEF ReadEntry
  <1>2. UNCHANGED <<phase, pid, url>>
    BY <1>1 DEF process
  <1>3. /\ unread'[a] = unread[a] \ {p}
        /\ unprobed'[a] = unprobed[a] \union {e \in registry : e.pid = p}
        /\ \A b \in Agents \ {a} : unread'[b] = unread[b] /\ unprobed'[b] = unprobed[b]
    BY DEF ReadEntry, TypeOK
  <1>4. steady'[a] \subseteq steady[a] /\ \A s \in steady'[a] : Findable(s)'
    BY <1>1, SteadyAreFindable
  <1>5. ASSUME running[a], NEW s \in steady'[a] PROVE Sought(a, s)'
    <2>1. Findable(s) /\ Sought(a, s)
      BY <1>4, <1>5 DEF Searches, Search
    <2>2. Entry(s) \in registry /\ Entry(s).pid = pid[s] /\ Entry(s)' = Entry(s)
      BY <1>2, <2>1 DEF Findable, Entry
    <2> QED
      BY <1>1, <1>2, <1>3, <2>1, <2>2 DEF Sought
  <1>6. Search(a)'
    BY <1>1, <1>4, <1>5 DEF Searches, Search, NoGuess
  <1>7. \A b \in Agents \ {a} : Search(b)'
    BY <1>1, <1>3, SearchElsewhere
  <1> QED
    BY <1>6, <1>7 DEF Searches

LEMMA SearchProbe ==
    ASSUME TypeOK, Searches, NEW a \in Agents, NEW e \in unprobed[a],
           ProbeAnswers(a, e) \/ ProbeFails(a, e)
    PROVE  Searches'
  <1>1. Watch /\ UNCHANGED <<process, registry, running, want, unread, answer>>
    BY DEF ProbeAnswers, ProbeFails
  <1>2. UNCHANGED <<phase, pid, url>>
    BY <1>1 DEF process
  <1>3. /\ unprobed'[a] = unprobed[a] \ {e} /\ dead[a] = {}
        /\ \/ dead'[a] = dead[a]
              /\ live'[a] = IF want[a] \in {AnyRoot, e.root} THEN live[a] \union {e} ELSE live[a]
           \/ dead'[a] = {e} /\ live'[a] = live[a]
    BY DEF ProbeAnswers, ProbeFails, NextProbe, TypeOK
  <1>4. \A b \in Agents \ {a} :
           unprobed'[b] = unprobed[b] /\ dead'[b] = dead[b] /\ live'[b] = live[b]
    BY DEF ProbeAnswers, ProbeFails, NextProbe, TypeOK
  <1>5. steady'[a] \subseteq steady[a] /\ \A s \in steady'[a] : Findable(s)'
    BY <1>1, SteadyAreFindable
  <1>6. IsFiniteSet(live'[a])
    <2>1. IsFiniteSet(live[a])
      BY DEF Searches, Search
    <2> QED
      BY <1>3, <2>1, FS_AddElement
  <1>7. ASSUME running[a], NEW s \in steady'[a] PROVE Sought(a, s)'
    <2>1. Sought(a, s)
      BY <1>5, <1>7 DEF Searches, Search
    <2>2. Entry(s)' = Entry(s) /\ Entry(s).root = RootOf[s]
      BY <1>2 DEF Entry
    <2>3. CASE Entry(s) = e
      BY <1>1, <1>2, <1>3, <2>2, <2>3 DEF Sought
    <2>4. CASE Entry(s) # e
      BY <1>1, <1>2, <1>3, <2>1, <2>2, <2>4 DEF Sought
    <2> QED
      BY <2>3, <2>4
  <1>8. NoGuess(a)'
    BY <1>1, <1>5 DEF Searches, Search, NoGuess
  <1>9. Search(a)'
    BY <1>1, <1>5, <1>6, <1>7, <1>8 DEF Search
  <1>10. \A b \in Agents \ {a} : Search(b)'
    BY <1>1, <1>4, SearchElsewhere
  <1> QED
    BY <1>9, <1>10 DEF Searches

\* Whoever is removed cannot be found any longer, so that the agent owes it nothing.
LEMMA SearchPrune ==
    ASSUME TypeOK, OneDeadAtATime, Searches, NEW a \in Agents, Prune(a)
    PROVE  Searches'
  <1>1. Watch /\ UNCHANGED <<process, running, want, unread, unprobed, live, answer>>
    BY DEF Prune
  <1>2. UNCHANGED <<phase, pid, url>>
    BY <1>1 DEF process
  <1>3. dead'[a] = {} /\ \A b \in Agents \ {a} : dead'[b] = dead[b]
    BY DEF Prune, TypeOK
  <1>4. PICK e \in dead[a] : registry' = Without(e.pid)
    BY DEF Prune
  <1>5. dead[a] = {e} /\ e \notin registry'
    BY <1>4 DEF OneDeadAtATime, Without
  <1>6. steady'[a] \subseteq steady[a] /\ \A s \in steady'[a] : Findable(s)'
    BY <1>1, SteadyAreFindable
  <1>7. ASSUME running[a], NEW s \in steady'[a] PROVE Sought(a, s)'
    <2>1. Sought(a, s)
      BY <1>6, <1>7 DEF Searches, Search
    <2>2. Entry(s)' = Entry(s) /\ Entry(s) \in registry'
      BY <1>2, <1>6 DEF Findable, Entry
    <2> QED
      BY <1>1, <1>2, <1>5, <2>1, <2>2 DEF Sought
  <1>8. NoGuess(a)'
    BY <1>1, <1>6 DEF Searches, Search, NoGuess
  <1>9. Search(a)'
    BY <1>1, <1>6, <1>7, <1>8 DEF Searches, Search
  <1>10. \A b \in Agents \ {a} : Search(b)'
    BY <1>1, <1>3, SearchElsewhere
  <1> QED
    BY <1>9, <1>10 DEF Searches

\* A steady server the agent may have meant answered, so that a single candidate is
\* that server, or the only one around the working directory.
LEMMA SearchConclude ==
    ASSUME TypeOK, Searches, NEW a \in Agents, Conclude(a)
    PROVE  Searches'
  <1>1. Watch /\ UNCHANGED <<process, registry, want, unread, unprobed, dead, live>>
    BY DEF Conclude
  <1>2. UNCHANGED <<phase, pid, url>>
    BY <1>1 DEF process
  <1>3. /\ running[a] /\ unread[a] = {} /\ unprobed[a] = {} /\ dead[a] = {} /\ ~running'[a]
        /\ answer'[a] = IF Cardinality(Candidates(a)) = 1 THEN Candidates(a) ELSE {}
        /\ \A b \in Agents \ {a} : running'[b] = running[b] /\ answer'[b] = answer[b]
    BY DEF Conclude, TypeOK
  <1>4. steady'[a] \subseteq steady[a] /\ \A s \in steady'[a] : Findable(s)'
    BY <1>1, SteadyAreFindable
  <1>5. ASSUME NEW e \in answer'[a], NEW s \in steady[a] \ {e.server}
        PROVE  IF want[a] = AnyRoot
               THEN e.root \in Around /\ RootOf[s] \notin Around
               ELSE RootOf[s] # want[a]
    <2> DEFINE near == {d \in live[a] : d.root \in Around}
    <2>1. /\ IsFiniteSet(live[a])
          /\ Entry(s) \in live[a] \/ want[a] \notin {AnyRoot, RootOf[s]}
      BY <1>3, <1>5 DEF Searches, Search, Sought
    <2>2. Entry(s).server = s /\ Entry(s).root = RootOf[s]
      BY DEF Entry
    <2>3. Cardinality(Candidates(a)) = 1 /\ e \in Candidates(a)
      BY <1>3, <1>5
    <2>4. \/ Candidates(a) = live[a]
          \/ Candidates(a) = near /\ want[a] = AnyRoot
      BY DEF Candidates
    <2>5. CASE Candidates(a) = live[a]
      <3>1. \E x : live[a] = {x}
        BY <2>1, <2>3, <2>5, FS_Singleton
      <3>2. Entry(s) \notin live[a]
        BY <1>5, <2>2, <2>3, <2>5, <3>1
      <3> QED
        BY <2>1, <3>2
    <2>6. CASE Candidates(a) = near /\ want[a] = AnyRoot
      <3>1. IsFiniteSet(near)
        BY <2>1, FS_Subset
      <3>2. \E x : near = {x}
        BY <2>3, <2>6, <3>1, FS_Singleton
      <3>3. e \in near /\ Entry(s) \notin near
        BY <1>5, <2>2, <2>3, <2>6, <3>2
      <3> QED
        BY <2>1, <2>2, <2>6, <3>3
    <2> QED
      BY <2>4, <2>5, <2>6
  <1>6. NoGuess(a)'
    BY <1>1, <1>4, <1>5 DEF NoGuess
  <1>7. Search(a)'
    BY <1>1, <1>3, <1>4, <1>6 DEF Searches, Search
  <1>8. \A b \in Agents \ {a} : Search(b)'
    BY <1>1, <1>3, SearchElsewhere
  <1> QED
    BY <1>7, <1>8 DEF Searches

LEMMA SearchStep == IInv /\ Searches /\ [Next]_vars => Searches'
  <1> SUFFICES ASSUME IInv, Searches, [Next]_vars PROVE Searches'
    OBVIOUS
  <1>1. TypeOK /\ OneDeadAtATime
    BY DEF IInv
  <1>2. ASSUME NEW s \in Servers, Run(s) \/ Kill(s) PROVE Searches'
    BY <1>2, SearchServer
  <1>3. ASSUME NEW a \in Agents, Discover(a) PROVE Searches'
    BY <1>1, <1>3, SearchStart, SearchRead, SearchProbe, SearchPrune, SearchConclude DEF Discover
  <1>4. CASE UNCHANGED vars
    BY <1>4 DEF vars, process, discover, Searches, Search, Sought, NoGuess, Findable, Entry
  <1> QED
    BY <1>2, <1>3, <1>4 DEF Next

\* For any number of servers and agents, whatever is reused, killed or too slow: a
\* printed server is the only one the agent can have meant (narrowByWorkingDirectory).
THEOREM DiscoverNeverGuesses == Spec => []AnswerIsNoGuess
  <1>1. Searches => AnswerIsNoGuess
    BY DEF Searches, Search, NoGuess, AnswerIsNoGuess
  <1> QED
    BY <1>1, Invariant, SearchesInitially, SearchStep, PTL DEF Spec
=============================================================================
