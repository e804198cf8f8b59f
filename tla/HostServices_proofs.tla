------------------------- MODULE HostServices_proofs -------------------------
(***************************************************************************)
(* What the services of the host beside the turns promise, proved for any  *)
(* number of plugins, listeners, calls, jobs, commands, processes, values  *)
(* of the configuration, skills, traces, members of a team and connected   *)
(* clients.  For each there is an invariant that its first states satisfy  *)
(* and its steps keep, and what the invariant says of it;                  *)
(* Components_proofs puts them together.                                   *)
(***************************************************************************)
EXTENDS HostServices, Sequences, FiniteSetTheorems, WellFoundedInduction, TLAPS

\* Each instance has a copy of what it takes from FiniteSets.
LEMMA SameCardinality ==
    ASSUME NEW s
    PROVE  /\ H!Cardinality(s) = Cardinality(s)
           /\ S!Cardinality(s) = Cardinality(s)
BY DEF H!Cardinality, S!Cardinality, Cardinality

-----------------------------------------------------------------------------
(* Plugins: the counter of a listener is the number of its calls, its      *)
(* barrier is open exactly when there are none, and only the listeners of  *)
(* an active plugin are called.                                            *)

\* What the argument needs of the types; the bounds are left out.
HookReg == [plugin : Plugins, once : BOOLEAN, active : Nat, drained : BOOLEAN,
        disposed : BOOLEAN, removed : BOOLEAN]
HookTypes ==
    /\ fibers \in [Plugins -> H!FiberStates]
    /\ \E n \in Nat : regs \in [1 .. n -> HookReg] /\ hookCalls \in [1 .. n -> Nat]

\* The counter counts the calls, and the barrier is open when there are none.
Counted ==
    \A i \in DOMAIN regs : /\ regs[i].active = hookCalls[i]
                           /\ regs[i].drained <=> hookCalls[i] = 0
\* A listener that may be called belongs to an active plugin.
OnlyActiveListen ==
    \A i \in DOMAIN regs : regs[i].removed \/ fibers[regs[i].plugin] = "active"
\* Before the plugins are loaded there is nothing.
NothingYet == boot = "selected" => \A p \in Plugins : fibers[p] = "none"

HooksInv == HookTypes /\ Counted /\ OnlyActiveListen /\ NothingYet /\ H!GoneIsQuiet

LEMMA HooksInit == H!Init => HooksInv
<1> SUFFICES ASSUME H!Init PROVE HooksInv
  OBVIOUS
<1>1. DOMAIN regs = {}
  BY DEF H!Init
<1>2. HookTypes
  BY DEF H!Init, HookTypes, H!FiberStates
<1> QED
  BY <1>1, <1>2 DEF H!Init, HooksInv, Counted, OnlyActiveListen, NothingYet, H!GoneIsQuiet, H!Of

\* Identifiers are numbers from 1 on.
LEMMA HookIdsAreNumbers ==
    ASSUME HookTypes
    PROVE  /\ H!Count \in Nat
           /\ regs \in [1 .. H!Count -> HookReg] /\ hookCalls \in [1 .. H!Count -> Nat]
<1>1. PICK n \in Nat : regs \in [1 .. n -> HookReg] /\ hookCalls \in [1 .. n -> Nat]
  BY DEF HookTypes
<1>2. Cardinality(1 .. n) = n
  BY FS_Interval
<1> QED
  BY <1>1, <1>2, SameCardinality DEF H!Count

LEMMA HooksLoad == ASSUME HooksInv, H!Load PROVE HooksInv'
<1> USE DEF HooksInv
<1>1. fibers' \in [Plugins -> H!FiberStates] /\ boot' = "settling" /\ UNCHANGED <<regs, hookCalls>>
  BY DEF H!Load, H!FiberStates
<1>2. \A p \in Plugins : fibers[p] = "none"
  BY DEF H!Load, NothingYet
<1>3. \A i \in DOMAIN regs : regs[i].plugin \in Plugins
  BY HookIdsAreNumbers DEF HookReg
<1> QED
  BY <1>1, <1>2, <1>3 DEF HookTypes, Counted, OnlyActiveListen, NothingYet, H!GoneIsQuiet, H!Of

LEMMA HooksApply == ASSUME HooksInv, NEW p \in Plugins, H!Apply(p) PROVE HooksInv'
<1> USE DEF HooksInv
<1>1. H!Count \in Nat /\ regs \in [1 .. H!Count -> HookReg] /\ hookCalls \in [1 .. H!Count -> Nat]
  BY HookIdsAreNumbers
<1>2. boot' # "selected" \/ boot # "selected"
  BY DEF H!Apply, NothingYet
<1>3. CASE fibers' = [fibers EXCEPT ![p] = "failed"] /\ UNCHANGED <<regs, hookCalls>>
  <2> fibers \in [Plugins -> H!FiberStates] /\ "failed" \in H!FiberStates
    BY DEF HookTypes, H!FiberStates
  <2>0. fibers[p] = "loading"
    BY DEF H!Apply
  <2>1. /\ fibers' \in [Plugins -> H!FiberStates] /\ fibers'[p] = "failed"
        /\ \A q \in Plugins \ {p} : fibers'[q] = fibers[q]
    BY <1>3
  <2>2. HookTypes' /\ Counted'
    BY <1>3, <2>1 DEF HookTypes, Counted
  <2>3. OnlyActiveListen'
    <3>1. \A i \in DOMAIN regs : regs[i].plugin \in Plugins
      BY <1>1 DEF HookReg
    <3> QED BY <1>3, <2>0, <2>1, <3>1 DEF OnlyActiveListen
  <2>4. H!GoneIsQuiet'
    <3>1. \A i \in H!Of(p) : hookCalls[i] = 0
      BY <2>0 DEF H!GoneIsQuiet
    <3>2. \A q \in Plugins \ {p} : fibers'[q] \in {"none", "failed", "loading"} =>
             \A i \in H!Of(q) : hookCalls[i] = 0
      BY <2>1 DEF H!GoneIsQuiet
    <3>3. hookCalls' = hookCalls /\ \A q : H!Of(q)' = H!Of(q)
      BY <1>3 DEF H!Of
    <3> HIDE DEF HooksInv
    <3> QED BY <3>1, <3>2, <3>3 DEF H!GoneIsQuiet
  <2>5. NothingYet'
    BY <1>2, <2>1, <1>3 DEF H!Apply, NothingYet
  <2> QED BY <2>2, <2>3, <2>4, <2>5
<1>4. ASSUME NEW once \in BOOLEAN, H!Register(p, once), fibers' = [fibers EXCEPT ![p] = "active"]
      PROVE  HooksInv'
  <2> DEFINE new == [plugin |-> p, once |-> once, active |-> 0, drained |-> TRUE,
                     disposed |-> FALSE, removed |-> FALSE]
             n == H!Count
  <2>1. new \in HookReg /\ new.plugin = p /\ new.active = 0 /\ new.drained
    BY DEF HookReg
  <2>2. /\ regs' = [i \in 1 .. n + 1 |-> IF i <= n THEN regs[i] ELSE new]
        /\ hookCalls' = [i \in 1 .. n + 1 |-> IF i <= n THEN hookCalls[i] ELSE 0]
    BY <1>4 DEF H!Register
  <2>3. n \in Nat /\ DOMAIN regs = 1 .. n /\ DOMAIN hookCalls = 1 .. n
    BY <1>1
  <2> HIDE DEF new, n
  <2>4. /\ regs' \in [1 .. n + 1 -> HookReg] /\ hookCalls' \in [1 .. n + 1 -> Nat]
        /\ \A i \in DOMAIN regs' : \/ i \in DOMAIN regs /\ regs'[i] = regs[i] /\ hookCalls'[i] = hookCalls[i]
                                   \/ regs'[i] = new /\ hookCalls'[i] = 0
    BY <1>1, <2>1, <2>2, <2>3 DEF n
  <2>5. fibers' \in [Plugins -> H!FiberStates] /\ fibers'[p] = "active"
        /\ \A q \in Plugins \ {p} : fibers'[q] = fibers[q]
    BY <1>4 DEF HookTypes, H!FiberStates
  <2>6. HookTypes'
    <3>1. n + 1 \in Nat
      BY <2>3
    <3> QED
      BY <2>4, <2>5, <3>1 DEF HookTypes
  <2>7. Counted'
    BY <2>1, <2>4 DEF Counted
  <2>8. OnlyActiveListen'
    BY <1>1, <2>1, <2>4, <2>5 DEF OnlyActiveListen, HookReg
  <2>9. H!GoneIsQuiet'
    BY <2>1, <2>4, <2>5 DEF H!GoneIsQuiet, H!Of
  <2>10. NothingYet'
    BY <1>2, <1>4 DEF H!Apply, NothingYet
  <2> QED
    BY <2>6, <2>7, <2>8, <2>9, <2>10
<1> QED
  BY <1>3, <1>4 DEF H!Apply

LEMMA HooksGate == ASSUME HooksInv, H!Gate PROVE HooksInv'
<1> USE DEF HooksInv
<1>1. H!Count \in Nat /\ regs \in [1 .. H!Count -> HookReg] /\ hookCalls \in [1 .. H!Count -> Nat]
  BY HookIdsAreNumbers
<1>2. CASE boot' = "up" /\ UNCHANGED <<fibers, regs>>
  BY <1>2 DEF H!Gate, HookTypes, Counted, OnlyActiveListen, NothingYet, H!GoneIsQuiet, H!Of
<1>3. CASE /\ boot' = "refused"
           /\ fibers' = [p \in Plugins |-> IF fibers[p] = "active" THEN "closing" ELSE fibers[p]]
           /\ regs' = [i \in DOMAIN regs |-> [regs[i] EXCEPT !.disposed = TRUE, !.removed = TRUE]]
  <2>1. fibers' \in [Plugins -> H!FiberStates] /\ UNCHANGED hookCalls
    BY <1>3 DEF H!Gate, HookTypes, H!FiberStates
  <2>2. regs' \in [1 .. H!Count -> HookReg]
    BY <1>1, <1>3 DEF HookReg
  <2>3. DOMAIN regs' = DOMAIN regs
        /\ \A i \in DOMAIN regs : /\ regs'[i].plugin = regs[i].plugin
                                  /\ regs'[i].active = regs[i].active
                                  /\ regs'[i].drained = regs[i].drained
                                  /\ regs'[i].removed
    BY <1>1, <1>3 DEF HookReg
  <2>4. HookTypes'
    BY <1>1, <2>1, <2>2 DEF HookTypes
  <2>5. Counted'
    BY <2>1, <2>3, Zenon DEF Counted
  <2>6. OnlyActiveListen' /\ NothingYet'
    BY <1>3, <2>3 DEF OnlyActiveListen, NothingYet
  <2>7. \A p \in Plugins : fibers'[p] # "closing" => fibers'[p] = fibers[p]
    BY <1>3
  <2>8. H!GoneIsQuiet'
    BY <2>1, <2>3, <2>7 DEF H!GoneIsQuiet, H!Of
  <2> QED
    BY <2>4, <2>5, <2>6, <2>8
<1> QED
  BY <1>2, <1>3 DEF H!Gate

LEMMA HooksDispatch == ASSUME HooksInv, H!Dispatch PROVE HooksInv'
<1> USE DEF HooksInv
<1>1. H!Count \in Nat /\ regs \in [1 .. H!Count -> HookReg] /\ hookCalls \in [1 .. H!Count -> Nat]
  BY HookIdsAreNumbers
<1>2. /\ regs' = [i \in DOMAIN regs |-> IF i \in H!Listening THEN H!Entered(regs[i]) ELSE regs[i]]
      /\ hookCalls' = [i \in DOMAIN hookCalls |-> IF i \in H!Listening THEN hookCalls[i] + 1 ELSE hookCalls[i]]
      /\ UNCHANGED <<boot, fibers>>
  BY DEF H!Dispatch
<1>3. ASSUME NEW r \in HookReg
      PROVE  H!Entered(r) \in HookReg /\ H!Entered(r).plugin = r.plugin /\ H!Entered(r).active = r.active + 1
             /\ ~H!Entered(r).drained
  <2> DEFINE a == r.active + 1
             d == FALSE
             m == r.removed \/ r.once
             s == [r EXCEPT !.active = a, !.drained = d, !.removed = m]
  <2>1. a \in Nat /\ d \in BOOLEAN /\ m \in BOOLEAN
    BY DEF HookReg
  <2>2. H!Entered(r) = s
    BY Zenon DEF H!Entered
  <2> HIDE DEF a, d, m
  <2>3. s \in HookReg /\ s.plugin = r.plugin /\ s.active = a /\ s.drained = d
    BY <2>1 DEF HookReg
  <2> HIDE DEF s
  <2> QED
    BY <2>2, <2>3 DEF a, d
<1>4. regs' \in [1 .. H!Count -> HookReg]
  BY <1>1, <1>2, <1>3
<1>5. hookCalls' \in [1 .. H!Count -> Nat]
  BY <1>1, <1>2
<1>6. \A i \in DOMAIN regs :
         /\ regs'[i].plugin = regs[i].plugin
         /\ i \notin H!Listening => regs'[i] = regs[i] /\ hookCalls'[i] = hookCalls[i]
         /\ i \in H!Listening => /\ regs'[i].active = regs[i].active + 1 /\ hookCalls'[i] = hookCalls[i] + 1
                               /\ ~regs'[i].drained /\ ~regs[i].removed
  BY <1>1, <1>2, <1>3 DEF H!Listening
<1>7. HookTypes'
  BY <1>1, <1>2, <1>4, <1>5 DEF HookTypes
<1>8. Counted'
  BY <1>1, <1>2, <1>6 DEF Counted
<1>9. OnlyActiveListen' /\ NothingYet'
  BY <1>1, <1>2, <1>6 DEF OnlyActiveListen, NothingYet
<1>10. H!GoneIsQuiet'
  <2> SUFFICES ASSUME NEW p \in Plugins, fibers[p] \in {"none", "failed", "loading"},
                      NEW i \in DOMAIN regs, regs[i].plugin = p
               PROVE  hookCalls'[i] = 0
    BY <1>1, <1>2, <1>6 DEF H!GoneIsQuiet, H!Of
  <2>1. i \notin H!Listening
    BY <1>6 DEF OnlyActiveListen
  <2> QED
    BY <1>6, <2>1 DEF H!GoneIsQuiet, H!Of
<1> QED
  BY <1>7, <1>8, <1>9, <1>10

LEMMA HooksReturn == ASSUME HooksInv, NEW i \in DOMAIN regs, H!Return(i) PROVE HooksInv'
<1> USE DEF HooksInv
<1>1. H!Count \in Nat /\ regs \in [1 .. H!Count -> HookReg] /\ hookCalls \in [1 .. H!Count -> Nat]
  BY HookIdsAreNumbers
<1>2. /\ hookCalls[i] > 0 /\ hookCalls' = [hookCalls EXCEPT ![i] = @ - 1]
      /\ regs' = [regs EXCEPT ![i] = H!Released(regs[i])] /\ UNCHANGED <<boot, fibers>>
  BY DEF H!Return
<1>3. regs[i] \in HookReg /\ hookCalls[i] \in Nat /\ i \in 1 .. H!Count /\ regs[i].active = hookCalls[i]
  BY <1>1 DEF Counted
<1>4. H!Released(regs[i]) \in HookReg /\ H!Released(regs[i]).plugin = regs[i].plugin
      /\ H!Released(regs[i]).active = hookCalls[i] - 1
      /\ (H!Released(regs[i]).drained <=> hookCalls[i] = 1)
      /\ H!Released(regs[i]).removed = regs[i].removed
  <2> DEFINE r == regs[i]
             a == r.active - 1
             d == r.active = 1
             m == r.disposed \/ r.once
             s == [r EXCEPT !.active = a, !.drained = d, !.disposed = m]
  <2>1. a \in Nat /\ d \in BOOLEAN /\ m \in BOOLEAN /\ a = hookCalls[i] - 1 /\ (d <=> hookCalls[i] = 1)
    BY <1>2, <1>3 DEF HookReg
  <2>2. H!Released(r) = s
    BY Zenon DEF H!Released
  <2> HIDE DEF a, d, m
  <2>3. s \in HookReg /\ s.plugin = r.plugin /\ s.active = a /\ s.drained = d /\ s.removed = r.removed
    BY <1>3, <2>1 DEF HookReg
  <2> HIDE DEF s
  <2> QED
    BY <2>1, <2>2, <2>3
<1>5. HookTypes'
  <2> DEFINE s == H!Released(regs[i])
  <2>1. s \in HookReg /\ hookCalls[i] - 1 \in Nat
    BY <1>2, <1>3, <1>4
  <2> HIDE DEF s
  <2>2. regs' \in [1 .. H!Count -> HookReg]
    BY <1>1, <1>2, <2>1 DEF s
  <2>3. hookCalls' \in [1 .. H!Count -> Nat]
    BY <1>1, <1>2, <2>1
  <2> QED
    BY <1>1, <1>2, <2>2, <2>3 DEF HookTypes
<1>6. Counted'
  BY <1>1, <1>2, <1>3, <1>4 DEF Counted
<1>7. OnlyActiveListen' /\ NothingYet'
  BY <1>1, <1>2, <1>4 DEF OnlyActiveListen, NothingYet
<1>8. H!GoneIsQuiet'
  BY <1>1, <1>2, <1>3, <1>4 DEF H!GoneIsQuiet, H!Of
<1> QED
  BY <1>5, <1>6, <1>7, <1>8

\* Unload and restart: the listeners of p are removed before its Fiber closes,
\* and a Fiber that is not active has none in a call.
LEMMA HooksStop ==
    ASSUME HooksInv, NEW p \in Plugins, NEW next \in {"none", "loading"},
           boot = "up", fibers[p] \in {"active", "failed"},
           fibers' = [fibers EXCEPT ![p] = IF @ = "active" THEN "closing" ELSE next],
           regs' = H!Disposed(p), UNCHANGED <<boot, hookCalls>>
    PROVE  HooksInv'
<1> USE DEF HooksInv
<1>1. H!Count \in Nat /\ regs \in [1 .. H!Count -> HookReg] /\ hookCalls \in [1 .. H!Count -> Nat]
  BY HookIdsAreNumbers
<1>2. regs' \in [1 .. H!Count -> HookReg]
      /\ \A i \in DOMAIN regs : /\ regs'[i].plugin = regs[i].plugin
                                /\ regs'[i].active = regs[i].active
                                /\ regs'[i].drained = regs[i].drained
                                /\ (regs[i].removed \/ regs[i].plugin = p => regs'[i].removed)
  BY <1>1 DEF H!Disposed, HookReg
<1>3. fibers' \in [Plugins -> H!FiberStates] /\ \A q \in Plugins \ {p} : fibers'[q] = fibers[q]
  BY DEF HookTypes, H!FiberStates
<1>4. fibers'[p] = "closing" \/ (fibers'[p] = next /\ fibers[p] = "failed")
  BY DEF HookTypes
<1>5. HookTypes' /\ NothingYet'
  BY <1>1, <1>2, <1>3 DEF HookTypes, NothingYet
<1>6. Counted' /\ OnlyActiveListen'
  BY <1>1, <1>2, <1>3, <1>4 DEF Counted, OnlyActiveListen, HookReg
<1>7. H!GoneIsQuiet'
  BY <1>1, <1>2, <1>3, <1>4 DEF H!GoneIsQuiet, H!Of
<1> QED
  BY <1>5, <1>6, <1>7

LEMMA HooksStep == HooksInv /\ [H!Next]_H!vars => HooksInv'
<1> SUFFICES ASSUME HooksInv, [H!Next]_H!vars PROVE HooksInv'
  OBVIOUS
<1> USE DEF HooksInv
<1>1. CASE UNCHANGED H!vars
  BY <1>1 DEF H!vars, HookTypes, Counted, OnlyActiveListen, NothingYet, H!GoneIsQuiet, H!Of
<1>2. ASSUME NEW p \in Plugins, H!Closed(p) PROVE HooksInv'
  <2>1. \A i \in H!Of(p) : hookCalls[i] = 0
    BY <1>2 DEF H!Closed, H!MayClose, H!Of, Counted
  <2>2. HookTypes'
    BY <1>2 DEF H!Closed, HookTypes, H!FiberStates
  <2>3. Counted' /\ OnlyActiveListen' /\ NothingYet'
    BY <1>2, HookIdsAreNumbers DEF H!Closed, HookTypes, Counted, OnlyActiveListen, NothingYet
  <2>4. H!GoneIsQuiet'
    BY <1>2, <2>1 DEF H!Closed, HookTypes, H!GoneIsQuiet, H!Of
  <2> QED
    BY <2>2, <2>3, <2>4
<1>3. ASSUME NEW p \in Plugins, H!LoadAgain(p) PROVE HooksInv'
  <2>1. HookTypes'
    BY <1>3 DEF H!LoadAgain, HookTypes, H!FiberStates
  <2>2. Counted' /\ OnlyActiveListen' /\ NothingYet'
    BY <1>3, HookIdsAreNumbers DEF H!LoadAgain, HookTypes, Counted, OnlyActiveListen, NothingYet
  <2>3. H!GoneIsQuiet'
    BY <1>3 DEF H!LoadAgain, HookTypes, H!GoneIsQuiet, H!Of
  <2> QED
    BY <2>1, <2>2, <2>3
<1>4. ASSUME NEW p \in Plugins, H!Unload(p) PROVE HooksInv'
  BY <1>4, HooksStop DEF H!Unload
<1>5. ASSUME NEW p \in Plugins, H!Restart(p) PROVE HooksInv'
  BY <1>5, HooksStop DEF H!Restart
<1> QED
  BY <1>1, <1>2, <1>3, <1>4, <1>5, HooksLoad, HooksApply, HooksGate, HooksDispatch, HooksReturn
     DEF H!Next, H!Settle

-----------------------------------------------------------------------------
(* Scheduled jobs.  The run of a job is marked in its file before the      *)
(* message is handed over, so that the file of a job is never behind its   *)
(* runs; and what the scan has read of a job, but not yet looked at, is    *)
(* not behind either, since only this scan could run it.  A file that was  *)
(* overwritten with what had been read before another write of it is       *)
(* excepted from both.                                                     *)

JobFile == [there : BOOLEAN, last : Nat, disabled : BOOLEAN]
JobRun == [nth : Nat, job : Jobs, due : Nat, at : Nat]
Marking == {"marking", "creating", "publishing"}

\* What the argument needs of the types; the bound on the clock is left out.
JobTypes ==
    /\ now \in Nat
    /\ jobFiles \in [Jobs -> JobFile]
    /\ scan \in [pc : {"asleep", "scanning"} \cup Marking, at : Nat,
                 todo : SUBSET [job : Jobs, was : JobFile],
                 job : [id : Jobs, due : Nat] \cup {S!NoTarget}, read : JobFile]
    /\ edits \in [Editors -> [pc : {"idle", "saving"},
                              job : [id : Jobs, due : Nat] \cup {S!NoTarget}, read : JobFile]]
    /\ \A e \in Editors : edits[e].pc = "saving" => edits[e].job.id \in Jobs
    /\ scan.pc \in Marking => scan.job \in [id : Jobs, due : Nat]
    /\ jobRuns \subseteq JobRun /\ IsFiniteSet(jobRuns)

\* Runs are numbered, and none lies in the future or after the scan.
Numbered == \A r \in jobRuns : r.nth < Cardinality(jobRuns) /\ r.at <= now
ScanIsLatest == scan.pc # "asleep" => scan.at <= now /\ \A r \in jobRuns : r.at <= scan.at
\* A job is in what is left of a scan at most once.
OnceInScan ==
    /\ \A t, u \in scan.todo : t.job = u.job => t = u
    /\ scan.pc \in Marking => \A t \in scan.todo : t.job # scan.job.id
\* What the scan has read is not behind the runs.
ReadIsNotBehind ==
    /\ \A t \in scan.todo : t.job \notin clobbered =>
          \A r \in jobRuns : r.job = t.job => t.was.last >= r.at
    /\ scan.pc \in Marking /\ scan.job.id \notin clobbered =>
          \A r \in jobRuns : r.job = scan.job.id => scan.job.due > r.at
\* Nor is the file; of the run that is about to be handed over it knows.
FileIsNotBehind ==
    /\ \A j \in Jobs : j \notin clobbered /\ jobFiles[j].there =>
          \A r \in jobRuns : r.job = j => jobFiles[j].last >= r.at
    /\ scan.pc \in {"creating", "publishing"} =>
          (scan.job.id \notin clobbered /\ jobFiles[scan.job.id].there
           => jobFiles[scan.job.id].last >= scan.at)
\* A job that was gone when it was to be marked has been made since.
MissingIsNew ==
    scan.pc = "marking" /\ ~scan.read.there =>
        (scan.job.id \notin clobbered /\ jobFiles[scan.job.id].there
         => jobFiles[scan.job.id].last >= scan.at)

JobOrder == /\ Numbered /\ ScanIsLatest /\ OnceInScan
         /\ ReadIsNotBehind /\ FileIsNotBehind /\ MissingIsNew /\ S!TriggeredOnce
JobsInv == JobTypes /\ JobOrder

LEMMA JobsInit == S!Init => JobsInv
<1> SUFFICES ASSUME S!Init PROVE JobsInv
  OBVIOUS
<1> USE DEF S!Init, S!NoScan, S!NoEdit, S!NoJob, S!NoTarget, Marking
<1>1. JobTypes
  BY FS_EmptySet DEF JobTypes, JobFile
<1>2. JobOrder
  BY DEF JobOrder, Numbered, ScanIsLatest, OnceInScan, ReadIsNotBehind, FileIsNotBehind,
         MissingIsNew, S!TriggeredOnce
<1> QED
  BY <1>1, <1>2 DEF JobsInv

-----------------------------------------------------------------------------
(* Steps that leave the scan and the runs alone.                           *)

\* A file that is written is marked as overwritten, or loses nothing.
LEMMA JobSaveKeeps ==
    ASSUME JobTypes, NEW j \in Jobs, NEW job \in JobFile, NEW read \in JobFile,
           S!Save(j, job, read),
           read = jobFiles[j] => job.there = jobFiles[j].there /\ job.last >= jobFiles[j].last
    PROVE  /\ jobFiles' \in [Jobs -> JobFile]
           /\ clobbered \subseteq clobbered'
           /\ \A k \in Jobs : k \notin clobbered' =>
                 jobFiles'[k].there = jobFiles[k].there /\ jobFiles'[k].last >= jobFiles[k].last
BY DEF JobTypes, S!Save, JobFile

\* Such a step keeps the order when it overwrites nothing unnoticed and what it
\* makes is new.
LEMMA JobAsideKeeps ==
    ASSUME JobsInv, UNCHANGED <<scan, jobRuns>>, now' \in Nat, now' >= now,
           jobFiles' \in [Jobs -> JobFile], clobbered \subseteq clobbered',
           \A k \in Jobs : k \notin clobbered' /\ jobFiles'[k].there =>
              \/ jobFiles[k].there /\ jobFiles'[k].last >= jobFiles[k].last
              \/ jobFiles'[k].last >= now
    PROVE  JobOrder'
<1> USE DEF JobsInv, JobOrder, JobTypes
<1>1. Numbered' /\ ScanIsLatest' /\ OnceInScan' /\ S!TriggeredOnce' /\ ReadIsNotBehind'
  <2>1. Numbered'
    BY DEF Numbered, JobRun
  <2>2. ScanIsLatest'
    BY DEF ScanIsLatest
  <2>3. OnceInScan' /\ S!TriggeredOnce' /\ ReadIsNotBehind'
    BY DEF OnceInScan, S!TriggeredOnce, ReadIsNotBehind
  <2> QED
    BY <2>1, <2>2, <2>3
<1>2. ASSUME NEW j \in Jobs, j \notin clobbered', jobFiles'[j].there, NEW n \in Nat, n <= now,
             jobFiles[j].there => jobFiles[j].last >= n
      PROVE  jobFiles'[j].last >= n
  BY <1>2 DEF JobFile
<1>3. \A r \in jobRuns : r.at \in Nat /\ r.at <= now
  BY DEF Numbered, JobRun
<1>4. FileIsNotBehind'
  <2>1. \A j \in Jobs : j \notin clobbered' /\ jobFiles'[j].there =>
           \A r \in jobRuns : r.job = j => jobFiles'[j].last >= r.at
    BY <1>2, <1>3 DEF FileIsNotBehind
  <2>2. scan.pc \in {"creating", "publishing"} /\ scan.job.id \notin clobbered'
        /\ jobFiles'[scan.job.id].there => jobFiles'[scan.job.id].last >= scan.at
    BY <1>2 DEF FileIsNotBehind, ScanIsLatest, Marking
  <2> QED
    BY <2>1, <2>2 DEF FileIsNotBehind
<1>5. MissingIsNew'
  BY <1>2 DEF MissingIsNew, ScanIsLatest, Marking
<1> QED
  BY <1>1, <1>4, <1>5

LEMMA JobsAside ==
    ASSUME JobsInv,
           \/ S!Clock \/ S!Start
           \/ \E j \in Jobs : S!Create(j) \/ S!Delete(j) \/ S!Patch(j) \/ \E e \in Editors : S!ReadToUpdate(e, j)
           \/ \E e \in Editors : S!Update(e)
    PROVE  JobsInv'
<1> USE DEF JobsInv
<1>1. CASE S!Clock
  <2>1. JobOrder'
    BY <1>1, JobAsideKeeps DEF S!Clock, JobTypes, JobFile
  <2> QED
    BY <1>1, <2>1 DEF S!Clock, JobTypes
<1>2. CASE S!Start
  <2>1. JobOrder'
    BY <1>2, JobAsideKeeps DEF S!Start, JobTypes, JobFile
  <2> QED
    BY <1>2, <2>1 DEF S!Start, JobTypes
<1>3. ASSUME NEW j \in Jobs, S!Create(j) PROVE JobsInv'
  <2>1. JobTypes'
    BY <1>3 DEF S!Create, JobTypes, JobFile
  <2>2. JobOrder'
    BY <1>3, <2>1, JobAsideKeeps DEF S!Create, JobTypes, JobFile
  <2> QED
    BY <2>1, <2>2
<1>4. ASSUME NEW j \in Jobs, S!Delete(j) PROVE JobsInv'
  <2>1. JobTypes'
    BY <1>4 DEF S!Delete, JobTypes, JobFile, S!NoJob
  <2>2. JobOrder'
    BY <1>4, <2>1, JobAsideKeeps DEF S!Delete, JobTypes, JobFile, S!NoJob
  <2> QED
    BY <2>1, <2>2
<1>5. ASSUME NEW j \in Jobs, S!Patch(j) PROVE JobsInv'
  <2> DEFINE job == [jobFiles[j] EXCEPT !.disabled = ~@]
  <2>1. job \in JobFile /\ job.there = jobFiles[j].there /\ job.last = jobFiles[j].last
        /\ jobFiles[j] \in JobFile
    BY DEF JobTypes, JobFile
  <2>2. S!Save(j, job, jobFiles[j]) /\ UNCHANGED <<scheduleUp, now, scan, edits, jobRuns>>
    BY <1>5 DEF S!Patch
  <2> HIDE DEF job
  <2>3. /\ jobFiles' \in [Jobs -> JobFile] /\ clobbered \subseteq clobbered'
        /\ \A k \in Jobs : k \notin clobbered' =>
              jobFiles'[k].there = jobFiles[k].there /\ jobFiles'[k].last >= jobFiles[k].last
    BY <2>1, <2>2, JobSaveKeeps DEF JobFile
  <2>4. JobTypes'
    BY <2>2, <2>3 DEF JobTypes
  <2>5. JobOrder'
    BY <2>2, <2>3, JobAsideKeeps DEF JobTypes
  <2> QED
    BY <2>4, <2>5
<1>6. ASSUME NEW j \in Jobs, NEW e \in Editors, S!ReadToUpdate(e, j) PROVE JobsInv'
  <2>1. JobTypes'
    BY <1>6 DEF S!ReadToUpdate, JobTypes
  <2>2. JobOrder'
    BY <1>6, <2>1, JobAsideKeeps DEF S!ReadToUpdate, JobTypes, JobFile
  <2> QED
    BY <2>1, <2>2
<1>7. ASSUME NEW e \in Editors, S!Update(e) PROVE JobsInv'
  <2> DEFINE read == edits[e].read
             job == [read EXCEPT !.disabled = ~@]
             j == edits[e].job.id
  <2>1. job \in JobFile /\ job.there = read.there /\ job.last = read.last
        /\ read \in JobFile /\ j \in Jobs
    <3>1. edits[e].pc = "saving"
      BY <1>7 DEF S!Update
    <3>2. read \in JobFile /\ j \in Jobs
      BY <3>1 DEF JobTypes
    <3> HIDE DEF read
    <3>3. job \in JobFile /\ job.there = read.there /\ job.last = read.last
      BY <3>2 DEF JobFile
    <3> QED BY <3>2, <3>3
  <2>2. S!Save(j, job, read) /\ UNCHANGED <<scheduleUp, now, scan, jobRuns>>
        /\ edits' = [edits EXCEPT ![e] = S!NoEdit]
    BY <1>7 DEF S!Update
  <2>3. edits' \in [Editors -> [pc : {"idle", "saving"},
                     job : [id : Jobs, due : Nat] \cup {S!NoTarget}, read : JobFile]]
        /\ \A d \in Editors : edits'[d].pc = "saving" => edits'[d].job.id \in Jobs
    BY <2>2 DEF JobTypes, S!NoEdit, S!NoJob, JobFile
  <2> HIDE DEF job, read, j
  <2>4. /\ jobFiles' \in [Jobs -> JobFile] /\ clobbered \subseteq clobbered'
        /\ \A k \in Jobs : k \notin clobbered' =>
              jobFiles'[k].there = jobFiles[k].there /\ jobFiles'[k].last >= jobFiles[k].last
    BY <2>1, <2>2, JobSaveKeeps DEF JobFile
  <2>5. JobTypes'
    BY <2>2, <2>3, <2>4 DEF JobTypes
  <2>6. JobOrder'
    BY <2>2, <2>4, JobAsideKeeps DEF JobTypes
  <2> QED
    BY <2>5, <2>6
<1> QED
  BY <1>1, <1>2, <1>3, <1>4, <1>5, <1>6, <1>7

-----------------------------------------------------------------------------
(* Steps of the scan.                                                      *)

LEMMA JobsScan == ASSUME JobsInv, S!Scan PROVE JobsInv'
<1> USE DEF JobsInv, JobOrder, Marking
<1> DEFINE todo == {[job |-> j, was |-> jobFiles[j]] : j \in {k \in Jobs : jobFiles[k].there}}
<1>1. /\ scan' = [scan EXCEPT !.pc = "scanning", !.at = now, !.todo = todo]
      /\ UNCHANGED <<scheduleUp, now, jobFiles, edits, jobRuns, clobbered>>
  BY DEF S!Scan
<1>2. todo \in SUBSET [job : Jobs, was : JobFile]
  BY DEF JobTypes
<1>3. \A t \in todo : t.job \in Jobs /\ jobFiles[t.job].there /\ t.was = jobFiles[t.job]
                       /\ t = [job |-> t.job, was |-> t.was]
  OBVIOUS
<1> HIDE DEF todo
<1>4. scan'.pc = "scanning" /\ scan'.at = now /\ scan'.todo = todo
  BY <1>1 DEF JobTypes
<1>5. JobTypes'
  BY <1>1, <1>2 DEF JobTypes
<1>6. Numbered' /\ S!TriggeredOnce' /\ MissingIsNew'
  BY <1>1, <1>4 DEF Numbered, S!TriggeredOnce, MissingIsNew
<1>7. ScanIsLatest'
  BY <1>1, <1>4 DEF ScanIsLatest, Numbered, JobTypes
<1>8. OnceInScan'
  <2>1. \A t, u \in todo : t.job = u.job => t = u
    BY <1>3
  <2> QED
    BY <1>4, <2>1 DEF OnceInScan
<1>9. ReadIsNotBehind' /\ FileIsNotBehind'
  BY <1>1, <1>3, <1>4 DEF ReadIsNotBehind, FileIsNotBehind
<1> QED
  BY <1>5, <1>6, <1>7, <1>8, <1>9

LEMMA JobsExamine == ASSUME JobsInv, S!Examine PROVE JobsInv'
<1> USE DEF JobsInv, JobOrder, Marking
<1>1. PICK t \in scan.todo :
          scan' = IF t.was.disabled \/ S!Due(t.was) > scan.at
                  THEN [scan EXCEPT !.todo = @ \ {t}]
                  ELSE [scan EXCEPT !.todo = @ \ {t}, !.job = [id |-> t.job, due |-> S!Due(t.was)],
                                    !.read = jobFiles[t.job], !.pc = "marking"]
  BY DEF S!Examine
<1>2. scan.pc = "scanning" /\ UNCHANGED <<scheduleUp, now, jobFiles, edits, jobRuns, clobbered>>
  BY DEF S!Examine
<1>3. t.job \in Jobs /\ t.was \in JobFile /\ S!Due(t.was) \in Nat /\ S!Due(t.was) = t.was.last + 1
      /\ jobFiles[t.job] \in JobFile
  BY DEF JobTypes, S!Due, JobFile
<1>4. CASE scan' = [scan EXCEPT !.todo = @ \ {t}]
  <2>1. scan'.pc = "scanning" /\ scan'.at = scan.at /\ scan'.todo = scan.todo \ {t}
    BY <1>2, <1>4 DEF JobTypes
  <2>2. JobTypes'
    BY <1>2, <1>4 DEF JobTypes
  <2>3. JobOrder'
    BY <1>2, <2>1 DEF Numbered, ScanIsLatest, OnceInScan, ReadIsNotBehind, FileIsNotBehind,
                      MissingIsNew, S!TriggeredOnce
  <2> QED
    BY <2>2, <2>3
<1>5. CASE scan' = [scan EXCEPT !.todo = @ \ {t}, !.job = [id |-> t.job, due |-> S!Due(t.was)],
                                !.read = jobFiles[t.job], !.pc = "marking"]
  <2>1. scan'.pc = "marking" /\ scan'.at = scan.at /\ scan'.todo = scan.todo \ {t}
        /\ scan'.job = [id |-> t.job, due |-> S!Due(t.was)] /\ scan'.read = jobFiles[t.job]
    BY <1>5 DEF JobTypes
  <2>2. JobTypes'
    BY <1>2, <1>3, <1>5 DEF JobTypes
  <2>3. Numbered' /\ ScanIsLatest' /\ S!TriggeredOnce' /\ MissingIsNew' /\ FileIsNotBehind'
    BY <1>2, <2>1 DEF Numbered, ScanIsLatest, S!TriggeredOnce, MissingIsNew, FileIsNotBehind
  <2>4. OnceInScan'
    BY <1>2, <2>1 DEF OnceInScan
  <2>5. ReadIsNotBehind'
    <3>1. t.job \notin clobbered => \A r \in jobRuns : r.job = t.job => S!Due(t.was) > r.at
      BY <1>3 DEF ReadIsNotBehind, JobTypes, JobFile, JobRun
    <3> QED
      BY <1>2, <2>1, <3>1 DEF ReadIsNotBehind
  <2> QED
    BY <2>2, <2>3, <2>4, <2>5
<1> QED
  BY <1>1, <1>4, <1>5

LEMMA JobsMark == ASSUME JobsInv, S!Mark PROVE JobsInv'
<1> USE DEF JobsInv, JobOrder, Marking
<1> DEFINE j == scan.job.id
           job == [scan.read EXCEPT !.last = scan.at]
<1>1. /\ scan.pc = "marking" /\ scan' = [scan EXCEPT !.pc = "creating"]
      /\ UNCHANGED <<scheduleUp, now, edits, jobRuns>>
      /\ IF scan.read.there THEN S!Save(j, job, scan.read) ELSE UNCHANGED <<jobFiles, clobbered>>
  BY DEF S!Mark
<1>2. j \in Jobs /\ job \in JobFile /\ scan.read \in JobFile /\ job.there = scan.read.there
      /\ job.last = scan.at /\ scan.at \in Nat
  BY <1>1 DEF JobTypes, JobFile
<1> HIDE DEF j, job
<1>3. scan'.pc = "creating" /\ scan'.at = scan.at /\ scan'.todo = scan.todo /\ scan'.job = scan.job
      /\ scan'.read = scan.read
  BY <1>1 DEF JobTypes
<1>4. /\ jobFiles' \in [Jobs -> JobFile] /\ clobbered \subseteq clobbered'
      /\ \A k \in Jobs \ {j} : jobFiles'[k] = jobFiles[k]
      /\ j \notin clobbered' /\ jobFiles'[j].there => jobFiles'[j].last >= scan.at
  <2>1. CASE scan.read.there
    BY <1>1, <1>2, <2>1 DEF S!Save, JobTypes, JobFile
  <2>2. CASE ~scan.read.there
    BY <1>1, <2>2 DEF MissingIsNew, JobTypes, j
  <2> QED
    BY <2>1, <2>2
<1>5. JobTypes'
  BY <1>1, <1>4 DEF JobTypes
<1>6. Numbered' /\ ScanIsLatest' /\ OnceInScan' /\ ReadIsNotBehind' /\ MissingIsNew' /\ S!TriggeredOnce'
  BY <1>1, <1>3, <1>4 DEF Numbered, ScanIsLatest, OnceInScan, ReadIsNotBehind, MissingIsNew,
                          S!TriggeredOnce
<1>7. FileIsNotBehind'
  <2>1. \A k \in Jobs : k \notin clobbered' /\ jobFiles'[k].there =>
           \A r \in jobRuns : r.job = k => jobFiles'[k].last >= r.at
    <3> SUFFICES ASSUME NEW k \in Jobs, k \notin clobbered', jobFiles'[k].there,
                        NEW r \in jobRuns, r.job = k
                 PROVE  jobFiles'[k].last >= r.at
      OBVIOUS
    <3>1. CASE k # j
      BY <1>4, <3>1 DEF FileIsNotBehind
    <3>2. CASE k = j
      <4>1. r.at \in Nat /\ scan.at >= r.at /\ jobFiles'[k].last \in Nat
        BY <1>1, <1>4 DEF ScanIsLatest, JobTypes, JobRun, JobFile
      <4> QED
        BY <1>2, <1>4, <3>2, <4>1
    <3> QED
      BY <3>1, <3>2
  <2> QED
    BY <1>1, <1>3, <1>4, <2>1 DEF FileIsNotBehind, j
<1> QED
  BY <1>5, <1>6, <1>7

LEMMA JobsPublish == ASSUME JobsInv, S!Publish PROVE JobsInv'
<1> USE DEF JobsInv, JobOrder, Marking
<1> DEFINE new == [nth |-> Cardinality(jobRuns), job |-> scan.job.id, due |-> scan.job.due, at |-> scan.at]
<1>1. /\ scan.pc = "publishing" /\ jobRuns' = jobRuns \cup {new}
      /\ scan' = [scan EXCEPT !.pc = "scanning", !.job = S!NoTarget, !.read = S!NoJob]
      /\ UNCHANGED <<scheduleUp, now, jobFiles, edits, clobbered>>
  BY SameCardinality DEF S!Publish
<1>2. Cardinality(jobRuns) \in Nat
  BY FS_CardinalityType DEF JobTypes
<1>3. new \in JobRun /\ scan.job.id \in Jobs
  BY <1>1, <1>2 DEF JobTypes, JobRun
<1>4. new.nth = Cardinality(jobRuns) /\ new.job = scan.job.id /\ new.due = scan.job.due /\ new.at = scan.at
  OBVIOUS
<1> HIDE DEF new
<1>5. scan'.pc = "scanning" /\ scan'.at = scan.at /\ scan'.todo = scan.todo
  BY <1>1 DEF JobTypes
<1>6. new \notin jobRuns
  BY <1>2, <1>4 DEF Numbered
<1>7. IsFiniteSet(jobRuns') /\ Cardinality(jobRuns') = Cardinality(jobRuns) + 1
  BY <1>1, <1>6, FS_AddElement DEF JobTypes
<1>8. JobTypes'
  BY <1>1, <1>3, <1>7 DEF JobTypes, S!NoJob, S!NoTarget, JobFile
<1>9. Numbered'
  BY <1>1, <1>2, <1>4, <1>7 DEF Numbered, ScanIsLatest, JobTypes, JobRun
<1>10. ScanIsLatest'
  BY <1>1, <1>4, <1>5 DEF ScanIsLatest, JobTypes
<1>11. OnceInScan' /\ MissingIsNew'
  BY <1>5 DEF OnceInScan, MissingIsNew
<1>12. ReadIsNotBehind'
  BY <1>1, <1>4, <1>5 DEF ReadIsNotBehind, OnceInScan
<1>13. FileIsNotBehind'
  BY <1>1, <1>4, <1>5 DEF FileIsNotBehind
<1>14. S!TriggeredOnce'
  <2> SUFFICES ASSUME NEW a \in jobRuns \cup {new}, NEW b \in jobRuns \cup {new},
                      a.job = b.job, a.nth < b.nth, a.job \notin clobbered
               PROVE  b.due > a.at
    BY <1>1 DEF S!TriggeredOnce
  <2>1. CASE a \in jobRuns /\ b \in jobRuns
    BY <2>1 DEF S!TriggeredOnce
  <2>2. CASE a \in jobRuns /\ b = new
    BY <1>1, <1>4, <2>2 DEF ReadIsNotBehind
  <2>3. CASE a = new
    BY <1>2, <1>4, <2>3 DEF Numbered, JobTypes, JobRun
  <2> QED
    BY <2>1, <2>2, <2>3
<1> QED
  BY <1>8, <1>9, <1>10, <1>11, <1>12, <1>13, <1>14

LEMMA JobsStep == JobsInv /\ [S!Next]_S!vars => JobsInv'
<1> SUFFICES ASSUME JobsInv, [S!Next]_S!vars PROVE JobsInv'
  OBVIOUS
<1> USE DEF JobsInv
<1>1. CASE UNCHANGED S!vars
  BY <1>1 DEF S!vars, JobTypes, JobOrder, Numbered, ScanIsLatest, OnceInScan, ReadIsNotBehind,
              FileIsNotBehind, MissingIsNew, S!TriggeredOnce
<1>2. CASE S!CreateSession
  <2>1. scan'.pc = "publishing" /\ scan'.at = scan.at /\ scan'.todo = scan.todo
        /\ scan'.job = scan.job /\ scan.pc = "creating"
    BY <1>2 DEF S!CreateSession, JobTypes
  <2> QED
    BY <1>2, <2>1 DEF S!CreateSession, JobTypes, JobOrder, Numbered, ScanIsLatest, OnceInScan,
              ReadIsNotBehind, FileIsNotBehind, MissingIsNew, S!TriggeredOnce, Marking
<1>3. CASE S!Sleep \/ S!Crash
  <2>1. scan' = S!NoScan /\ UNCHANGED <<now, jobFiles, jobRuns, clobbered>>
        /\ (UNCHANGED edits \/ edits' = [e \in Editors |-> S!NoEdit])
    BY <1>3 DEF S!Sleep, S!Crash
  <2>2. JobTypes'
    <3>1. S!NoJob \in JobFile
      BY DEF S!NoJob, JobFile
    <3>2. scan' \in [pc : {"asleep", "scanning"} \cup Marking, at : Nat,
                     todo : SUBSET [job : Jobs, was : JobFile],
                     job : [id : Jobs, due : Nat] \cup {S!NoTarget}, read : JobFile]
          /\ scan'.pc \notin Marking
      BY <2>1, <3>1 DEF S!NoScan, Marking
    <3>3. S!NoEdit \in [pc : {"idle", "saving"},
                      job : [id : Jobs, due : Nat] \cup {S!NoTarget}, read : JobFile]
          /\ S!NoEdit.pc # "saving"
      BY <3>1 DEF S!NoEdit
    <3> QED
      BY <2>1, <3>2, <3>3 DEF JobTypes
  <2>3. JobOrder'
    BY <2>1 DEF S!NoScan, S!NoTarget, JobOrder, Numbered, ScanIsLatest, OnceInScan,
                ReadIsNotBehind, FileIsNotBehind, MissingIsNew, S!TriggeredOnce, Marking
  <2> QED
    BY <2>2, <2>3
<1> QED
  BY <1>1, <1>2, <1>3, JobsScan, JobsExamine, JobsMark, JobsPublish, JobsAside DEF S!Next

-----------------------------------------------------------------------------
(* The commands that manage the background gateway.                        *)

ProcessStates == {"serving", "closing", "dying", "free", "zombie", "stranger"}
\* A command has read the file, and goes by what it has read.
Informed == {"check", "check_report", "recheck", "term", "term_wait", "kill",
             "kill_wait", "clear"}
Stopping == {"term", "term_wait", "kill", "kill_wait"}
\* A command has found no gateway and has not entered its own yet.
Launching == {"spawn", "confirm", "write"}
CommandRecord ==
    [pc : {"idle", "read", "report", "reread"} \cup Informed \cup Launching,
     goal : {"start", "stop", "restart", "status"},
     pid : GatewayPids \cup {"none"}, child : GatewayPids \cup {"none"}]

\* What a command takes for granted of the file and of the processes.
Knows(k, file, procs) ==
    /\ k.pc \in Informed => file \in {k.pid, "none"}
    /\ k.pc \in Launching => k.goal \in {"start", "restart"} /\ file = "none"
    /\ k.pc \in {"confirm", "write"} => k.child \in GatewayPids
    /\ k.pc \in Stopping => k.pid \in GatewayPids
    /\ k.pc = "clear" /\ k.pid \in GatewayPids => procs[k.pid] \notin G!Gateway

\* A command that starts a gateway is alone.
Alone(c) == \A d \in GatewayCommands \ {c} : gatewayCmds[d].pc = "idle"

\* The command c has started the gateway p and is about to enter it.
Enters(k, p) == k.child = p /\ k.pc \in {"confirm", "write"}

GatewayInv ==
    /\ gatewayProcs \in [GatewayPids -> ProcessStates]
    /\ gatewayFile \in GatewayPids \cup {"none"}
    /\ gatewayCmds \in [GatewayCommands -> CommandRecord]
    /\ ~gatewayDisturbed =>
          /\ \A c \in GatewayCommands :
                /\ Knows(gatewayCmds[c], gatewayFile, gatewayProcs)
                /\ gatewayCmds[c].pc # "idle"
                   /\ gatewayCmds[c].goal \in {"start", "restart"} => Alone(c)
          /\ \A p \in GatewayPids :
                gatewayProcs[p] \in G!Gateway =>
                    \/ gatewayFile = p
                    \/ \E c \in GatewayCommands : Enters(gatewayCmds[c], p)

\* A step of one command: it loses no gateway, it may clear the file, and only
\* when it is alone may it enter something else or start a gateway.
LEMMA CommandMoves ==
    ASSUME GatewayInv, ~gatewayDisturbed, NEW c \in GatewayCommands,
           NEW new \in CommandRecord,
           gatewayCmds' = [gatewayCmds EXCEPT ![c] = new],
           gatewayProcs' \in [GatewayPids -> ProcessStates],
           gatewayFile' \in GatewayPids \cup {"none"},
           Knows(new, gatewayFile', gatewayProcs'),
           \/ new.pc = "idle"
           \/ new.goal = gatewayCmds[c].goal /\ gatewayCmds[c].pc # "idle",
           gatewayFile' \in {gatewayFile, "none"} \/ Alone(c),
           Alone(c) \/ \A p \in GatewayPids :
              gatewayProcs'[p] \in G!Gateway => gatewayProcs[p] \in G!Gateway,
           \A p \in GatewayPids :
              gatewayProcs'[p] \in G!Gateway =>
                 \/ gatewayFile' = p \/ Enters(new, p)
                 \/ gatewayProcs[p] \in G!Gateway /\ gatewayFile # p
                    /\ ~Enters(gatewayCmds[c], p)
    PROVE  GatewayInv'
<1>1. /\ gatewayCmds \in [GatewayCommands -> CommandRecord]
      /\ gatewayCmds'[c] = new
      /\ \A d \in GatewayCommands \ {c} : gatewayCmds'[d] = gatewayCmds[d]
  BY DEF GatewayInv
<1>2. /\ gatewayProcs' \in [GatewayPids -> ProcessStates]
      /\ gatewayFile' \in GatewayPids \cup {"none"}
      /\ gatewayCmds' \in [GatewayCommands -> CommandRecord]
  BY <1>1
<1>3. ASSUME NEW d \in GatewayCommands
      PROVE  Knows(gatewayCmds'[d], gatewayFile', gatewayProcs')
  <2>1. CASE d = c
    BY <1>1, <2>1
  <2>2. CASE d # c
    <3>1. /\ gatewayCmds'[d] = gatewayCmds[d]
          /\ Knows(gatewayCmds[d], gatewayFile, gatewayProcs)
      BY <1>1, <2>2 DEF GatewayInv
    <3>2. CASE Alone(c)
      <4>1. gatewayCmds'[d].pc = "idle"
        BY <2>2, <3>1, <3>2 DEF Alone
      <4> QED
        BY <4>1 DEF Knows, Informed, Launching, Stopping
    <3>3. CASE ~Alone(c)
      BY <3>1, <3>3 DEF Knows
    <3> QED
      BY <3>2, <3>3
  <2> QED
    BY <2>1, <2>2
<1>4. ASSUME NEW d \in GatewayCommands, gatewayCmds'[d].pc # "idle",
             gatewayCmds'[d].goal \in {"start", "restart"}
      PROVE  Alone(d)'
  <2>1. gatewayCmds[d].pc # "idle" /\ gatewayCmds[d].goal \in {"start", "restart"}
    BY <1>1, <1>4
  <2>2. Alone(d)
    BY <2>1 DEF GatewayInv
  <2>3. \A e \in GatewayCommands \ {d} : gatewayCmds[e].pc = "idle"
    BY <2>2 DEF Alone
  <2>4. c # d => new.pc = "idle"
    BY <2>3
  <2> QED
    BY <1>1, <2>3, <2>4 DEF Alone
<1>5. ASSUME NEW p \in GatewayPids, gatewayProcs'[p] \in G!Gateway
      PROVE  \/ gatewayFile' = p
             \/ \E d \in GatewayCommands : Enters(gatewayCmds'[d], p)
  <2>1. CASE gatewayFile' = p
    BY <2>1
  <2>2. CASE Enters(new, p)
    BY <1>1, <2>2
  <2>3. CASE gatewayProcs[p] \in G!Gateway /\ gatewayFile # p
             /\ ~Enters(gatewayCmds[c], p)
    <3>1. PICK d \in GatewayCommands : Enters(gatewayCmds[d], p)
      BY <2>3 DEF GatewayInv
    <3> QED
      BY <1>1, <2>3, <3>1
  <2> QED
    BY <1>5, <2>1, <2>2, <2>3
<1> QED
  BY <1>2, <1>3, <1>4, <1>5 DEF GatewayInv

\* Reaping the child of a command that ends touches no gateway.
LEMMA ReapedKeeps ==
    ASSUME gatewayProcs \in [GatewayPids -> ProcessStates], NEW c
    PROVE  /\ G!Reaped(c) \in [GatewayPids -> ProcessStates]
           /\ \A p \in GatewayPids :
                 G!Reaped(c)[p] \in G!Gateway <=> gatewayProcs[p] \in G!Gateway
BY DEF G!Reaped, G!Gateway, ProcessStates

\* The end of a command that has nothing to enter.
LEMMA CommandEnds ==
    ASSUME GatewayInv, ~gatewayDisturbed, NEW c \in GatewayCommands, G!End(c),
           gatewayCmds[c].pc \notin {"confirm", "write"},
           gatewayFile' \in {gatewayFile, "none"},
           \A p \in GatewayPids :
              gatewayProcs[p] \in G!Gateway /\ gatewayFile = p => gatewayFile' = p
    PROVE  GatewayInv'
<1>1. /\ gatewayCmds' = [gatewayCmds EXCEPT ![c] = G!NoCommand]
      /\ gatewayProcs' = G!Reaped(c)
      /\ gatewayProcs \in [GatewayPids -> ProcessStates]
      /\ gatewayFile \in GatewayPids \cup {"none"}
  BY DEF G!End, GatewayInv
<1>2. G!NoCommand \in CommandRecord /\ G!NoCommand.pc = "idle"
  BY DEF G!NoCommand, G!NoPid, CommandRecord
<1>3. Knows(G!NoCommand, gatewayFile', gatewayProcs')
  BY <1>2 DEF Knows, Informed, Launching, Stopping
<1>4. \A p \in GatewayPids : ~Enters(gatewayCmds[c], p)
  BY DEF Enters
<1> QED
  BY <1>1, <1>2, <1>3, <1>4, ReapedKeeps, CommandMoves

\* A command goes on and changes neither the file nor a process.
LEMMA CommandGoesOn ==
    ASSUME GatewayInv, ~gatewayDisturbed, NEW c \in GatewayCommands, NEW pc,
           G!Goto(c, pc), UNCHANGED <<gatewayFile, gatewayProcs>>,
           gatewayCmds[c].pc \notin {"idle", "confirm", "write"},
           pc \in {"report", "spawn"} \cup Informed,
           pc \in Informed => gatewayCmds[c].pc \in Informed,
           pc = "spawn" => /\ gatewayCmds[c].goal \in {"start", "restart"}
                           /\ gatewayFile = "none",
           pc \in Stopping => gatewayCmds[c].pid \in GatewayPids,
           pc = "clear" /\ gatewayCmds[c].pid \in GatewayPids =>
              gatewayProcs[gatewayCmds[c].pid] \notin G!Gateway
    PROVE  GatewayInv'
<1> DEFINE new == [gatewayCmds[c] EXCEPT !.pc = pc]
<1>1. /\ gatewayCmds' = [gatewayCmds EXCEPT ![c] = new]
      /\ gatewayProcs \in [GatewayPids -> ProcessStates]
      /\ gatewayFile \in GatewayPids \cup {"none"}
      /\ gatewayCmds[c] \in CommandRecord
      /\ Knows(gatewayCmds[c], gatewayFile, gatewayProcs)
  BY DEF G!Goto, GatewayInv
<1>2. /\ new \in CommandRecord /\ new.pc = pc
      /\ new.goal = gatewayCmds[c].goal /\ new.pid = gatewayCmds[c].pid
  BY <1>1 DEF CommandRecord, Launching
<1>3. Knows(new, gatewayFile', gatewayProcs')
  BY <1>1, <1>2 DEF Knows, Informed, Launching, Stopping
<1>4. \A p \in GatewayPids : ~Enters(gatewayCmds[c], p)
  BY DEF Enters
<1> HIDE DEF new
<1> QED
  BY <1>1, <1>2, <1>3, <1>4, CommandMoves

\* What GatewayInv says of one command, and of the file.
LEMMA Known ==
    ASSUME GatewayInv, ~gatewayDisturbed, NEW c \in GatewayCommands
    PROVE  /\ gatewayCmds[c] \in CommandRecord
           /\ gatewayProcs \in [GatewayPids -> ProcessStates]
           /\ gatewayFile \in GatewayPids \cup {"none"}
           /\ gatewayCmds[c].pc \in Informed => gatewayFile \in {gatewayCmds[c].pid, "none"}
           /\ gatewayCmds[c].pc \in Launching =>
                 /\ gatewayCmds[c].goal \in {"start", "restart"}
                 /\ gatewayFile = "none" /\ Alone(c)
           /\ gatewayCmds[c].pc \in {"confirm", "write"} =>
                 gatewayCmds[c].child \in GatewayPids
           /\ gatewayCmds[c].pc \in Stopping => gatewayCmds[c].pid \in GatewayPids
           /\ gatewayCmds[c].pc = "clear" /\ gatewayCmds[c].pid \in GatewayPids =>
                 gatewayProcs[gatewayCmds[c].pid] \notin G!Gateway
           /\ ~G!Running(gatewayCmds[c].pid) /\ gatewayCmds[c].pid \in GatewayPids =>
                 gatewayProcs[gatewayCmds[c].pid] \notin G!Gateway
<1>1. /\ gatewayCmds[c] \in CommandRecord
      /\ gatewayProcs \in [GatewayPids -> ProcessStates]
      /\ gatewayFile \in GatewayPids \cup {"none"}
      /\ Knows(gatewayCmds[c], gatewayFile, gatewayProcs)
      /\ gatewayCmds[c].pc # "idle"
         /\ gatewayCmds[c].goal \in {"start", "restart"} => Alone(c)
  BY DEF GatewayInv
<1>2. gatewayCmds[c].pc \in Launching => Alone(c)
  BY <1>1 DEF Knows, Launching
<1> QED
  BY <1>1, <1>2 DEF Knows, G!Running, G!Gateway

\* Every step of a command keeps the invariant.
LEMMA CommandStep ==
    ASSUME GatewayInv, ~gatewayDisturbed, NEW c \in GatewayCommands,
           \/ \E goal \in G!Goals : G!Begin(c, goal)
           \/ G!Read(c) \/ G!Check(c) \/ G!Report(c)
           \/ G!Spawn(c) \/ G!SpawnFails(c) \/ G!Confirm(c) \/ G!Write(c)
           \/ G!Reread(c) \/ G!Recheck(c) \/ G!Terminate(c) \/ G!Waited(c)
           \/ G!Kill(c) \/ G!Killed(c) \/ G!Clear(c) \/ G!Interrupt(c)
    PROVE  GatewayInv'
<1> DEFINE k == gatewayCmds[c]
<1>1. /\ k \in CommandRecord
      /\ gatewayProcs \in [GatewayPids -> ProcessStates]
      /\ gatewayFile \in GatewayPids \cup {"none"}
      /\ gatewayCmds \in [GatewayCommands -> CommandRecord]
      /\ k.pc \in Informed => gatewayFile \in {k.pid, "none"}
      /\ k.pc \in Launching =>
            k.goal \in {"start", "restart"} /\ gatewayFile = "none" /\ Alone(c)
      /\ k.pc \in {"confirm", "write"} => k.child \in GatewayPids
      /\ k.pc \in Stopping => k.pid \in GatewayPids
      /\ k.pc = "clear" /\ k.pid \in GatewayPids => gatewayProcs[k.pid] \notin G!Gateway
      /\ ~G!Running(k.pid) /\ k.pid \in GatewayPids => gatewayProcs[k.pid] \notin G!Gateway
  <2>1. gatewayCmds \in [GatewayCommands -> CommandRecord]
    BY DEF GatewayInv
  <2> QED
    BY <2>1, Known
\* A command that starts a gateway begins alone, and no other begins meanwhile.
<1>2. ASSUME NEW goal \in G!Goals, G!Begin(c, goal) PROVE GatewayInv'
  <2> DEFINE new == [G!NoCommand EXCEPT !.goal = goal,
                        !.pc = IF goal = "restart" THEN "reread" ELSE "read"]
  <2>1. /\ k.pc = "idle" /\ gatewayCmds' = [gatewayCmds EXCEPT ![c] = new]
        /\ UNCHANGED <<gatewayProcs, gatewayFile>>
    BY <1>2 DEF G!Begin, G!At
  <2>2. /\ new \in CommandRecord /\ new.goal = goal /\ new.pc \in {"reread", "read"}
    BY <1>2 DEF G!NoCommand, G!NoPid, G!Goals, CommandRecord
  <2> HIDE DEF new
  <2>3. gatewayCmds' \in [GatewayCommands -> CommandRecord]
    BY <1>1, <2>1, <2>2
  <2>4. ASSUME ~gatewayDisturbed'
        PROVE  \A d \in GatewayCommands \ {c} :
                  gatewayCmds[d].pc = "idle" \/
                  (goal \notin {"start", "restart"}
                     /\ gatewayCmds[d].goal \notin {"start", "restart"})
    BY <1>2, <2>4 DEF G!Begin, G!At, G!Starting
  <2>5. ASSUME ~gatewayDisturbed', NEW d \in GatewayCommands
        PROVE  /\ Knows(gatewayCmds'[d], gatewayFile', gatewayProcs')
               /\ gatewayCmds'[d].pc # "idle"
                  /\ gatewayCmds'[d].goal \in {"start", "restart"} => Alone(d)'
    <3>1. CASE d = c
      <4>1. gatewayCmds'[d] = new
        BY <1>1, <2>1, <3>1
      <4>2. Knows(new, gatewayFile', gatewayProcs')
        BY <2>2 DEF Knows, Informed, Launching, Stopping
      <4>3. goal \in {"start", "restart"} => Alone(d)'
        BY <1>1, <2>1, <2>4, <2>5, <3>1 DEF Alone
      <4> QED
        BY <2>2, <4>1, <4>2, <4>3
    <3>2. CASE d # c
      <4>1. gatewayCmds'[d] = gatewayCmds[d]
        BY <1>1, <2>1, <3>2
      <4>2. Knows(gatewayCmds[d], gatewayFile, gatewayProcs)
        BY DEF GatewayInv
      <4>3. ~(gatewayCmds[d].pc # "idle" /\ gatewayCmds[d].goal \in {"start", "restart"})
        BY <2>4, <2>5, <3>2
      <4> QED
        BY <2>1, <4>1, <4>2, <4>3
    <3> QED
      BY <3>1, <3>2
  <2>6. ASSUME NEW p \in GatewayPids, gatewayProcs'[p] \in G!Gateway
        PROVE  \/ gatewayFile' = p
               \/ \E d \in GatewayCommands : Enters(gatewayCmds'[d], p)
    <3>1. \/ gatewayFile = p
          \/ \E d \in GatewayCommands : Enters(gatewayCmds[d], p)
      BY <2>1, <2>6 DEF GatewayInv
    <3>2. ~Enters(gatewayCmds[c], p)
      BY <2>1 DEF Enters
    <3> QED
      BY <1>1, <2>1, <3>1, <3>2
  <2> QED
    BY <1>1, <2>1, <2>3, <2>5, <2>6 DEF GatewayInv
<1>3. CASE G!Read(c) \/ G!Reread(c)
  <2>1. PICK pc \in {"check", "check_report", "report", "recheck"} :
           /\ k.pc \in {"read", "report", "reread"}
           /\ gatewayCmds' = [gatewayCmds EXCEPT ![c].pid = gatewayFile, ![c].pc = pc]
           /\ UNCHANGED <<gatewayProcs, gatewayFile>>
    BY <1>1, <1>3 DEF G!Read, G!Reread, G!At
  <2> DEFINE new == [k EXCEPT !.pid = gatewayFile, !.pc = pc]
  <2>2. gatewayCmds' = [gatewayCmds EXCEPT ![c] = new]
    BY <1>1, <2>1
  <2>3. /\ new \in CommandRecord /\ new.pc = pc /\ new.pid = gatewayFile
        /\ new.goal = k.goal
    BY <1>1, <2>1 DEF CommandRecord, Informed, Launching
  <2>4. Knows(new, gatewayFile', gatewayProcs')
    BY <2>1, <2>3 DEF Knows, Informed, Launching, Stopping
  <2>5. \A p \in GatewayPids : ~Enters(k, p)
    BY <2>1 DEF Enters
  <2> HIDE DEF new
  <2> QED
    BY <1>1, <2>1, <2>2, <2>3, <2>4, <2>5, CommandMoves
\* The file is removed if nothing has the identifier that was read in it.
<1>4. CASE G!Check(c) \/ G!Report(c)
  <2>1. /\ k.pc \in {"check", "check_report"}
        /\ gatewayFile' = (IF k.pid # "none" /\ ~G!Running(k.pid) THEN "none"
                                                                  ELSE gatewayFile)
    BY <1>4 DEF G!Check, G!Report, G!At, G!NoPid
  <2>2. \A p \in GatewayPids :
           gatewayProcs[p] \in G!Gateway /\ gatewayFile = p => gatewayFile' = p
    BY <1>1, <2>1 DEF Informed
  <2>3. CASE G!End(c)
    BY <2>1, <2>2, <2>3, CommandEnds
  <2>4. CASE k.goal = "stop" /\ G!Running(k.pid) /\ G!Goto(c, "term")
             /\ UNCHANGED gatewayProcs
    <3>1. UNCHANGED gatewayFile /\ k.pid \in GatewayPids
      BY <2>1, <2>4 DEF G!Running
    <3> QED
      BY <2>1, <2>4, <3>1, CommandGoesOn DEF Informed, Stopping
  <2>5. CASE k.goal \in {"start", "restart"} /\ ~G!Running(k.pid)
             /\ G!Goto(c, "spawn") /\ UNCHANGED gatewayProcs
    <3> DEFINE new == [k EXCEPT !.pc = "spawn"]
    <3>1. gatewayCmds' = [gatewayCmds EXCEPT ![c] = new]
      BY <1>1, <2>5 DEF G!Goto
    <3>2. new \in CommandRecord /\ new.pc = "spawn" /\ new.goal = k.goal
      BY <1>1 DEF CommandRecord, Informed, Launching
    <3>3. gatewayFile' = "none"
      BY <1>1, <2>1, <2>5 DEF Informed
    <3>4. Knows(new, gatewayFile', gatewayProcs')
      BY <2>5, <3>2, <3>3 DEF Knows, Informed, Launching, Stopping
    <3>5. \A p \in GatewayPids : ~Enters(k, p)
      BY <2>1 DEF Enters
    <3>6. gatewayFile' \in GatewayPids \cup {"none"} /\ k.pc # "idle"
      BY <2>1, <3>3
    <3> HIDE DEF new
    <3> QED
      BY <1>1, <2>2, <2>5, <3>1, <3>2, <3>3, <3>4, <3>5, <3>6, CommandMoves
  <2> QED
    BY <1>4, <2>3, <2>4, <2>5 DEF G!Check, G!Report, G!Starting
<1>5. CASE G!Spawn(c)
  <2>1. PICK p \in GatewayPids :
           /\ gatewayProcs[p] = "free"
           /\ gatewayProcs' = [gatewayProcs EXCEPT ![p] = "serving"]
           /\ gatewayCmds' = [gatewayCmds EXCEPT ![c].pc = "confirm", ![c].child = p]
    BY <1>5 DEF G!Spawn
  <2>2. k.pc = "spawn" /\ UNCHANGED gatewayFile
    BY <1>5 DEF G!Spawn, G!At
  <2> DEFINE new == [k EXCEPT !.pc = "confirm", !.child = p]
  <2>3. gatewayCmds' = [gatewayCmds EXCEPT ![c] = new]
    BY <1>1, <2>1
  <2>4. /\ new \in CommandRecord /\ new.pc = "confirm" /\ new.child = p
        /\ new.goal = k.goal
    BY <1>1 DEF CommandRecord, Informed, Launching
  <2>5. Alone(c) /\ Knows(new, gatewayFile', gatewayProcs')
    BY <1>1, <2>2, <2>4 DEF Knows, Informed, Launching, Stopping
  <2>6. gatewayProcs' \in [GatewayPids -> ProcessStates]
    BY <1>1, <2>1 DEF ProcessStates
  <2>7. \A q \in GatewayPids : gatewayProcs'[q] \in G!Gateway =>
           \/ Enters(new, q)
           \/ gatewayProcs[q] \in G!Gateway /\ ~Enters(k, q)
    BY <1>1, <2>1, <2>2, <2>4 DEF Enters
  <2> HIDE DEF new
  <2> QED
    BY <1>1, <2>2, <2>3, <2>4, <2>5, <2>6, <2>7, CommandMoves
<1>6. CASE G!SpawnFails(c)
  BY <1>6, CommandEnds DEF G!SpawnFails, G!At
<1>7. CASE G!Confirm(c)
  <2> DEFINE new == [k EXCEPT !.pc = IF G!Running(k.child) THEN "write" ELSE "report"]
  <2>1. /\ k.pc = "confirm" /\ UNCHANGED <<gatewayProcs, gatewayFile>>
        /\ gatewayCmds' = [gatewayCmds EXCEPT ![c] = new]
    BY <1>1, <1>7 DEF G!Confirm, G!At, G!Goto
  <2>2. /\ new \in CommandRecord /\ new.child = k.child /\ new.goal = k.goal
        /\ new.pc = IF G!Running(k.child) THEN "write" ELSE "report"
    BY <1>1 DEF CommandRecord, Informed, Launching
  <2>3. Knows(new, gatewayFile', gatewayProcs')
    BY <1>1, <2>1, <2>2 DEF Knows, Informed, Launching, Stopping
  <2>4. \A p \in GatewayPids : gatewayProcs[p] \in G!Gateway /\ Enters(k, p) =>
           Enters(new, p)
    BY <2>2 DEF Enters, G!Running, G!Gateway
  <2> HIDE DEF new
  <2> QED
    BY <1>1, <2>1, <2>2, <2>3, <2>4, CommandMoves
<1>8. CASE G!Write(c)
  <2> DEFINE new == [k EXCEPT !.pc = "report"]
  <2>1. /\ k.pc = "write" /\ UNCHANGED gatewayProcs /\ gatewayFile' = k.child
        /\ gatewayCmds' = [gatewayCmds EXCEPT ![c] = new]
    BY <1>1, <1>8 DEF G!Write, G!At, G!Goto
  <2>2. /\ new \in CommandRecord /\ new.pc = "report" /\ new.goal = k.goal
    BY <1>1 DEF CommandRecord, Informed, Launching
  <2>3. Knows(new, gatewayFile', gatewayProcs')
    BY <2>2 DEF Knows, Informed, Launching, Stopping
  <2>4. Alone(c) /\ gatewayFile = "none" /\ k.child \in GatewayPids
    BY <1>1, <2>1 DEF Launching
  <2>5. \A p \in GatewayPids : gatewayProcs'[p] \in G!Gateway =>
           \/ gatewayFile' = p
           \/ gatewayProcs[p] \in G!Gateway /\ gatewayFile # p /\ ~Enters(k, p)
    BY <2>1, <2>4, PidAssumption DEF Enters
  <2> HIDE DEF new
  <2> QED
    BY <1>1, <2>1, <2>2, <2>3, <2>4, <2>5, CommandMoves
<1>9. CASE G!Recheck(c) \/ G!Waited(c) \/ G!Killed(c)
  <2>1. PICK pc \in {"term", "kill", "report", "clear"} :
           /\ k.pc \in {"recheck", "term_wait", "kill_wait"} /\ G!Goto(c, pc)
           /\ UNCHANGED <<gatewayFile, gatewayProcs>>
           /\ pc \in {"term", "kill"} => G!Running(k.pid)
           /\ pc = "clear" => ~G!Running(k.pid)
    BY <1>9 DEF G!Recheck, G!Waited, G!Killed, G!At
  <2>2. G!Running(k.pid) => k.pid \in GatewayPids
    BY DEF G!Running
  <2> QED
    BY <1>1, <2>1, <2>2, CommandGoesOn DEF Informed, Stopping
<1>10. CASE G!Terminate(c)
  <2>1. /\ k.pc = "term" /\ UNCHANGED gatewayFile
        /\ k.pid \in GatewayPids
    BY <1>1, <1>10 DEF G!Terminate, G!At, Stopping
  <2>2. CASE UNCHANGED gatewayProcs
    <3>1. \/ G!Goto(c, "term_wait")
          \/ G!Goto(c, "clear") /\ gatewayProcs[k.pid] \notin G!Gateway
      BY <1>1, <1>10, <2>1, <2>2 DEF G!Terminate, G!Gateway
    <3> QED
      BY <2>1, <2>2, <3>1, CommandGoesOn DEF Informed, Stopping
  <2>3. CASE ~UNCHANGED gatewayProcs
    <3> DEFINE new == [k EXCEPT !.pc = "term_wait"]
    <3>1. PICK state \in {"closing", "free"} :
             /\ gatewayProcs' = [gatewayProcs EXCEPT ![k.pid] = state]
             /\ state = "closing" => gatewayProcs[k.pid] = "serving"
             /\ G!Goto(c, "term_wait")
      BY <1>10, <2>3 DEF G!Terminate
    <3>2. gatewayCmds' = [gatewayCmds EXCEPT ![c] = new]
      BY <1>1, <3>1 DEF G!Goto
    <3>3. /\ new \in CommandRecord /\ new.pc = "term_wait" /\ new.goal = k.goal
          /\ new.pid = k.pid
      BY <1>1 DEF CommandRecord, Informed, Launching
    <3>4. /\ gatewayProcs' \in [GatewayPids -> ProcessStates]
          /\ \A p \in GatewayPids :
                gatewayProcs'[p] \in G!Gateway => gatewayProcs[p] \in G!Gateway
      BY <1>1, <2>1, <3>1 DEF ProcessStates, G!Gateway
    <3>5. Knows(new, gatewayFile', gatewayProcs')
      BY <1>1, <2>1, <3>3 DEF Knows, Informed, Launching, Stopping
    <3>6. \A p \in GatewayPids : ~Enters(k, p)
      BY <2>1 DEF Enters
    <3> HIDE DEF new
    <3> QED
      BY <1>1, <2>1, <3>2, <3>3, <3>4, <3>5, <3>6, CommandMoves
  <2> QED
    BY <2>2, <2>3
<1>11. CASE G!Kill(c)
  <2> DEFINE new == [k EXCEPT !.pc = "kill_wait"]
  <2>1. /\ k.pc = "kill" /\ UNCHANGED gatewayFile /\ k.pid \in GatewayPids
        /\ gatewayCmds' = [gatewayCmds EXCEPT ![c] = new]
        /\ gatewayProcs' = [gatewayProcs EXCEPT
              ![k.pid] = IF @ \in G!Gateway THEN "dying" ELSE @]
    BY <1>1, <1>11 DEF G!Kill, G!At, G!Goto, Stopping
  <2>2. /\ new \in CommandRecord /\ new.pc = "kill_wait" /\ new.goal = k.goal
        /\ new.pid = k.pid
    BY <1>1 DEF CommandRecord, Informed, Launching
  <2>3. /\ gatewayProcs' \in [GatewayPids -> ProcessStates]
        /\ \A p \in GatewayPids :
              gatewayProcs'[p] \in G!Gateway => gatewayProcs[p] \in G!Gateway
    BY <1>1, <2>1 DEF ProcessStates, G!Gateway
  <2>4. Knows(new, gatewayFile', gatewayProcs')
    BY <1>1, <2>1, <2>2 DEF Knows, Informed, Launching, Stopping
  <2>5. \A p \in GatewayPids : ~Enters(k, p)
    BY <2>1 DEF Enters
  <2> HIDE DEF new
  <2> QED
    BY <1>1, <2>1, <2>2, <2>3, <2>4, <2>5, CommandMoves
<1>12. CASE G!Clear(c)
  <2>1. k.pc = "clear" /\ gatewayFile' = "none"
    BY <1>12 DEF G!Clear, G!At, G!NoPid
  <2>2. \A p \in GatewayPids : gatewayProcs[p] \in G!Gateway => gatewayFile # p
    BY <1>1, <2>1, PidAssumption DEF Informed
  <2>3. CASE G!End(c)
    BY <2>1, <2>2, <2>3, CommandEnds
  <2>4. CASE ~G!End(c)
    <3> DEFINE new == [k EXCEPT !.pc = "read", !.pid = "none"]
    <3>1. /\ gatewayCmds' = [gatewayCmds EXCEPT ![c] = new]
          /\ UNCHANGED gatewayProcs
      BY <1>1, <1>12, <2>4 DEF G!Clear, G!NoPid
    <3>2. new \in CommandRecord /\ new.pc = "read" /\ new.goal = k.goal
      BY <1>1 DEF CommandRecord, Informed, Launching
    <3>3. Knows(new, gatewayFile', gatewayProcs')
      BY <3>2 DEF Knows, Informed, Launching, Stopping
    <3>4. \A p \in GatewayPids : ~Enters(k, p)
      BY <2>1 DEF Enters
    <3> HIDE DEF new
    <3> QED
      BY <1>1, <2>1, <2>2, <3>1, <3>2, <3>3, <3>4, CommandMoves
  <2> QED
    BY <2>3, <2>4
<1>13. CASE G!Interrupt(c)
  <2>1. G!End(c) /\ UNCHANGED gatewayFile
    BY <1>13 DEF G!Interrupt
  <2>2. CASE k.pc \in {"confirm", "write"}
    <3>1. gatewayDisturbed'
      BY <1>13, <2>2 DEF G!Interrupt
    <3>2. G!NoCommand \in CommandRecord
      BY DEF G!NoCommand, G!NoPid, CommandRecord
    <3> QED
      BY <1>1, <2>1, <3>1, <3>2, ReapedKeeps DEF GatewayInv, G!End
  <2>3. CASE k.pc \notin {"confirm", "write"}
    BY <2>1, <2>3, CommandEnds
  <2> QED
    BY <2>2, <2>3
<1> QED
  BY <1>2, <1>3, <1>4, <1>5, <1>6, <1>7, <1>8, <1>9, <1>10, <1>11, <1>12, <1>13

\* Every step of the commands and of the processes keeps the invariant.
LEMMA GatewayStep == GatewayInv /\ [G!Next]_G!vars => GatewayInv'
<1> SUFFICES ASSUME GatewayInv, [G!Next]_G!vars PROVE GatewayInv'
  OBVIOUS
<1>1. CASE UNCHANGED G!vars
  BY <1>1 DEF G!vars, GatewayInv, Alone
\* No process becomes a gateway by itself.
<1>2. ASSUME NEW p \in GatewayPids, G!Ends(p) \/ G!Others(p) PROVE GatewayInv'
  <2>1. UNCHANGED <<gatewayFile, gatewayCmds, gatewayDisturbed>>
    BY <1>2 DEF G!Ends, G!Others
  <2>2. /\ gatewayProcs' \in [GatewayPids -> ProcessStates]
        /\ \A q \in GatewayPids :
              gatewayProcs'[q] \in G!Gateway => gatewayProcs[q] \in G!Gateway
    BY <1>2 DEF GatewayInv, G!Ends, G!Others, G!Remains, G!Gateway, ProcessStates
  <2>3. \A k : Knows(k, gatewayFile, gatewayProcs) =>
                  Knows(k, gatewayFile', gatewayProcs')
    BY <2>1, <2>2 DEF Knows
  <2> QED
    BY <2>1, <2>2, <2>3 DEF GatewayInv, Alone
<1> QED
  BY <1>1, <1>2, CommandStep DEF G!Next

-----------------------------------------------------------------------------
(* The first states of the gateway, and what the invariants say.           *)

LEMMA GatewayInit == G!Init => GatewayInv
BY DEF G!Init, G!NoCommand, G!NoPid, G!Gateway, GatewayInv, ProcessStates,
       CommandRecord, Informed, Launching, Stopping, Knows

LEMMA HostHolds ==
    /\ HooksInv => H!GoneIsQuiet
    /\ JobsInv => S!TriggeredOnce
    /\ GatewayInv => G!BackgroundIsTracked
BY DEF HooksInv, JobsInv, JobOrder, GatewayInv, Enters, G!BackgroundIsTracked

-----------------------------------------------------------------------------
(* The configuration: what the service has is what the file has, or it     *)
(* will see by the stamp that it is not.                                   *)

ConfigTypes ==
    /\ configFile = [content |-> configFile.content, stamp |-> configFile.stamp, last |-> configFile.last]
    /\ configFile.last \in Nat
    /\ configFile.stamp = IF configFile.content = F!Empty THEN F!Gone ELSE configFile.last
    /\ agentFile = [content |-> agentFile.content, stamp |-> agentFile.stamp] /\ agentFile.stamp \in Nat
    /\ configService = [value |-> configService.value, hash |-> configService.hash,
                        stamp |-> configService.stamp, revision |-> configService.revision]
    /\ configService.stamp \in Nat /\ configService.revision \in Nat
    /\ configService.stamp <= configFile.last
    /\ configOp = [pc |-> configOp.pc, stamp |-> configOp.stamp, load |-> configOp.load]
    /\ configOp.pc \in {"closed", "opening", "idle", "reload", "readback", "sign", "stat", "build"}
    /\ configOp.stamp \in Nat /\ configTasks \in Seq(Nat)
    /\ configMissed \in BOOLEAN /\ configOvertaken \in BOOLEAN

\* The service has the content that has its stamp; while it reads what it has
\* just written, or opens the file, that is the content of now.
FileIsKnown ==
    /\ configOp.pc = "reload" => configOp.stamp <= configFile.last
    /\ configOp.pc = "readback" => configService.value \in F!Value
    /\ ~configMissed =>
          /\ configOp.pc \in {"opening", "readback", "sign"} => configService.value = configFile.content
          /\ configOp.pc \notin {"closed", "readback"} => configService.hash = configService.value
          /\ /\ configOp.pc \in {"idle", "reload", "stat", "build"}
             /\ configService.stamp = configFile.stamp /\ configFile.content \in F!Value
             => configService.value = configFile.content

\* What is cached was built from a revision and a file of the agent that there
\* have been, and from those of now if the signature is the one of now.
CacheIsKnown ==
    LET sig == configCache.sig
    IN  \/ sig = <<>>
        \/ /\ sig = <<sig[1], sig[2], sig[3]>> /\ sig[1] \in Nat /\ sig[3] \in Nat
           /\ sig[1] <= configService.revision /\ sig[3] <= agentFile.stamp
           /\ configOp.pc \notin {"closed", "opening"}
           /\ configOp.pc \notin {"readback", "sign"} /\ sig = F!Signature(agentFile.stamp)
              => configCache.config = <<configService.value, agentFile.content>>

\* The watchers have been told of the newest revision, or a task will tell them.
NewestIsTold ==
    ~configOvertaken =>
       IF configTasks = <<>> THEN configTold = configService.revision
       ELSE configTasks[Len(configTasks)] = configService.revision

ConfigInv ==
    /\ ConfigTypes /\ FileIsKnown /\ CacheIsKnown /\ NewestIsTold
    /\ configOp.pc = "build" => configOp.stamp <= agentFile.stamp

\* No content is what another kind of content is.
LEMMA ConfigContents ==
    /\ \A v : <<v, v>> # <<>>
    /\ F!Bad \notin F!Value /\ F!Bad # <<>> /\ <<>> \notin F!Value
<1>1. \A x \in F!Value : Len(x) = 2
  BY DEF F!Value
<1>2. Len(F!Bad) = 1 /\ Len(<<>>) = 0 /\ \A v : Len(<<v, v>>) = 2
  BY DEF F!Bad
<1> QED BY <1>1, <1>2

LEMMA ConfigInit == F!Init => ConfigInv
<1> SUFFICES ASSUME F!Init PROVE ConfigInv
  OBVIOUS
<1>1. /\ configFile = [content |-> configFile.content, stamp |-> 1, last |-> 1]
      /\ configFile.content # F!Empty
  <2>1. PICK c : /\ configFile = [content |-> c, stamp |-> 1, last |-> 1]
                 /\ (\E v : c = <<v, v>>) \/ c = F!Bad
    BY DEF F!Init
  <2>2. c # F!Empty
    BY <2>1, ConfigContents DEF F!Empty
  <2> QED BY <2>1, <2>2
<1>2. /\ configOp = [pc |-> "closed", stamp |-> 0, load |-> FALSE]
      /\ configService = [value |-> <<>>, hash |-> <<>>, stamp |-> 0, revision |-> 0]
      /\ configCache.sig = <<>> /\ configTasks = <<>> /\ configTold = 0
      /\ configMissed = FALSE /\ configOvertaken = FALSE
  BY DEF F!Init, F!NoOp, F!Gone, F!Empty
<1>3. agentFile = [content |-> agentFile.content, stamp |-> agentFile.stamp] /\ agentFile.stamp = 1
  BY DEF F!Init
<1>4. ConfigTypes
  <2>1. configFile.stamp = 1 /\ configFile.last = 1
    BY <1>1
  <2>2. configService = [value |-> configService.value, hash |-> configService.hash,
                         stamp |-> configService.stamp, revision |-> configService.revision]
        /\ configService.stamp = 0 /\ configService.revision = 0
    BY <1>2
  <2>3. configOp = [pc |-> configOp.pc, stamp |-> configOp.stamp, load |-> configOp.load]
        /\ configOp.pc = "closed" /\ configOp.stamp = 0
    BY <1>2
  <2>4. configTasks \in Seq(Nat)
    BY <1>2
  <2>5. configMissed \in BOOLEAN /\ configOvertaken \in BOOLEAN
    BY <1>2
  <2>6. configFile.stamp = IF configFile.content = F!Empty THEN F!Gone ELSE configFile.last
    BY <1>1, <2>1
  <2>7. configFile = [content |-> configFile.content, stamp |-> configFile.stamp, last |-> configFile.last]
        /\ configFile.last \in Nat /\ configService.stamp <= configFile.last
    BY <1>1, <2>1, <2>2
  <2> QED BY <1>3, <2>2, <2>3, <2>4, <2>5, <2>6, <2>7 DEF ConfigTypes
<1> QED
  BY <1>1, <1>2, <1>4 DEF ConfigInv, FileIsKnown, CacheIsKnown, NewestIsTold

LEMMA ConfigSaid == ConfigInv => F!ConfigFollowsFile
<1> SUFFICES ASSUME ConfigInv, configOp.pc = "idle" PROVE F!ConfigFollowsFile
  BY DEF F!ConfigFollowsFile, F!Idle
<1>1. configCache.sig = F!Signature(agentFile.stamp) => configCache.sig # <<>>
  BY DEF F!Signature
<1> QED
  BY <1>1 DEF ConfigInv, FileIsKnown, CacheIsKnown, NewestIsTold, F!ConfigFollowsFile

\* Steps that leave the service's content and the cache as they are.
LEMMA CacheStays ==
    ASSUME ConfigInv, UNCHANGED configCache, agentFile'.stamp \in Nat, configService'.revision \in Nat,
           UNCHANGED agentFile \/ agentFile.stamp < agentFile'.stamp,
           \/ /\ UNCHANGED <<configService.value, configService.hash, configService.revision>>
              /\ configOp.pc \in {"readback", "sign"} => configOp'.pc \in {"readback", "sign"}
           \/ /\ UNCHANGED configService.revision
              /\ configOp'.pc \in {"readback", "sign"}
           \/ configService.revision < configService'.revision,
           configOp.pc \notin {"closed", "opening"} => configOp'.pc \notin {"closed", "opening"}
    PROVE  CacheIsKnown'
<1>1. agentFile.stamp \in Nat /\ configService.revision \in Nat /\ CacheIsKnown
  BY DEF ConfigInv, ConfigTypes
<1>2. F!Signature(agentFile.stamp)' = <<configService'.revision, configService'.hash, agentFile'.stamp>>
  BY DEF F!Signature
<1>3. CASE configCache.sig = <<>>
  BY <1>3 DEF CacheIsKnown
<1>4. CASE configCache.sig # <<>>
  <2> DEFINE sig == configCache.sig
  <2>1. /\ sig = <<sig[1], sig[2], sig[3]>> /\ sig[1] \in Nat /\ sig[3] \in Nat
        /\ sig[1] <= configService.revision /\ sig[3] <= agentFile.stamp
        /\ configOp.pc \notin {"closed", "opening"}
        /\ configOp.pc \notin {"readback", "sign"}
           /\ sig = <<configService.revision, configService.hash, agentFile.stamp>>
              => configCache.config = <<configService.value, agentFile.content>>
    BY <1>1, <1>4 DEF CacheIsKnown, F!Signature
  <2>2. sig[1] <= configService'.revision /\ sig[3] <= agentFile'.stamp
    BY <1>1, <2>1
  <2>3. ASSUME configOp'.pc \notin {"readback", "sign"},
               sig = <<configService'.revision, configService'.hash, agentFile'.stamp>>
        PROVE  configCache.config = <<configService'.value, agentFile'.content>>
    BY <1>1, <2>1, <2>3
  <2> QED BY <1>2, <2>1, <2>2, <2>3 DEF CacheIsKnown
<1> QED BY <1>3, <1>4

LEMMA ConfigStep == ConfigInv /\ [F!Next]_F!vars => ConfigInv'
<1> SUFFICES ASSUME ConfigInv, [F!Next]_F!vars PROVE ConfigInv'
  OBVIOUS
<1> USE DEF F!Gone, F!Empty
<1>0. /\ ConfigTypes /\ FileIsKnown /\ NewestIsTold
      /\ configOp.pc = "build" => configOp.stamp <= agentFile.stamp
  BY DEF ConfigInv
<1>b. F!Bad \notin F!Value /\ F!Bad # <<>> /\ <<>> \notin F!Value
  BY ConfigContents
<1>1. CASE UNCHANGED F!vars
  BY <1>1 DEF F!vars, ConfigInv, ConfigTypes, FileIsKnown, CacheIsKnown, NewestIsTold, F!Signature
<1>2. CASE F!EditsFile
  <2>1. UNCHANGED <<agentFile, configService, configOp, configTasks, configTold, configCache, configOvertaken>>
    BY <1>2 DEF F!EditsFile
  <2>2. PICK c : /\ c # configFile.content
                 /\ configFile' = IF c = F!Empty THEN [configFile EXCEPT !.content = F!Empty, !.stamp = F!Gone]
                                                 ELSE F!Written(c)
    BY <1>2 DEF F!EditsFile
  <2>3. configMissed' = (configMissed \/ configOp.pc \in {"opening", "readback", "sign"})
    BY <1>2 DEF F!EditsFile
  <2>4. /\ configFile' = [content |-> configFile'.content, stamp |-> configFile'.stamp, last |-> configFile'.last]
        /\ configFile'.last \in Nat /\ configFile.last <= configFile'.last /\ configFile'.content = c
        /\ c = <<>> => configFile'.stamp = 0
        /\ c # <<>> => configFile'.stamp = configFile.last + 1 /\ configFile'.last = configFile.last + 1
    <3>1. CASE c = <<>>
      <4>1. configFile' = [content |-> <<>>, stamp |-> 0, last |-> configFile.last]
        BY <1>0, <2>2, <3>1 DEF ConfigTypes
      <4> QED BY <1>0, <3>1, <4>1 DEF ConfigTypes
    <3>2. CASE c # <<>>
      <4>1. configFile' = [content |-> c, stamp |-> configFile.last + 1, last |-> configFile.last + 1]
        BY <2>2, <3>2 DEF F!Written
      <4> QED BY <1>0, <3>2, <4>1 DEF ConfigTypes
    <3> QED BY <3>1, <3>2
  <2>5. ConfigTypes'
    BY <1>0, <2>1, <2>3, <2>4 DEF ConfigTypes
  <2>6. FileIsKnown'
    <3>1. ASSUME ~configMissed' PROVE ~configMissed /\ configOp.pc \notin {"opening", "readback", "sign"}
      BY <2>3, <3>1
    <3>2. ASSUME configService.stamp = configFile'.stamp, configFile'.content \in F!Value PROVE FALSE
      <4>1. c # <<>>
        BY <1>b, <2>4, <3>2
      <4>2. configService.stamp \in Nat /\ configFile.last \in Nat /\ configService.stamp <= configFile.last
        BY <1>0 DEF ConfigTypes
      <4> QED BY <2>4, <3>2, <4>1, <4>2
    <3>3. configOp.pc = "reload" => configOp.stamp <= configFile'.last
      BY <1>0, <2>4 DEF FileIsKnown, ConfigTypes
    <3> QED BY <1>0, <2>1, <3>1, <3>2, <3>3 DEF FileIsKnown
  <2>7. CacheIsKnown'
    BY <1>0, <2>1, CacheStays DEF ConfigTypes
  <2> QED BY <1>0, <2>1, <2>5, <2>6, <2>7 DEF ConfigInv, NewestIsTold
<1>3. CASE F!EditsAgent
  <2>1. /\ UNCHANGED <<configFile, configService, configOp, configTasks, configTold, configCache, configMissed,
                       configOvertaken>>
        /\ agentFile' = [content |-> agentFile'.content, stamp |-> agentFile'.stamp]
        /\ agentFile'.stamp = agentFile.stamp + 1
    BY <1>3 DEF F!EditsAgent
  <2>2. agentFile'.stamp \in Nat /\ agentFile.stamp < agentFile'.stamp
    BY <1>0, <2>1 DEF ConfigTypes
  <2>3. CacheIsKnown'
    BY <1>0, <2>1, <2>2, CacheStays DEF ConfigTypes
  <2>4. ConfigTypes' /\ FileIsKnown' /\ NewestIsTold'
    BY <1>0, <2>1, <2>2 DEF ConfigTypes, FileIsKnown, NewestIsTold
  <2> QED BY <1>0, <2>1, <2>2, <2>3, <2>4 DEF ConfigInv, ConfigTypes
<1>4. CASE F!Open
  <2>1. /\ UNCHANGED <<configFile, agentFile, configTasks, configTold, configCache, configMissed, configOvertaken>>
        /\ configOp.pc = "closed"
        /\ configService' = [configService EXCEPT !.value = configFile.content, !.hash = configFile.content]
        /\ configOp' = [configOp EXCEPT !.pc = "opening"]
    BY <1>4 DEF F!Open
  <2>2. /\ configService' = [value |-> configFile.content, hash |-> configFile.content,
                             stamp |-> configService.stamp, revision |-> configService.revision]
        /\ configOp' = [pc |-> "opening", stamp |-> configOp.stamp, load |-> configOp.load]
    BY <1>0, <2>1 DEF ConfigTypes
  <2>3. configCache.sig = <<>>
    BY <2>1 DEF ConfigInv, CacheIsKnown
  <2> QED BY <1>0, <2>1, <2>2, <2>3 DEF ConfigInv, ConfigTypes, FileIsKnown, CacheIsKnown, NewestIsTold
<1>5. CASE F!Opened
  <2>1. /\ UNCHANGED <<configFile, agentFile, configTasks, configTold, configCache, configMissed, configOvertaken>>
        /\ configOp.pc = "opening"
        /\ configService' = [configService EXCEPT !.stamp = configFile.stamp]
        /\ configOp' = [pc |-> "idle", stamp |-> 0, load |-> FALSE]
    BY <1>5 DEF F!Opened, F!NoOp
  <2>2. /\ configService' = [value |-> configService.value, hash |-> configService.hash,
                             stamp |-> configFile.stamp, revision |-> configService.revision]
        /\ configFile.stamp \in Nat /\ configFile.stamp <= configFile.last
    BY <1>0, <2>1 DEF ConfigTypes
  <2>3. configCache.sig = <<>>
    BY <2>1 DEF ConfigInv, CacheIsKnown
  <2> QED BY <1>0, <2>1, <2>2, <2>3 DEF ConfigInv, ConfigTypes, FileIsKnown, CacheIsKnown, NewestIsTold
<1>6. CASE F!Poll
  <2>1. /\ UNCHANGED <<configFile, agentFile, configTasks, configTold, configCache, configMissed, configOvertaken>>
        /\ configOp.pc = "idle"
    BY <1>6 DEF F!Poll
  <2>2. PICK load \in BOOLEAN :
           \/ /\ configFile.stamp \in {configService.stamp, 0}
              /\ configOp' = [pc |-> IF load THEN "stat" ELSE "idle", stamp |-> 0, load |-> FALSE]
              /\ configService' = [configService EXCEPT !.stamp = configFile.stamp]
           \/ /\ configOp' = [pc |-> "reload", stamp |-> configFile.stamp, load |-> load]
              /\ UNCHANGED configService
    BY <1>6 DEF F!Poll, F!NoOp
  <2>3. configFile.stamp \in Nat /\ configFile.stamp <= configFile.last
    BY <1>0 DEF ConfigTypes
  <2>4. /\ configService' = [value |-> configService.value, hash |-> configService.hash,
                             stamp |-> configService'.stamp, revision |-> configService.revision]
        /\ configService'.stamp \in {configService.stamp, configFile.stamp}
        /\ configService'.stamp = configService.stamp \/ configFile.stamp = 0
    BY <1>0, <2>2 DEF ConfigTypes
  <2>5. /\ configOp' = [pc |-> configOp'.pc, stamp |-> configOp'.stamp, load |-> configOp'.load]
        /\ configOp'.pc \in {"idle", "stat", "reload"} /\ configOp'.stamp \in {0, configFile.stamp}
    BY <2>2
  <2>6. configFile.content \in F!Value => configFile.stamp = configFile.last /\ configFile.content # <<>>
    BY <1>0, <1>b DEF ConfigTypes
  <2>7. ConfigTypes'
    BY <1>0, <2>1, <2>3, <2>4, <2>5 DEF ConfigTypes
  <2>8. FileIsKnown'
    <3>1. configService'.stamp = configFile.stamp /\ configFile.content \in F!Value
             => configService.stamp = configFile.stamp \/ configFile.last = 0
      BY <2>4, <2>6
    <3>2. configFile.last = 0 => configService.stamp = configFile.stamp
      BY <1>0 DEF ConfigTypes
    <3>3. configOp'.pc = "reload" => configOp'.stamp <= configFile.last
      BY <2>3, <2>5, <1>0 DEF ConfigTypes
    <3>4. configService'.value = configService.value /\ configService'.hash = configService.hash
      BY <2>4
    <3>5. ~configMissed /\ configService'.stamp = configFile.stamp /\ configFile.content \in F!Value
             => configService.value = configFile.content
      BY <1>0, <2>1, <3>1, <3>2 DEF FileIsKnown
    <3>6. ~configMissed => configService.hash = configService.value
      BY <1>0, <2>1 DEF FileIsKnown
    <3> QED BY <2>1, <2>5, <3>3, <3>4, <3>5, <3>6 DEF FileIsKnown
  <2>9. CacheIsKnown'
    BY <1>0, <2>1, <2>4, <2>5, CacheStays DEF ConfigTypes
  <2> QED BY <1>0, <2>1, <2>4, <2>5, <2>7, <2>8, <2>9 DEF ConfigInv, NewestIsTold
<1>7. CASE F!Reload
  <2>1. /\ UNCHANGED <<configFile, agentFile, configTold, configCache, configMissed, configOvertaken>>
        /\ configOp.pc = "reload"
        /\ configOp' = [pc |-> IF configOp.load THEN "stat" ELSE "idle", stamp |-> 0, load |-> FALSE]
    BY <1>7 DEF F!Reload, F!After, F!NoOp
  <2>2. /\ configOp' = [pc |-> configOp'.pc, stamp |-> configOp'.stamp, load |-> configOp'.load]
        /\ configOp'.pc \in {"idle", "stat"} /\ configOp'.stamp = 0
    BY <2>1
  <2>3. CASE configFile.content \in {F!Bad, configService.hash}
    <3>1. /\ configService' = [value |-> configService.value, hash |-> configService.hash,
                               stamp |-> configOp.stamp, revision |-> configService.revision]
          /\ UNCHANGED configTasks
      BY <1>0, <1>7, <2>3 DEF F!Reload, ConfigTypes
    <3>2. ConfigTypes' /\ FileIsKnown' /\ NewestIsTold'
      BY <1>0, <1>b, <2>1, <2>2, <2>3, <3>1 DEF ConfigTypes, FileIsKnown, NewestIsTold
    <3>3. CacheIsKnown'
      BY <1>0, <2>1, <2>2, <3>1, CacheStays DEF ConfigTypes
    <3> QED BY <2>2, <3>2, <3>3 DEF ConfigInv
  <2>4. CASE configFile.content \notin {F!Bad, configService.hash}
    <3>1. /\ configService' = [value |-> configFile.content, hash |-> configFile.content,
                               stamp |-> configOp.stamp, revision |-> configService.revision + 1]
          /\ configTasks' = Append(configTasks, configService'.revision)
      BY <1>0, <1>7, <2>4 DEF F!Reload, ConfigTypes
    <3>2. configService'.revision \in Nat /\ configTasks \in Seq(Nat)
      BY <1>0, <3>1 DEF ConfigTypes
    <3>3. /\ configTasks' \in Seq(Nat) /\ configTasks' # <<>>
          /\ configTasks'[Len(configTasks')] = configService'.revision
      BY <3>1, <3>2
    <3>4. ConfigTypes' /\ FileIsKnown' /\ NewestIsTold'
      BY <1>0, <2>1, <2>2, <3>1, <3>2, <3>3 DEF ConfigTypes, FileIsKnown, NewestIsTold
    <3>5. CacheIsKnown'
      BY <1>0, <2>1, <2>2, <3>1, CacheStays DEF ConfigTypes
    <3> QED BY <2>2, <3>4, <3>5 DEF ConfigInv
  <2> QED BY <2>3, <2>4
<1>8. CASE F!Notify
  <2>1. /\ UNCHANGED <<configFile, agentFile, configService, configOp, configCache, configMissed, configOvertaken>>
        /\ configTasks # <<>> /\ configTold' = Head(configTasks) /\ configTasks' = Tail(configTasks)
    BY <1>8 DEF F!Notify
  <2>2. configTasks \in Seq(Nat)
    BY <1>0 DEF ConfigTypes
  <2>3. /\ configTasks' \in Seq(Nat)
        /\ configTasks' = <<>> => configTold' = configTasks[Len(configTasks)]
        /\ configTasks' # <<>> => configTasks'[Len(configTasks')] = configTasks[Len(configTasks)]
    <3>1. /\ configTasks' \in Seq(Nat) /\ Len(configTasks) \in Nat /\ Len(configTasks) # 0
          /\ Len(configTasks') = Len(configTasks) - 1
          /\ \A i \in 1 .. Len(configTasks) - 1 : configTasks'[i] = configTasks[i + 1]
      BY <2>1, <2>2
    <3>2. configTasks' = <<>> => Len(configTasks) = 1
      BY <3>1
    <3>3. configTasks' # <<>> => Len(configTasks') # 0
      BY <3>1, SMTT(30)
    <3>4. configTold' = configTasks[1]
      BY <2>1
    <3>5. Len(configTasks') # 0 => configTasks'[Len(configTasks')] = configTasks[Len(configTasks)]
      <4>1. Len(configTasks') # 0 => Len(configTasks) - 1 \in 1 .. Len(configTasks) - 1
        BY <3>1
      <4> QED BY <3>1, <4>1
    <3> QED BY <3>1, <3>2, <3>3, <3>4, <3>5
  <2>4. ConfigTypes' /\ FileIsKnown' /\ NewestIsTold'
    BY <1>0, <2>1, <2>3 DEF ConfigTypes, FileIsKnown, NewestIsTold
  <2>5. CacheIsKnown'
    BY <1>0, <2>1, CacheStays DEF ConfigTypes
  <2> QED BY <1>0, <2>1, <2>4, <2>5 DEF ConfigInv
<1>9. CASE F!Commit
  <2>1. /\ UNCHANGED <<agentFile, configTasks, configTold, configCache, configMissed, configOvertaken>>
        /\ configOp.pc = "idle"
        /\ configOp' = [pc |-> "readback", stamp |-> 0, load |-> FALSE]
    BY <1>9 DEF F!Commit, F!NoOp
  <2>2. PICK v \in F!Value : /\ configFile' = [content |-> v, stamp |-> configFile.last + 1,
                                               last |-> configFile.last + 1]
                             /\ configService' = [configService EXCEPT !.value = v]
    BY <1>9 DEF F!Commit, F!Written
  <2>3. configService' = [value |-> v, hash |-> configService.hash, stamp |-> configService.stamp,
                          revision |-> configService.revision]
    BY <1>0, <2>2 DEF ConfigTypes
  <2>4. v # <<>>
    BY <1>b
  <2>5. /\ configFile' = [content |-> configFile'.content, stamp |-> configFile'.stamp, last |-> configFile'.last]
        /\ configFile'.content = v /\ configFile'.stamp = configFile'.last
        /\ configFile'.last = configFile.last + 1
    BY <2>2
  <2>6. configOp' = [pc |-> configOp'.pc, stamp |-> configOp'.stamp, load |-> configOp'.load]
        /\ configOp'.pc = "readback" /\ configOp'.stamp = 0
    BY <2>1
  <2>7. ConfigTypes'
    BY <1>0, <2>1, <2>3, <2>4, <2>5, <2>6 DEF ConfigTypes
  <2>8. FileIsKnown' /\ NewestIsTold'
    BY <1>0, <2>1, <2>3, <2>5, <2>6 DEF FileIsKnown, NewestIsTold
  <2>9. CacheIsKnown'
    BY <1>0, <2>1, <2>3, CacheStays DEF ConfigTypes
  <2> QED BY <2>1, <2>7, <2>8, <2>9 DEF ConfigInv
<1>10. CASE F!ReadBack
  <2>1. /\ UNCHANGED <<configFile, agentFile, configTasks, configTold, configCache, configMissed, configOvertaken>>
        /\ configOp.pc = "readback" /\ configOp' = [configOp EXCEPT !.pc = "sign"]
        /\ configService' = [configService EXCEPT !.hash = IF configFile.content = F!Bad THEN F!Empty
                                                                                      ELSE configFile.content]
    BY <1>10 DEF F!ReadBack
  <2>2. /\ configService' = [value |-> configService.value, hash |-> configService'.hash,
                             stamp |-> configService.stamp, revision |-> configService.revision]
        /\ configOp' = [pc |-> "sign", stamp |-> configOp.stamp, load |-> configOp.load]
    BY <1>0, <2>1 DEF ConfigTypes
  <2>3. CacheIsKnown'
    BY <1>0, <2>1, <2>2, CacheStays DEF ConfigTypes
  <2>4. configService'.hash = IF configFile.content = F!Bad THEN F!Empty ELSE configFile.content
    BY <1>0, <2>1 DEF ConfigTypes
  <2>5. FileIsKnown' /\ NewestIsTold'
    BY <1>0, <1>b, <2>1, <2>2, <2>4 DEF FileIsKnown, NewestIsTold
  <2> QED BY <1>0, <2>1, <2>2, <2>3, <2>5 DEF ConfigInv, ConfigTypes
<1>11. CASE F!Sign
  <2>1. /\ UNCHANGED <<configFile, agentFile, configTasks, configCache, configMissed>>
        /\ configOp.pc = "sign" /\ configOp' = [pc |-> "idle", stamp |-> 0, load |-> FALSE]
        /\ configService' = [configService EXCEPT !.stamp = configFile.stamp, !.revision = @ + 1]
        /\ configTold' = configService'.revision
        /\ configOvertaken' = (configOvertaken \/ configTasks # <<>>)
    BY <1>11 DEF F!Sign, F!NoOp
  <2>2. /\ configService' = [value |-> configService.value, hash |-> configService.hash,
                             stamp |-> configFile.stamp, revision |-> configService.revision + 1]
        /\ configService.revision \in Nat /\ configService.revision < configService'.revision
    <3>1. configService = [value |-> configService.value, hash |-> configService.hash,
                           stamp |-> configService.stamp, revision |-> configService.revision]
          /\ configService.revision \in Nat
      BY <1>0 DEF ConfigTypes
    <3>2. configService' = [value |-> configService.value, hash |-> configService.hash,
                            stamp |-> configFile.stamp, revision |-> configService.revision + 1]
      BY <2>1, <3>1
    <3>3. configService'.revision = configService.revision + 1
      BY <3>2
    <3> QED BY <3>1, <3>2, <3>3
  <2>3. configOp' = [pc |-> configOp'.pc, stamp |-> configOp'.stamp, load |-> configOp'.load]
        /\ configOp'.pc = "idle" /\ configOp'.stamp = 0
    BY <2>1
  <2>4. configFile.stamp \in Nat /\ configFile.stamp <= configFile.last
    BY <1>0 DEF ConfigTypes
  <2>5. configOvertaken' \in BOOLEAN
    BY <1>0, <2>1 DEF ConfigTypes
  <2>6. ConfigTypes'
    <3>1. /\ configService' = [value |-> configService'.value, hash |-> configService'.hash,
                               stamp |-> configService'.stamp, revision |-> configService'.revision]
          /\ configService'.stamp = configFile.stamp /\ configService'.revision \in Nat
      BY <2>2
    <3> QED BY <1>0, <2>1, <2>3, <2>4, <2>5, <3>1 DEF ConfigTypes
  <2>7. FileIsKnown' /\ NewestIsTold'
    BY <1>0, <2>1, <2>2, <2>3 DEF FileIsKnown, NewestIsTold
  <2>8. CacheIsKnown'
    BY <1>0, <2>1, <2>2, <2>3, CacheStays DEF ConfigTypes
  <2> QED BY <2>3, <2>6, <2>7, <2>8 DEF ConfigInv
<1>12. CASE F!Stat
  <2>1. /\ UNCHANGED <<configFile, agentFile, configService, configTasks, configTold, configCache, configMissed,
                       configOvertaken>>
        /\ configOp.pc = "stat" /\ configOp' = [configOp EXCEPT !.pc = "build", !.stamp = agentFile.stamp]
    BY <1>12 DEF F!Stat
  <2>2. configOp' = [pc |-> "build", stamp |-> agentFile.stamp, load |-> configOp.load]
    BY <1>0, <2>1 DEF ConfigTypes
  <2>3. CacheIsKnown'
    BY <1>0, <2>1, <2>2, CacheStays DEF ConfigTypes
  <2>4. /\ configOp' = [pc |-> configOp'.pc, stamp |-> configOp'.stamp, load |-> configOp'.load]
        /\ configOp'.pc = "build" /\ configOp'.stamp = agentFile.stamp
        /\ agentFile.stamp \in Nat /\ agentFile.stamp <= agentFile.stamp
    BY <1>0, <2>2 DEF ConfigTypes
  <2>5. ConfigTypes'
    BY <1>0, <2>1, <2>4 DEF ConfigTypes
  <2>6. FileIsKnown' /\ NewestIsTold'
    BY <1>0, <2>1, <2>4 DEF FileIsKnown, NewestIsTold
  <2> QED BY <2>1, <2>3, <2>4, <2>5, <2>6 DEF ConfigInv
<1>13. CASE F!Build
  <2>1. /\ UNCHANGED <<configFile, agentFile, configService, configTasks, configTold, configMissed, configOvertaken>>
        /\ configOp.pc = "build" /\ configOp' = [pc |-> "idle", stamp |-> 0, load |-> FALSE]
        /\ \/ UNCHANGED configCache
           \/ configCache' = [sig |-> F!Signature(configOp.stamp),
                              config |-> <<configService.value, agentFile.content>>]
    BY <1>13 DEF F!Build, F!NoOp
  <2>2. configOp' = [pc |-> configOp'.pc, stamp |-> configOp'.stamp, load |-> configOp'.load]
        /\ configOp'.pc = "idle" /\ configOp'.stamp = 0
    BY <2>1
  <2>3. ConfigTypes' /\ FileIsKnown' /\ NewestIsTold'
    BY <1>0, <2>1, <2>2 DEF ConfigTypes, FileIsKnown, NewestIsTold
  <2>4. CASE UNCHANGED configCache
    BY <1>0, <2>1, <2>2, <2>3, <2>4, CacheStays DEF ConfigTypes, ConfigInv
  <2>5. CASE configCache' = [sig |-> F!Signature(configOp.stamp),
                             config |-> <<configService.value, agentFile.content>>]
    <3> DEFINE sig == configCache'.sig
    <3>1. sig = <<configService.revision, configService.hash, configOp.stamp>>
          /\ configCache'.config = <<configService.value, agentFile.content>>
      BY <2>5 DEF F!Signature
    <3>2. /\ sig = <<sig[1], sig[2], sig[3]>> /\ sig[1] = configService.revision /\ sig[3] = configOp.stamp
      BY <3>1
    <3>3. /\ configService.revision \in Nat /\ configOp.stamp \in Nat /\ configOp.stamp <= agentFile.stamp
          /\ configService.revision <= configService.revision
      BY <1>0, <2>1 DEF ConfigTypes
    <3>4. CacheIsKnown'
      BY <2>1, <2>2, <3>1, <3>2, <3>3 DEF CacheIsKnown
    <3> QED BY <2>2, <2>3, <3>4 DEF ConfigInv
  <2> QED BY <2>1, <2>4, <2>5
<1> QED
  BY <1>1, <1>2, <1>3, <1>4, <1>5, <1>6, <1>7, <1>8, <1>9, <1>10, <1>11, <1>12, <1>13 DEF F!Next

-----------------------------------------------------------------------------
(* The files of the skills: what an operation has found when it began is   *)
(* there when it writes, unless somebody else has written.                 *)

LEMMA SmallestOf == ASSUME NEW A \in SUBSET Nat, A # {} PROVE \E x \in A : \A y \in A : x <= y
<1>1. PICK x \in A : \A y \in A : ~ (<<y, x>> \in OpToRel(<, Nat))
  BY NatLessThanWellFounded, WFMin
<1>2. \A y \in A : ~ (y < x)
  BY <1>1 DEF OpToRel
<1> QED BY <1>2

\* Of the files with a name there is a first one.
LEMMA FirstIsThere == ASSUME NEW A \in SUBSET K!Slots, A # {} PROVE K!First(A) \in A
<1> DEFINE firsts == {s[1] : s \in A}
<1>1. \A s \in A : s[1] \in Nat /\ s[2] \in {1, 2} /\ s = <<s[1], s[2]>>
  BY SkillAssumption DEF K!Slots, K!Names
<1>2. PICK x \in firsts : \A y \in firsts : x <= y
  <2>1. firsts \in SUBSET Nat /\ firsts # {}
    BY <1>1
  <2> QED BY <2>1, SmallestOf
<1>3. PICK s \in A : s[1] = x /\ \A t \in A : t[1] = x => s[2] <= t[2]
  <2>1. CASE <<x, 1>> \in A
    BY <1>1, <2>1
  <2>2. CASE <<x, 1>> \notin A
    <3>1. PICK s \in A : s[1] = x
      BY <1>2
    <3>2. \A t \in A : t[1] = x => t[2] = 2
      BY <1>1, <2>2
    <3> QED BY <3>1, <3>2
  <2> QED BY <2>1, <2>2
<1>4. \A t \in A \ {s} : K!Before(s, t)
  <2> SUFFICES ASSUME NEW t \in A \ {s} PROVE K!Before(s, t)
    OBVIOUS
  <2>1. x <= t[1] /\ x \in Nat
    BY <1>1, <1>2
  <2>2. CASE t[1] = x
    BY <1>1, <1>3, <2>2 DEF K!Before
  <2>3. CASE t[1] # x
    BY <1>1, <1>3, <2>1, <2>3 DEF K!Before
  <2> QED BY <2>2, <2>3
<1> QED BY <1>4 DEF K!First

Skills == K!Skill \cup {K!Nothing, K!Bare, K!Broken}
SkillTypes ==
    /\ skillRoot \in [K!Slots -> Skills]
    /\ skillOp \in [pc : {"idle", "create", "update"}, name : Nat, slot : Nat \X {1, 2},
                    alone : BOOLEAN]
    /\ skillSaid \in [K!Names -> Nat] /\ skillWrites \in 0 .. MaxSkillWrites

\* What was said of a skill is so.
Told(n, root, v) ==
    LET called == {s \in K!Slots : root[s].name = n}
    IN  /\ v = K!Gone => called = {}
        /\ v \in 1 .. MaxSkillWrites =>
              called # {} /\ root[K!First(called)] = [name |-> n, version |-> v]
\* What the operation under way has found.
Found ==
    /\ skillOp.name \in K!Names /\ skillOp.slot \in K!Slots
    /\ skillOp.alone => \/ K!Candidates(skillOp.name) = {}
                        \/ skillOp.slot = K!First(K!Candidates(skillOp.name))
    /\ skillOp.slot[1] \notin skillOutside =>
          \A s \in K!Slots : s[1] = skillOp.slot[1] /\ s # skillOp.slot => ~K!IsFile(s)
SkillsInv ==
    /\ SkillTypes
    /\ \A n \in K!Names : /\ Told(n, skillRoot, skillSaid[n])
                          /\ n \notin skillOutside => ~K!Conflict(n)
    /\ ~K!Free => Found

LEMMA SkillsInit == K!Init => SkillsInv
<1> SUFFICES ASSUME K!Init PROVE SkillsInv
  OBVIOUS
<1>1. /\ skillRoot = [s \in K!Slots |-> K!Nothing] /\ K!Nothing.name = 0
      /\ skillOp = [pc |-> "idle", name |-> 1, slot |-> <<1, 2>>, alone |-> TRUE]
      /\ skillSaid = [n \in K!Names |-> MaxSkillWrites + 1] /\ skillWrites = 0 /\ skillOutside = {}
  BY DEF K!Init, K!NoOp, K!File, K!Nobody, K!Nothing
<1>2. SkillTypes
  BY <1>1, SkillAssumption DEF SkillTypes, Skills
<1>3. ASSUME NEW n \in K!Names PROVE Told(n, skillRoot, skillSaid[n]) /\ ~K!Conflict(n)
  <2>1. skillSaid[n] # K!Gone /\ skillSaid[n] \notin 1 .. MaxSkillWrites
    BY <1>1, SkillAssumption DEF K!Gone
  <2>2. ~K!IsFile(K!Dir(n))
    BY <1>1 DEF K!IsFile, K!Dir, K!Slots
  <2> QED BY <2>1, <2>2 DEF Told, K!Conflict
<1> QED BY <1>1, <1>2, <1>3 DEF SkillsInv, K!Free

LEMMA SkillsSaid == SkillsInv => K!AnswersHold
BY DEF SkillsInv, Told, K!AnswersHold, K!Candidates

\* A change of one file is no change of the skills whose names it has not, before
\* or afterwards.
LEMMA ToldStays ==
    ASSUME SkillTypes, NEW x \in K!Slots, NEW e, NEW n \in K!Names, NEW v,
           n # skillRoot[x].name, n # e.name, Told(n, skillRoot, v)
    PROVE  /\ Told(n, [skillRoot EXCEPT ![x] = e], v)
           /\ {s \in K!Slots : [skillRoot EXCEPT ![x] = e][s].name = n} = K!Candidates(n)
<1> DEFINE root == [skillRoot EXCEPT ![x] = e]
           called == {s \in K!Slots : skillRoot[s].name = n}
<1>1. \A s \in K!Slots : root[s] = IF s = x THEN e ELSE skillRoot[s]
  BY DEF SkillTypes
<1>2. {s \in K!Slots : root[s].name = n} = called
  BY <1>1
<1>3. called # {} => K!First(called) \in called
  BY FirstIsThere
<1>4. called # {} => root[K!First(called)] = skillRoot[K!First(called)]
  BY <1>1, <1>3
<1> HIDE DEF root
<1> QED BY <1>2, <1>4 DEF Told, root, K!Candidates

\* The files that are there after a change of one.
LEMMA FilesAfter ==
    ASSUME SkillTypes, NEW x \in K!Slots, NEW e, skillRoot' = [skillRoot EXCEPT ![x] = e]
    PROVE  /\ skillRoot'[x] = e
           /\ \A s \in K!Slots \ {x} : skillRoot'[s] = skillRoot[s] /\ (K!IsFile(s)' <=> K!IsFile(s))
           /\ \A n \in K!Names : n # x[1] => (K!Conflict(n)' <=> K!Conflict(n))
<1>1. skillRoot'[x] = e /\ \A s \in K!Slots \ {x} : skillRoot'[s] = skillRoot[s]
  BY DEF SkillTypes
<1>2. \A s \in K!Slots \ {x} : K!IsFile(s)' <=> K!IsFile(s)
  BY <1>1 DEF K!IsFile
<1>3. ASSUME NEW n \in K!Names, n # x[1] PROVE K!Conflict(n)' <=> K!Conflict(n)
  <2>1. K!Dir(n) \in K!Slots \ {x} /\ K!File(n) \in K!Slots \ {x}
    BY <1>3 DEF K!Dir, K!File, K!Slots
  <2> QED BY <1>2, <2>1 DEF K!Conflict
<1> QED BY <1>1, <1>2, <1>3

LEMMA SkillsEdited == ASSUME SkillsInv, NEW x \in K!Slots, K!Edits(x) PROVE SkillsInv'
<1>1. PICK e : /\ e \in Skills /\ skillRoot' = [skillRoot EXCEPT ![x] = e]
               /\ skillSaid' = [n \in K!Names |-> IF n \in {x[1], skillRoot[x].name, e.name}
                                                  THEN K!Nobody ELSE skillSaid[n]]
  <2>1. skillWrites + 1 \in 1 .. MaxSkillWrites /\ x[1] \in K!Names
    BY SkillAssumption DEF K!Edits, SkillsInv, SkillTypes, K!Slots
  <2>2. \A n \in K!Names : [name |-> n, version |-> skillWrites + 1] \in Skills
    BY <2>1 DEF Skills, K!Skill
  <2>3. PICK e \in {K!Nothing, K!Broken, [name |-> x[1], version |-> skillWrites + 1]}
                   \cup {[name |-> n, version |-> skillWrites + 1] : n \in K!Names}
                   \cup (IF x = K!Dir(x[1]) THEN {K!Bare} ELSE {}) :
              /\ skillRoot' = [skillRoot EXCEPT ![x] = e]
              /\ skillSaid' = [n \in K!Names |-> IF n \in {x[1], skillRoot[x].name, e.name}
                                                 THEN K!Nobody ELSE skillSaid[n]]
    BY DEF K!Edits
  <2>4. e \in Skills
    BY <2>1, <2>2 DEF Skills
  <2> QED BY <2>3, <2>4
<1>2. /\ skillWrites < MaxSkillWrites /\ skillWrites' = skillWrites + 1 /\ SkillTypes
      /\ skillOutside' = skillOutside \cup {x[1]} /\ skillOp' = [skillOp EXCEPT !.alone = K!Free]
  BY DEF K!Edits, SkillsInv
<1>3. K!Nobody \in Nat /\ K!Nobody # K!Gone /\ K!Nobody \notin 1 .. MaxSkillWrites
  BY SkillAssumption DEF K!Nobody, K!Gone
<1>4. K!Free \in BOOLEAN
  BY DEF K!Free
<1>5. SkillTypes'
  BY <1>1, <1>2, <1>3, <1>4, SkillAssumption DEF SkillTypes
<1>6. ASSUME NEW n \in K!Names PROVE Told(n, skillRoot', skillSaid'[n])
  <2>1. CASE n \in {x[1], skillRoot[x].name, e.name}
    BY <1>1, <1>3, <2>1 DEF Told
  <2>2. CASE n \notin {x[1], skillRoot[x].name, e.name}
    BY <1>1, <1>2, <2>2, ToldStays DEF SkillsInv
  <2> QED BY <2>1, <2>2
<1>7. ASSUME NEW n \in K!Names, n \notin skillOutside' PROVE ~K!Conflict(n)'
  BY <1>1, <1>2, <1>7, FilesAfter DEF SkillsInv
<1>8. ASSUME ~K!Free' PROVE Found'
  <2>1. ~K!Free /\ skillOp'.alone = FALSE /\ skillOp'.slot = skillOp.slot /\ skillOp'.name = skillOp.name
    BY <1>2, <1>8 DEF K!Free, SkillTypes
  <2>2. Found
    BY <2>1 DEF SkillsInv
  <2>3. ASSUME skillOp.slot[1] \notin skillOutside', NEW s \in K!Slots, s[1] = skillOp.slot[1], s # skillOp.slot
        PROVE  ~K!IsFile(s)'
    <3>1. s # x
      BY <1>2, <2>3
    <3> QED BY <1>1, <1>2, <2>2, <2>3, <3>1, FilesAfter DEF Found
  <2> QED BY <2>1, <2>2, <2>3 DEF Found
<1> QED BY <1>5, <1>6, <1>7, <1>8 DEF SkillsInv

LEMMA SkillsBegun ==
    ASSUME SkillsInv, NEW n \in K!Names,
           K!Update(n) \/ \E kind \in {"file", "dir"} : K!Create(n, kind)
    PROVE  SkillsInv'
<1>1. SkillTypes /\ ~K!Conflict(n) /\ UNCHANGED <<skillSaid, skillOutside, skillWrites>>
  BY DEF SkillsInv, K!Update, K!Create
<1>2. K!Dir(n) \in K!Slots /\ K!File(n) \in K!Slots /\ K!Dir(n) # K!File(n)
      /\ n \in Nat /\ K!Slots \subseteq Nat \X {1, 2}
      /\ \A s \in K!Slots : s[1] = n => s \in {K!Dir(n), K!File(n)}
  BY SkillAssumption DEF K!Dir, K!File, K!Slots, K!Names
<1>3. CASE K!Update(n)
  <2>1. PICK x \in K!GlobalPath(n) :
           skillOp' = [pc |-> "update", name |-> n, slot |-> x, alone |-> TRUE]
    BY <1>3 DEF K!Update
  <2>2. UNCHANGED skillRoot
    BY <1>3 DEF K!Update
  <2>3. K!Candidates(n) = {} \/ x = K!First(K!Candidates(n))
    BY <2>1 DEF K!GlobalPath
  <2>4. x \in K!Slots /\ K!IsFile(x)
    <3>1. CASE K!Candidates(n) # {}
      <4>1. x \in K!Candidates(n)
        BY <2>3, <3>1, FirstIsThere DEF K!Candidates
      <4>2. n # 0 /\ K!Nothing.name = 0 /\ K!Bare.name = 0
        BY SkillAssumption DEF K!Names, K!Nothing, K!Bare
      <4> QED BY <4>1, <4>2 DEF K!Candidates, K!IsFile
    <3>2. CASE K!Candidates(n) = {}
      BY <1>2, <2>1, <3>2 DEF K!GlobalPath
    <3> QED BY <3>1, <3>2
  <2>5. ASSUME x[1] \notin skillOutside, NEW s \in K!Slots, s[1] = x[1], s # x PROVE ~K!IsFile(s)
    <3>1. x[1] \in K!Names /\ ~K!Conflict(x[1])
      BY <2>4, <2>5 DEF SkillsInv, K!Slots
    <3>2. x \in {K!Dir(x[1]), K!File(x[1])} /\ s \in {K!Dir(x[1]), K!File(x[1])}
      BY <2>4, <2>5 DEF K!Slots, K!Dir, K!File
    <3> QED BY <2>4, <2>5, <3>1, <3>2 DEF K!Conflict
  <2>6. SkillTypes'
    BY <1>1, <1>2, <2>1, <2>2, <2>4 DEF SkillTypes
  <2>7. Found'
    BY <1>1, <2>1, <2>2, <2>3, <2>4, <2>5 DEF Found, K!Candidates, K!IsFile
  <2> QED BY <1>1, <2>2, <2>6, <2>7 DEF SkillsInv, K!Conflict, K!IsFile
<1>4. ASSUME NEW kind \in {"file", "dir"}, K!Create(n, kind) PROVE SkillsInv'
  <2> DEFINE x == K!Slot(n, kind)
  <2>1. /\ skillRoot[K!Dir(n)] = K!Nothing /\ skillRoot[K!File(n)] = K!Nothing /\ K!GlobalPath(n) = {}
        /\ skillRoot' = IF kind = "dir" THEN [skillRoot EXCEPT ![x] = K!Bare] ELSE skillRoot
        /\ skillOp' = [pc |-> "create", name |-> n, slot |-> x, alone |-> TRUE]
    BY <1>4 DEF K!Create
  <2>2. x \in {K!Dir(n), K!File(n)}
    BY DEF K!Slot
  <2> HIDE DEF x
  <2>3. \A s \in K!Slots : skillRoot'[s].name = skillRoot[s].name /\ (K!IsFile(s)' => K!IsFile(s))
    <3>1. K!Bare.name = K!Nothing.name
      BY DEF K!Bare, K!Nothing
    <3> QED BY <1>1, <1>2, <2>1, <2>2, <3>1 DEF SkillTypes, K!IsFile
  <2>4. \A s \in K!Slots : skillRoot'[s] # skillRoot[s] => skillRoot[s].name = 0
    BY <1>1, <1>2, <2>1, <2>2 DEF SkillTypes, K!Nothing
  <2>5. K!Candidates(n) = {}
    BY <2>1 DEF K!GlobalPath
  <2>6. SkillTypes'
    BY <1>1, <1>2, <2>1, <2>2 DEF SkillTypes, Skills
  <2>7. ASSUME NEW m \in K!Names PROVE Told(m, skillRoot', skillSaid[m])
    <3> DEFINE called == {s \in K!Slots : skillRoot[s].name = m}
    <3>1. {s \in K!Slots : skillRoot'[s].name = m} = called
      BY <2>3
    <3>2. called # {} => K!First(called) \in called
      BY FirstIsThere
    <3>3. called # {} => skillRoot'[K!First(called)] = skillRoot[K!First(called)]
      BY <2>4, <3>2, SkillAssumption DEF K!Names
    <3>4. Told(m, skillRoot, skillSaid[m])
      BY DEF SkillsInv
    <3> QED BY <3>1, <3>3, <3>4 DEF Told
  <2>8. ASSUME NEW m \in K!Names, K!Conflict(m)' PROVE K!Conflict(m)
    BY <2>3, <2>8 DEF K!Conflict, K!Dir, K!File, K!Slots
  <2>9. Found'
    <3>1. K!Candidates(n)' = {}
      BY <2>3, <2>5 DEF K!Candidates
    <3>2. x[1] = n
      BY <2>2 DEF K!Dir, K!File
    <3>3. \A s \in K!Slots : s[1] = n => ~K!IsFile(s)'
      BY <1>2, <2>1, <2>3 DEF K!IsFile
    <3> QED BY <1>2, <2>1, <2>2, <3>1, <3>2, <3>3 DEF Found
  <2> QED BY <1>1, <2>6, <2>7, <2>8, <2>9 DEF SkillsInv
<1> QED BY <1>3, <1>4

LEMMA SkillsWritten == ASSUME SkillsInv, K!Write PROVE SkillsInv'
<1> DEFINE x == skillOp.slot
           n == skillOp.name
           e == [name |-> n, version |-> skillWrites + 1]
<1>1. /\ SkillTypes /\ Found /\ n \in K!Names /\ x \in K!Slots
      /\ skillWrites + 1 \in 1 .. MaxSkillWrites /\ skillWrites' = skillWrites + 1
      /\ skillRoot' = [skillRoot EXCEPT ![x] = e] /\ UNCHANGED skillOutside
      /\ skillOp' = [pc |-> "idle", name |-> 1, slot |-> <<1, 2>>, alone |-> TRUE]
  BY SkillAssumption DEF SkillsInv, Found, SkillTypes, K!Write, K!NoOp, K!File
<1>2. skillSaid' = [m \in K!Names |-> IF m = n THEN (IF skillOp.alone THEN skillWrites + 1 ELSE K!Nobody)
                                      ELSE IF m = skillRoot[x].name THEN K!Nobody ELSE skillSaid[m]]
  BY DEF K!Write
<1>3. K!Nobody \in Nat /\ K!Nobody # K!Gone /\ K!Nobody \notin 1 .. MaxSkillWrites
  BY SkillAssumption DEF K!Nobody, K!Gone
<1>4. e \in Skills /\ e.name = n
  BY <1>1 DEF Skills, K!Skill
<1> HIDE DEF x, n, e
<1>5. SkillTypes'
  BY <1>1, <1>2, <1>3, <1>4, SkillAssumption DEF SkillTypes
<1>6. ASSUME NEW m \in K!Names PROVE Told(m, skillRoot', skillSaid'[m])
  <2>1. CASE m = n /\ skillOp.alone
    <3> DEFINE called == {s \in K!Slots : skillRoot'[s].name = n}
    <3>1. \A s \in K!Slots : skillRoot'[s] = IF s = x THEN e ELSE skillRoot[s]
      BY <1>1 DEF SkillTypes
    <3>2. x \in called /\ called = K!Candidates(n) \cup {x}
      BY <1>1, <1>4, <3>1 DEF K!Candidates
    <3>3. K!First(called) = x
      <4>1. CASE K!Candidates(n) = {}
        <5>1. called = {x}
          BY <3>2, <4>1
        <5>2. K!First(called) \in called
          BY <5>1, <1>1, FirstIsThere
        <5> QED BY <5>1, <5>2
      <4>2. CASE K!Candidates(n) # {}
        <5>1. x = K!First(K!Candidates(n))
          BY <1>1, <2>1, <4>2 DEF Found, x, n
        <5>2. x \in K!Candidates(n)
          BY <4>2, <5>1, FirstIsThere DEF K!Candidates
        <5>3. called = K!Candidates(n)
          BY <3>2, <5>2
        <5> QED BY <5>1, <5>3
      <4> QED BY <4>1, <4>2
    <3>4. skillRoot'[x] = e
      BY <1>1, <3>1
    <3>5. skillSaid'[n] = skillWrites + 1
      BY <1>1, <1>2, <2>1
    <3>6. skillWrites + 1 # K!Gone
      BY <1>1, SkillAssumption DEF K!Gone
    <3> QED BY <2>1, <3>2, <3>3, <3>4, <3>5, <3>6 DEF Told, e
  <2>2. CASE (m = n /\ ~skillOp.alone) \/ (m # n /\ m = skillRoot[x].name)
    BY <1>2, <1>3, <2>2 DEF Told
  <2>3. CASE m # n /\ m # skillRoot[x].name
    <3>1. skillSaid'[m] = skillSaid[m] /\ Told(m, skillRoot, skillSaid[m])
      BY <1>2, <2>3 DEF SkillsInv
    <3> QED BY <1>1, <1>4, <2>3, <3>1, ToldStays
  <2> QED BY <2>1, <2>2, <2>3
<1>7. ASSUME NEW m \in K!Names, m \notin skillOutside PROVE ~K!Conflict(m)'
  <2>1. CASE m # x[1]
    BY <1>1, <1>7, <2>1, FilesAfter DEF SkillsInv
  <2>2. CASE m = x[1]
    <3>1. \A s \in K!Slots : s[1] = m /\ s # x => ~K!IsFile(s)'
      BY <1>1, <1>7, <2>2, FilesAfter DEF Found, x
    <3>2. K!Dir(m) \in K!Slots /\ K!File(m) \in K!Slots /\ K!Dir(m)[1] = m /\ K!File(m)[1] = m
          /\ K!Dir(m) # K!File(m)
      BY DEF K!Dir, K!File, K!Slots
    <3> QED BY <3>1, <3>2 DEF K!Conflict
  <2> QED BY <2>1, <2>2
<1>8. K!Free'
  BY <1>1 DEF K!Free
<1> QED BY <1>1, <1>5, <1>6, <1>7, <1>8 DEF SkillsInv

LEMMA SkillsDeleted == ASSUME SkillsInv, NEW n \in K!Names, K!Delete(n) PROVE SkillsInv'
<1>1. SkillTypes /\ K!Free /\ UNCHANGED <<skillOp, skillOutside, skillWrites>>
  BY DEF SkillsInv, K!Delete
<1>2. PICK x \in K!GlobalPath(n) :
         /\ skillRoot' = [skillRoot EXCEPT ![x] = IF x[2] = 1 THEN K!Bare ELSE K!Nothing]
         /\ skillSaid' = [m \in K!Names |->
                            IF m = n THEN (IF K!Candidates(n) \subseteq {x} THEN K!Gone ELSE K!Nobody)
                            ELSE IF m = skillRoot[x].name THEN K!Nobody ELSE skillSaid[m]]
  BY DEF K!Delete
<1>3. x \in K!Slots
  <2>1. K!Candidates(n) # {} => K!First(K!Candidates(n)) \in K!Candidates(n)
    BY FirstIsThere DEF K!Candidates
  <2> QED BY <1>2, <2>1 DEF K!GlobalPath, K!Candidates, K!Dir, K!File, K!Slots
<1> DEFINE e == IF x[2] = 1 THEN K!Bare ELSE K!Nothing
<1>4. /\ e \in Skills /\ e.name = 0 /\ e \in {K!Bare, K!Nothing} /\ skillRoot' = [skillRoot EXCEPT ![x] = e]
      /\ \A m \in K!Names : m # 0
  BY <1>2, SkillAssumption DEF Skills, K!Bare, K!Nothing, K!Names
<1>5. /\ K!Nobody \in Nat /\ K!Nobody # K!Gone /\ K!Nobody \notin 1 .. MaxSkillWrites
      /\ K!Gone \in Nat /\ K!Gone \notin 1 .. MaxSkillWrites
  BY SkillAssumption DEF K!Nobody, K!Gone
<1> HIDE DEF e
<1>6. SkillTypes'
  BY <1>1, <1>2, <1>3, <1>4, <1>5 DEF SkillTypes
<1>7. ASSUME NEW m \in K!Names PROVE Told(m, skillRoot', skillSaid'[m])
  <2>1. CASE m = n /\ K!Candidates(n) \subseteq {x}
    <3>1. \A s \in K!Slots : skillRoot'[s] = IF s = x THEN e ELSE skillRoot[s]
      BY <1>1, <1>3, <1>4 DEF SkillTypes
    <3>2. {s \in K!Slots : skillRoot'[s].name = n} = {}
      BY <1>4, <2>1, <3>1 DEF K!Candidates
    <3> QED BY <1>2, <1>5, <2>1, <3>2 DEF Told
  <2>2. CASE (m = n /\ ~(K!Candidates(n) \subseteq {x})) \/ (m # n /\ m = skillRoot[x].name)
    BY <1>2, <1>5, <2>2 DEF Told
  <2>3. CASE m # n /\ m # skillRoot[x].name
    <3>1. skillSaid'[m] = skillSaid[m] /\ Told(m, skillRoot, skillSaid[m])
      BY <1>2, <2>3 DEF SkillsInv
    <3> QED BY <1>1, <1>3, <1>4, <2>3, <3>1, ToldStays
  <2> QED BY <2>1, <2>2, <2>3
<1>8. ASSUME NEW m \in K!Names, m \notin skillOutside PROVE ~K!Conflict(m)'
  <2>1. ~K!IsFile(x)'
    BY <1>1, <1>3, <1>4, FilesAfter DEF K!IsFile
  <2>2. \A s \in K!Slots : K!IsFile(s)' => K!IsFile(s)
    BY <1>1, <1>3, <1>4, <2>1, FilesAfter
  <2>3. K!Dir(m) \in K!Slots /\ K!File(m) \in K!Slots
    BY DEF K!Dir, K!File, K!Slots
  <2> QED BY <1>8, <2>2, <2>3 DEF K!Conflict, SkillsInv
<1>9. K!Free'
  BY <1>1 DEF K!Free
<1> QED BY <1>1, <1>6, <1>7, <1>8, <1>9 DEF SkillsInv

\* Every step of the skills keeps the invariant.
LEMMA SkillsStep == SkillsInv /\ [K!Next]_K!vars => SkillsInv'
<1> SUFFICES ASSUME SkillsInv, [K!Next]_K!vars PROVE SkillsInv'
  OBVIOUS
<1>1. CASE UNCHANGED K!vars
  BY <1>1 DEF K!vars, SkillsInv, SkillTypes, Told, Found, K!Conflict, K!IsFile, K!Free, K!Candidates
<1>2. CASE K!WriteFails
  <2>1. /\ UNCHANGED <<skillRoot, skillSaid, skillOutside, skillWrites>>
        /\ skillOp' = [pc |-> "idle", name |-> 1, slot |-> <<1, 2>>, alone |-> TRUE]
    BY <1>2 DEF K!WriteFails, K!NoOp, K!File
  <2>2. K!Free' /\ SkillTypes'
    BY <2>1 DEF K!Free, SkillsInv, SkillTypes
  <2> QED BY <2>1, <2>2 DEF SkillsInv, K!Conflict, K!IsFile
<1>3. ASSUME NEW x \in K!Slots, K!Edits(x) PROVE SkillsInv'
  BY <1>3, SkillsEdited
<1>4. ASSUME NEW n \in K!Names,
             K!Update(n) \/ K!Delete(n) \/ \E kind \in {"file", "dir"} : K!Create(n, kind)
      PROVE  SkillsInv'
  BY <1>4, SkillsBegun, SkillsDeleted
<1> QED BY <1>1, <1>2, <1>3, <1>4, SkillsWritten DEF K!Next

-----------------------------------------------------------------------------
(* Teams: a member that lives is in the team with all it needs, or a call  *)
(* is under way that will put it there or delete it.                       *)

TeamCallRecord == [kind : M!Kinds, pc : M!Places, member : Nat, todo : SUBSET Nat, seen : BOOLEAN]

\* The whole of a member is there.
Whole(m) == m \in registered /\ m \in bound /\ m \in profiles
\* A call that is adding the member, and what it has done so far is still there;
\* or one that will delete the member's Session.
Handles(k, m, made, tied) ==
    \/ /\ k.kind = "add" /\ k.member = m
       /\ \/ k.pc \in {"profile", "undo"}
          \/ k.pc = "bind" /\ m \in made
          \/ k.pc = "register" /\ m \in made /\ m \in tied
    \/ k.kind = "drop" /\ k.member = m /\ k.pc \in {"started", "delete"}
    \/ k.kind = "dissolve" /\ k.pc = "delete" /\ m \in k.todo
\* The deletion of the leader cannot be stopped once it has begun.
Disbands(k) == k.kind = "disband" /\ k.pc \in {"delete", "forget"}

TeamTypes ==
    /\ leader \in BOOLEAN /\ created \in Nat
    /\ \A m \in memberSessions : m \in Nat /\ m <= created
    /\ registered \subseteq Nat
    /\ teamCalls \in [TeamCalls -> TeamCallRecord]
    /\ \A c \in TeamCalls : teamCalls[c].member <= created
DroppedIsGone ==
    \A c \in TeamCalls : M!At(c, "drop", "unbind") => teamCalls[c].member \notin memberSessions
MembersAreReached ==
    \/ ~leader
    \/ \E c \in TeamCalls : Disbands(teamCalls[c])
    \/ \A m \in memberSessions : Whole(m) \/ \E c \in TeamCalls : Handles(teamCalls[c], m, profiles, bound)
TeamInv == TeamTypes /\ DroppedIsGone /\ MembersAreReached

LEMMA TeamInit == M!Init => TeamInv
BY DEF M!Init, M!NoCall, M!Nobody, M!Kinds, M!Places, TeamInv, TeamTypes, TeamCallRecord, DroppedIsGone,
       MembersAreReached, M!At

LEMMA TeamHolds == TeamInv => M!NoMemberIsLeaked
BY DEF TeamInv, MembersAreReached, M!NoMemberIsLeaked, M!Settled, M!NoCall, Whole, Handles, Disbands

\* What is there of a member stays.
Stays(m) == /\ m \in memberSessions
            /\ m \in bound => m \in bound'
            /\ m \in profiles => m \in profiles'
            /\ m \in registered => m \in registered'
\* What a call becomes keeps the invariant if the members that live are still
\* reached: the others' calls are as before.
LEMMA TeamMoves ==
    ASSUME TeamInv, NEW c \in TeamCalls, NEW k \in TeamCallRecord,
           teamCalls' = [teamCalls EXCEPT ![c] = k],
           leader' \in BOOLEAN, leader' => leader, registered' \subseteq Nat,
           created' \in Nat, created <= created', k.member <= created',
           \A m \in memberSessions' :
              m \in memberSessions \/ (m \in Nat /\ created < m /\ m <= created'),
           k.kind = "drop" /\ k.pc = "unbind" => k.member \notin memberSessions',
           Disbands(teamCalls[c]) => ~leader' \/ Disbands(k),
           leader' /\ ~Disbands(k) =>
              \A m \in memberSessions' :
                 \/ Handles(k, m, profiles', bound')
                 \/ Whole(m)'
                 \/ Stays(m) /\ ~Handles(teamCalls[c], m, profiles, bound)
    PROVE  TeamInv'
<1>1. /\ teamCalls' \in [TeamCalls -> TeamCallRecord] /\ teamCalls'[c] = k
      /\ \A d \in TeamCalls \ {c} : teamCalls'[d] = teamCalls[d]
      /\ \A d \in TeamCalls : teamCalls[d] \in TeamCallRecord /\ teamCalls[d].member \in Nat
      /\ k.member \in Nat
  BY DEF TeamInv, TeamTypes, TeamCallRecord
<1>2. TeamTypes'
  <2>1. \A m \in memberSessions' : m \in Nat /\ m <= created'
    BY DEF TeamInv, TeamTypes
  <2>2. \A d \in TeamCalls : teamCalls'[d].member <= created'
    BY <1>1 DEF TeamInv, TeamTypes
  <2> QED BY <1>1, <2>1, <2>2 DEF TeamTypes
<1>3. DroppedIsGone'
  <2> SUFFICES ASSUME NEW d \in TeamCalls, M!At(d, "drop", "unbind")'
               PROVE  teamCalls'[d].member \notin memberSessions'
    BY DEF DroppedIsGone
  <2>1. CASE d = c
    BY <1>1, <2>1 DEF M!At
  <2>2. CASE d # c
    BY <1>1, <2>2 DEF M!At, TeamInv, TeamTypes, DroppedIsGone
  <2> QED BY <2>1, <2>2
<1>4. MembersAreReached'
  <2> SUFFICES ASSUME leader', \A d \in TeamCalls : ~Disbands(teamCalls[d])', NEW m \in memberSessions'
               PROVE  Whole(m)' \/ \E d \in TeamCalls : Handles(teamCalls'[d], m, profiles', bound')
    BY DEF MembersAreReached
  <2>1. ~Disbands(k) /\ ~Disbands(teamCalls[c]) /\ \A d \in TeamCalls \ {c} : ~Disbands(teamCalls[d])
    BY <1>1 DEF Disbands
  <2>2. leader /\ \A d \in TeamCalls : ~Disbands(teamCalls[d])
    BY <2>1
  <2>3. CASE Handles(k, m, profiles', bound') \/ Whole(m)'
    BY <1>1, <2>3 DEF Handles
  <2>4. CASE Stays(m) /\ ~Handles(teamCalls[c], m, profiles, bound)
    <3>1. Whole(m) \/ \E d \in TeamCalls : Handles(teamCalls[d], m, profiles, bound)
      BY <2>2, <2>4 DEF TeamInv, MembersAreReached, Stays
    <3>2. CASE Whole(m)
      BY <2>4, <3>2 DEF Whole, Stays
    <3>3. ASSUME NEW d \in TeamCalls, Handles(teamCalls[d], m, profiles, bound)
          PROVE  Handles(teamCalls'[d], m, profiles', bound')
      <4>1. d # c
        BY <2>4, <3>3
      <4> QED BY <1>1, <2>4, <3>3, <4>1 DEF Handles, Stays
    <3> QED BY <3>1, <3>2, <3>3
  <2> QED BY <2>1, <2>3, <2>4
<1> QED BY <1>2, <1>3, <1>4 DEF TeamInv

\* Calls that begin, that are refused, that read, and messages: what there is of
\* the members stays, and what is under way is no change of them.
LEMMA TeamGoesOn ==
    ASSUME TeamInv, NEW c \in TeamCalls,
           \/ M!Start(c) \/ M!Create(c) \/ M!Invoke(c) \/ M!Say(c) \/ M!Deliver(c)
           \/ M!Disband(c) \/ M!Drop(c)
    PROVE  TeamInv'
<1> USE DEF M!Kinds, M!Places, M!Nobody, M!NoCall
<1> DEFINE old == teamCalls[c]
<1>1. old \in TeamCallRecord /\ old.member \in Nat /\ old.member <= created /\ created \in Nat
      /\ \A m \in memberSessions : m \in Nat /\ m <= created
  BY DEF TeamInv, TeamTypes, TeamCallRecord
<1>2. ASSUME UNCHANGED <<leader, created, memberSessions, bound, profiles, registered>>,
             NEW k \in TeamCallRecord, teamCalls' = [teamCalls EXCEPT ![c] = k],
             k.member <= created, ~(k.kind = "drop" /\ k.pc = "unbind"),
             Disbands(old) => Disbands(k),
             \A m \in memberSessions : Handles(old, m, profiles, bound) => Handles(k, m, profiles, bound)
      PROVE  TeamInv'
  <2>1. \A m \in memberSessions' :
           \/ Handles(k, m, profiles', bound')
           \/ Stays(m) /\ ~Handles(old, m, profiles, bound)
    BY <1>2 DEF Stays, Handles
  <2>2. leader' \in BOOLEAN /\ registered' \subseteq Nat /\ created' \in Nat /\ created <= created'
    BY <1>2, <1>1 DEF TeamInv, TeamTypes
  <2> QED
    BY <1>2, <2>1, <2>2, TeamMoves
<1>3. M!NoCall \in TeamCallRecord /\ M!NoCall.member = 0 /\ M!NoCall.kind = "none" /\ M!NoCall.pc = "idle"
  BY DEF TeamCallRecord
<1> HIDE DEF M!NoCall
<1>4. CASE M!Start(c)
  <2>1. PICK kind \in {"create", "add", "say", "dissolve", "drop", "disband"}, m \in Nat :
           m <= created /\ M!Begin(c, kind, m)
    <3>1. \A m \in M!Members : m \in Nat
      BY TeamAssumption DEF M!Members
    <3> QED BY <1>1, <1>4, <3>1 DEF M!Start
  <2> DEFINE k == [[[old EXCEPT !.kind = kind] EXCEPT !.pc = "started"] EXCEPT !.member = m]
  <2>2. k \in TeamCallRecord /\ k.kind = kind /\ k.pc = "started" /\ k.member = m
    BY <1>1 DEF TeamCallRecord
  <2>3. teamCalls' = [teamCalls EXCEPT ![c] = k]
    BY <2>1 DEF M!Begin, TeamInv, TeamTypes
  <2>4. old = M!NoCall
    BY <2>1 DEF M!Begin
  <2>5. ~Disbands(old) /\ \A n \in memberSessions : ~Handles(old, n, profiles, bound)
    BY <1>3, <2>4 DEF Disbands, Handles
  <2> HIDE DEF k, old
  <2> QED BY <1>2, <2>1, <2>2, <2>3, <2>5 DEF M!Begin, M!Rest
<1>5. CASE M!Create(c) \/ M!Invoke(c) \/ M!Deliver(c)
  <2>1. ~Disbands(old) /\ \A n \in memberSessions : ~Handles(old, n, profiles, bound)
    BY <1>5 DEF Disbands, Handles, M!Create, M!Invoke, M!Deliver, M!At
  <2>2. /\ UNCHANGED <<leader, created, memberSessions, bound, profiles, registered>>
        /\ teamCalls' = [teamCalls EXCEPT ![c] = M!NoCall]
    BY <1>5 DEF M!Create, M!Invoke, M!Deliver, M!Return
  <2>3. M!NoCall.member <= created /\ ~(M!NoCall.kind = "drop" /\ M!NoCall.pc = "unbind")
    BY <1>1, <1>3
  <2> HIDE DEF old
  <2> QED BY <1>2, <1>3, <2>1, <2>2, <2>3
<1>6. CASE M!Say(c)
  <2>1. old.kind = "say" /\ ~Disbands(old) /\ \A n \in memberSessions : ~Handles(old, n, profiles, bound)
    BY <1>6 DEF Disbands, Handles, M!Say, M!At
  <2> DEFINE k == [old EXCEPT !.pc = "deliver"]
  <2>2. k \in TeamCallRecord /\ k.kind = "say" /\ k.member = old.member
    BY <1>1, <2>1 DEF TeamCallRecord
  <2>3. teamCalls' = [teamCalls EXCEPT ![c] = k] \/ teamCalls' = [teamCalls EXCEPT ![c] = M!NoCall]
    BY <1>6 DEF M!Say, M!Goto, M!Return, TeamInv, TeamTypes
  <2>4. UNCHANGED <<leader, created, memberSessions, bound, profiles, registered>>
    BY <1>6 DEF M!Say, M!Rest
  <2> HIDE DEF k, old
  <2> QED BY <1>1, <1>2, <1>3, <2>1, <2>2, <2>3, <2>4
<1>7. CASE M!Disband(c)
  <2>1. old.kind = "disband" /\ old.pc = "started"
    BY <1>7 DEF M!Disband, M!At
  <2> DEFINE k == [[old EXCEPT !.todo = registered] EXCEPT !.pc = "delete"]
  <2>2. k \in TeamCallRecord /\ k.kind = "disband" /\ k.member = old.member /\ k.pc = "delete"
    BY <1>1, <2>1 DEF TeamCallRecord, TeamInv, TeamTypes
  <2>3. teamCalls' = [teamCalls EXCEPT ![c] = k]
    BY <1>7 DEF M!Disband, TeamInv, TeamTypes
  <2>4. Disbands(k) /\ \A m \in memberSessions : ~Handles(old, m, profiles, bound)
    BY <2>1, <2>2 DEF Disbands, Handles
  <2> HIDE DEF k, old
  <2> QED BY <1>1, <1>2, <1>7, <2>2, <2>3, <2>4 DEF M!Disband, M!Rest
<1>8. CASE M!Drop(c)
  <2>1. old.kind = "drop" /\ old.pc = "started"
    BY <1>8 DEF M!Drop, M!At
  <2> DEFINE seen == old.member \in bound
             k == [[old EXCEPT !.seen = seen] EXCEPT !.pc = "delete"]
  <2>0. seen \in BOOLEAN
    OBVIOUS
  <2>3. teamCalls' = [teamCalls EXCEPT ![c] = k]
    BY <1>8 DEF M!Drop, TeamInv, TeamTypes
  <2> HIDE DEF seen
  <2>2. k \in TeamCallRecord /\ k.kind = "drop" /\ k.member = old.member /\ k.pc = "delete"
    BY <1>1, <2>0, <2>1 DEF TeamCallRecord
  <2>4. ~Disbands(old) /\ \A m \in memberSessions : Handles(old, m, profiles, bound) => Handles(k, m, profiles, bound)
    BY <2>1, <2>2 DEF Disbands, Handles
  <2> HIDE DEF k, old
  <2> QED BY <1>1, <1>2, <1>8, <2>2, <2>3, <2>4 DEF M!Drop, M!Rest
<1> QED BY <1>4, <1>5, <1>6, <1>7, <1>8

-----------------------------------------------------------------------------
\* Adding a member, step by step.
LEMMA TeamAdds ==
    ASSUME TeamInv, NEW c \in TeamCalls,
           \/ M!AddSession(c) \/ M!AddProfile(c) \/ M!AddBinding(c) \/ M!AddMember(c) \/ M!Undo(c)
    PROVE  TeamInv'
<1> USE DEF M!Kinds, M!Places, M!Nobody
<1> DEFINE old == teamCalls[c]
           n == old.member
<1>1. /\ old \in TeamCallRecord /\ n \in Nat /\ n <= created /\ created \in Nat /\ leader \in BOOLEAN
      /\ \A m \in memberSessions : m \in Nat /\ m <= created
      /\ registered \subseteq Nat /\ teamCalls \in [TeamCalls -> TeamCallRecord]
  BY DEF TeamInv, TeamTypes, TeamCallRecord
<1>2. ASSUME NEW pc \in M!Places
      PROVE  /\ [old EXCEPT !.pc = pc] \in TeamCallRecord
             /\ [old EXCEPT !.pc = pc].kind = old.kind /\ [old EXCEPT !.pc = pc].pc = pc
             /\ [old EXCEPT !.pc = pc].member = n
  BY <1>1 DEF TeamCallRecord
<1>3. M!Goto(c, "bind") \/ M!Goto(c, "undo") \/ M!Goto(c, "register") \/ M!Goto(c, "invoke") =>
         \E pc \in {"bind", "undo", "register", "invoke"} :
            M!Goto(c, pc) /\ teamCalls' = [teamCalls EXCEPT ![c] = [old EXCEPT !.pc = pc]]
  BY <1>1 DEF M!Goto
<1>4. CASE M!AddSession(c)
  <2>1. CASE leader /\ teamExists /\ created < MaxMembers
    <3> DEFINE new == created + 1
               k == [[old EXCEPT !.member = new] EXCEPT !.pc = "profile"]
    <3>0. new \in Nat /\ created < new /\ new <= created'
      BY <1>1, <1>4, <2>1 DEF M!AddSession
    <3>2. /\ teamCalls' = [teamCalls EXCEPT ![c] = k] /\ created' = new
          /\ memberSessions' = memberSessions \cup {new}
          /\ UNCHANGED <<leader, registered, bound, profiles>>
      BY <1>1, <1>4, <2>1 DEF M!AddSession
    <3> HIDE DEF new
    <3>1. k \in TeamCallRecord /\ k.kind = "add" /\ k.pc = "profile" /\ k.member = new
      <4>1. old.kind = "add"
        BY <1>4 DEF M!AddSession, M!At
      <4> QED BY <1>1, <3>0, <4>1 DEF TeamCallRecord
    <3>3. ~Disbands(old) /\ \A m \in memberSessions : ~Handles(old, m, profiles, bound)
      BY <1>4 DEF M!AddSession, M!At, Disbands, Handles
    <3>4. \A m \in memberSessions' : Handles(k, m, profiles', bound') \/ (Stays(m) /\ ~Handles(old, m, profiles, bound))
      BY <3>1, <3>2, <3>3 DEF Handles, Stays
    <3> HIDE DEF k
    <3>5. \A m \in memberSessions' :
              m \in memberSessions \/ (m \in Nat /\ created < m /\ m <= created')
      BY <1>1, <3>0, <3>2
    <3>6. /\ created' \in Nat /\ created <= created' /\ k.member <= created'
          /\ leader' \in BOOLEAN /\ registered' \subseteq Nat
      BY <1>1, <3>0, <3>1, <3>2
    <3> QED BY <3>1, <3>2, <3>3, <3>4, <3>5, <3>6, TeamMoves
  <2>2. CASE ~(leader /\ teamExists /\ created < MaxMembers)
    <3>1. /\ teamCalls' = [teamCalls EXCEPT ![c] = M!NoCall]
          /\ UNCHANGED <<leader, registered, created, memberSessions, bound, profiles>>
      BY <1>4, <2>2 DEF M!AddSession, M!Return
    <3>2. M!NoCall \in TeamCallRecord /\ M!NoCall.member = 0 /\ M!NoCall.kind = "none"
      BY DEF M!NoCall, TeamCallRecord
    <3>3. ~Disbands(old) /\ \A m \in memberSessions : ~Handles(old, m, profiles, bound)
      BY <1>4 DEF M!AddSession, M!At, Disbands, Handles
    <3>4. \A m \in memberSessions' : Stays(m) /\ ~Handles(old, m, profiles, bound)
      BY <3>1, <3>3 DEF Stays
    <3>5. /\ created' \in Nat /\ created <= created' /\ M!NoCall.member <= created'
          /\ leader' \in BOOLEAN /\ registered' \subseteq Nat
      BY <1>1, <3>1, <3>2
    <3> QED BY <3>1, <3>2, <3>3, <3>4, <3>5, TeamMoves
  <2> QED BY <2>1, <2>2
<1>5. ASSUME NEW pc \in M!Places, teamCalls' = [teamCalls EXCEPT ![c] = [old EXCEPT !.pc = pc]],
             old.kind = "add", UNCHANGED <<leader, created, memberSessions>>,
             registered' \subseteq Nat,
             \A m \in memberSessions : m # n \/ ~Handles(old, m, profiles, bound) => Stays(m),
             n \in memberSessions /\ Handles(old, n, profiles, bound) =>
                \/ pc \in {"profile", "undo"}
                \/ pc = "bind" /\ n \in profiles'
                \/ pc = "register" /\ n \in profiles' /\ n \in bound'
                \/ n \in registered' /\ n \in profiles' /\ n \in bound'
      PROVE  TeamInv'
  <2> DEFINE k == [old EXCEPT !.pc = pc]
  <2>1. k \in TeamCallRecord /\ k.kind = "add" /\ k.pc = pc /\ k.member = n
    BY <1>2, <1>5
  <2>2. \A m \in memberSessions' :
           \/ Handles(k, m, profiles', bound')
           \/ Whole(m)'
           \/ Stays(m) /\ ~Handles(old, m, profiles, bound)
    <3> SUFFICES ASSUME NEW m \in memberSessions
                 PROVE  \/ Handles(k, m, profiles', bound')
                        \/ Whole(m)'
                        \/ Stays(m) /\ ~Handles(old, m, profiles, bound)
      BY <1>5
    <3>1. CASE m # n \/ ~Handles(old, m, profiles, bound)
      <4>1. ~Handles(old, m, profiles, bound)
        BY <1>5, <3>1 DEF Handles
      <4> QED BY <1>5, <3>1, <4>1
    <3>2. CASE m = n /\ Handles(old, m, profiles, bound)
      <4> HIDE DEF k
      <4> QED BY <1>5, <2>1, <3>2 DEF Handles, Whole
    <3> QED BY <3>1, <3>2
  <2>3. ~Disbands(old)
    BY <1>5 DEF Disbands
  <2>4. teamCalls' = [teamCalls EXCEPT ![c] = k]
    BY <1>5
  <2>5. /\ created' \in Nat /\ created <= created' /\ k.member <= created'
        /\ leader' \in BOOLEAN /\ registered' \subseteq Nat /\ memberSessions' = memberSessions
    BY <1>1, <1>5, <2>1
  <2> HIDE DEF k
  <2> QED BY <1>5, <2>1, <2>2, <2>3, <2>4, <2>5, TeamMoves
<1>6. CASE M!AddProfile(c)
  <2>1. PICK pc \in M!Places : /\ teamCalls' = [teamCalls EXCEPT ![c] = [old EXCEPT !.pc = pc]]
                               /\ (pc = "bind" /\ n \in profiles') \/ pc = "undo"
    BY <1>1, <1>6 DEF M!AddProfile, M!Goto
  <2>2. /\ old.kind = "add" /\ UNCHANGED <<leader, created, memberSessions, bound, registered>>
        /\ profiles \subseteq profiles'
    BY <1>6 DEF M!AddProfile, M!At
  <2> HIDE DEF old, n
  <2> QED BY <1>1, <1>5, <2>1, <2>2 DEF Stays
<1>7. CASE M!AddBinding(c)
  <2>1. PICK pc \in M!Places : /\ teamCalls' = [teamCalls EXCEPT ![c] = [old EXCEPT !.pc = pc]]
                               /\ (pc = "register" /\ n \in bound') \/ pc = "undo"
    BY <1>1, <1>7 DEF M!AddBinding, M!Goto
  <2>2. /\ old.kind = "add" /\ old.pc = "bind"
        /\ UNCHANGED <<leader, created, memberSessions, profiles, registered>>
        /\ bound \subseteq bound'
    BY <1>7 DEF M!AddBinding, M!At
  <2>3. n \in memberSessions /\ Handles(old, n, profiles, bound) => n \in profiles'
    BY <2>2 DEF Handles
  <2> HIDE DEF old, n
  <2> QED BY <1>1, <1>5, <2>1, <2>2, <2>3 DEF Stays
<1>8. CASE M!AddMember(c)
  <2>1. PICK pc \in M!Places : /\ teamCalls' = [teamCalls EXCEPT ![c] = [old EXCEPT !.pc = pc]]
                               /\ (pc = "invoke" /\ n \in registered') \/ pc = "undo"
    BY <1>1, <1>8 DEF M!AddMember, M!Goto
  <2>2. /\ old.kind = "add" /\ old.pc = "register"
        /\ UNCHANGED <<leader, created, memberSessions, profiles, bound>>
        /\ registered \subseteq registered' /\ registered' \subseteq Nat
    BY <1>1, <1>8 DEF M!AddMember, M!At
  <2>3. n \in memberSessions /\ Handles(old, n, profiles, bound) => n \in profiles' /\ n \in bound'
    BY <2>2 DEF Handles
  <2> HIDE DEF old, n
  <2> QED BY <1>1, <1>5, <2>1, <2>2, <2>3 DEF Stays
<1>9. CASE M!Undo(c)
  <2> DEFINE k == [[old EXCEPT !.kind = "drop"] EXCEPT !.pc = "started"]
  <2>1. k \in TeamCallRecord /\ k.kind = "drop" /\ k.pc = "started" /\ k.member = n
    BY <1>1 DEF TeamCallRecord
  <2>2. /\ teamCalls' = [teamCalls EXCEPT ![c] = k] /\ profiles' = profiles \ {n}
        /\ UNCHANGED <<leader, registered, created, memberSessions, bound>>
        /\ old.kind = "add"
    BY <1>1, <1>9 DEF M!Undo, M!At
  <2>3. \A m \in memberSessions' : Handles(k, m, profiles', bound') \/ (Stays(m) /\ ~Handles(old, m, profiles, bound))
    <3> HIDE DEF k
    <3> QED BY <2>1, <2>2 DEF Handles, Stays
  <2>4. ~Disbands(old)
    BY <2>2 DEF Disbands
  <2>5. /\ created' \in Nat /\ created <= created' /\ k.member <= created'
        /\ leader' \in BOOLEAN /\ registered' \subseteq Nat /\ memberSessions' = memberSessions
    BY <1>1, <2>1, <2>2
  <2> HIDE DEF k
  <2> QED BY <2>1, <2>2, <2>3, <2>4, <2>5, TeamMoves
<1> QED BY <1>4, <1>6, <1>7, <1>8, <1>9

\* Deleting members, the team and the leader.
LEMMA TeamDeletes ==
    ASSUME TeamInv, NEW c \in TeamCalls,
           \/ M!Dissolve(c) \/ M!DissolveNext(c) \/ M!DropSession(c) \/ M!DropMember(c)
           \/ M!DisbandNext(c) \/ M!DisbandLeader(c)
    PROVE  TeamInv'
<1> USE DEF M!Kinds, M!Places, M!Nobody
<1> DEFINE old == teamCalls[c]
           n == old.member
<1>1. /\ old \in TeamCallRecord /\ n \in Nat /\ n <= created /\ created \in Nat /\ leader \in BOOLEAN
      /\ \A m \in memberSessions : m \in Nat /\ m <= created
      /\ registered \subseteq Nat /\ teamCalls \in [TeamCalls -> TeamCallRecord]
  BY DEF TeamInv, TeamTypes, TeamCallRecord
<1>2. M!NoCall \in TeamCallRecord /\ M!NoCall.member = 0 /\ M!NoCall.kind = "none" /\ M!NoCall.pc = "idle"
  BY DEF M!NoCall, TeamCallRecord
\* What becomes of the call, and of the members it does not delete.
<1>3. ASSUME NEW k \in TeamCallRecord, teamCalls' = [teamCalls EXCEPT ![c] = k],
             leader' \in BOOLEAN, leader' => leader, registered' \subseteq Nat, UNCHANGED created,
             k.member <= created, memberSessions' \subseteq memberSessions,
             k.kind = "drop" /\ k.pc = "unbind" => k.member \notin memberSessions',
             Disbands(old) => ~leader' \/ Disbands(k),
             leader' /\ ~Disbands(k) =>
                \A m \in memberSessions' :
                   \/ Handles(k, m, profiles', bound')
                   \/ Stays(m) /\ ~Handles(old, m, profiles, bound)
      PROVE  TeamInv'
  <2>1. created' \in Nat /\ created <= created' /\ k.member <= created'
    BY <1>1, <1>3
  <2> QED BY <1>3, <2>1, TeamMoves
<1>4. CASE M!Dissolve(c)
  <2>1. old.kind = "dissolve" /\ old.pc = "started"
    BY <1>4 DEF M!Dissolve, M!At
  <2>2. ~Disbands(old) /\ \A m \in memberSessions : ~Handles(old, m, profiles, bound)
    BY <2>1 DEF Disbands, Handles
  <2>3. CASE leader /\ teamExists
    <3> DEFINE k == [[old EXCEPT !.todo = registered] EXCEPT !.pc = "delete"]
    <3>1. k \in TeamCallRecord /\ k.kind = "dissolve" /\ k.pc = "delete" /\ k.member = n
          /\ k.todo = registered
      BY <1>1, <2>1 DEF TeamCallRecord
    <3>2. /\ teamCalls' = [teamCalls EXCEPT ![c] = k] /\ registered' = {}
          /\ UNCHANGED <<leader, created, memberSessions, bound, profiles>>
      BY <1>1, <1>4, <2>3 DEF M!Dissolve
    <3> HIDE DEF k
    <3>3. \A m \in memberSessions' :
             \/ Handles(k, m, profiles', bound')
             \/ Stays(m) /\ ~Handles(old, m, profiles, bound)
      BY <2>2, <3>1, <3>2 DEF Handles, Stays
    <3> QED BY <1>1, <1>3, <2>2, <3>1, <3>2, <3>3
  <2>4. CASE ~(leader /\ teamExists)
    <3>1. /\ teamCalls' = [teamCalls EXCEPT ![c] = M!NoCall]
          /\ UNCHANGED <<leader, registered, created, memberSessions, bound, profiles>>
      BY <1>4, <2>4 DEF M!Dissolve, M!Return
    <3>2. \A m \in memberSessions' : Stays(m) /\ ~Handles(old, m, profiles, bound)
      BY <2>2, <3>1 DEF Stays
    <3>3. M!NoCall.member <= created
      BY <1>1, <1>2
    <3> QED BY <1>1, <1>2, <1>3, <2>2, <3>1, <3>2, <3>3
  <2> QED BY <2>3, <2>4
<1>5. CASE M!DissolveNext(c)
  <2>1. old.kind = "dissolve" /\ old.pc = "delete"
    BY <1>5 DEF M!DissolveNext, M!At
  <2>2. ~Disbands(old) /\ UNCHANGED <<leader, registered, created>>
    BY <1>5, <2>1 DEF Disbands, M!DissolveNext
  <2>3. CASE old.todo = {} /\ M!Return(c) /\ UNCHANGED <<memberSessions, bound, mail, profiles>>
    <3>1. \A m \in memberSessions' : Stays(m) /\ ~Handles(old, m, profiles, bound)
      BY <2>1, <2>2, <2>3 DEF Stays, Handles
    <3>2. M!NoCall.member <= created
      BY <1>1, <1>2
    <3> QED BY <1>1, <1>2, <1>3, <2>2, <2>3, <3>1, <3>2 DEF M!Return
  <2>4. ASSUME NEW d \in old.todo,
               teamCalls' = [teamCalls EXCEPT ![c].todo = @ \ {d}],
               memberSessions' = memberSessions \ {d}, bound' = bound \ {d}, profiles' = profiles \ {d}
        PROVE  TeamInv'
    <3> DEFINE k == [old EXCEPT !.todo = old.todo \ {d}]
    <3>1. k \in TeamCallRecord /\ k.kind = "dissolve" /\ k.pc = "delete" /\ k.member = n
          /\ k.todo = old.todo \ {d}
      BY <1>1, <2>1 DEF TeamCallRecord
    <3>2. teamCalls' = [teamCalls EXCEPT ![c] = k]
      BY <1>1, <2>4
    <3> HIDE DEF k
    <3>3. \A m \in memberSessions' :
             \/ Handles(k, m, profiles', bound')
             \/ Stays(m) /\ ~Handles(old, m, profiles, bound)
      BY <2>1, <2>2, <2>4, <3>1 DEF Handles, Stays
    <3> QED BY <1>1, <1>3, <2>2, <2>4, <3>1, <3>2, <3>3
  <2> QED BY <1>5, <2>3, <2>4 DEF M!DissolveNext
<1>6. CASE M!DropSession(c)
  <2>1. old.kind = "drop" /\ old.pc = "delete" /\ ~Disbands(old)
    BY <1>6 DEF M!DropSession, M!At, Disbands
  <2>2. /\ UNCHANGED <<leader, registered, created, profiles>>
        /\ memberSessions' = memberSessions \ {n} /\ bound' = bound \ {n}
    BY <1>6 DEF M!DropSession
  <2>3. \A m \in memberSessions' : Stays(m) /\ ~Handles(old, m, profiles, bound)
    BY <2>1, <2>2 DEF Stays, Handles
  <2>4. CASE M!Return(c)
    <3>1. M!NoCall.member <= created
      BY <1>1, <1>2
    <3> QED BY <1>1, <1>2, <1>3, <2>1, <2>2, <2>3, <2>4, <3>1 DEF M!Return
  <2>5. CASE M!Goto(c, "unbind")
    <3> DEFINE k == [old EXCEPT !.pc = "unbind"]
    <3>1. k \in TeamCallRecord /\ k.kind = "drop" /\ k.pc = "unbind" /\ k.member = n
      BY <1>1, <2>1 DEF TeamCallRecord
    <3>2. teamCalls' = [teamCalls EXCEPT ![c] = k]
      BY <1>1, <2>5 DEF M!Goto
    <3> HIDE DEF k
    <3> QED BY <1>1, <1>3, <2>1, <2>2, <2>3, <3>1, <3>2
  <2> QED BY <1>6, <2>4, <2>5 DEF M!DropSession
<1>7. CASE M!DropMember(c)
  <2>1. old.kind = "drop" /\ old.pc = "unbind" /\ ~Disbands(old) /\ n \notin memberSessions
    BY <1>7 DEF M!DropMember, M!At, Disbands, TeamInv, DroppedIsGone
  <2>2. /\ UNCHANGED <<leader, created, memberSessions, bound>>
        /\ registered' = registered \ {n} /\ profiles' = profiles \ {n}
        /\ teamCalls' = [teamCalls EXCEPT ![c] = M!NoCall]
    BY <1>7 DEF M!DropMember, M!Return
  <2>3. \A m \in memberSessions' : Stays(m) /\ ~Handles(old, m, profiles, bound)
    BY <2>1, <2>2 DEF Stays, Handles
  <2>4. M!NoCall.member <= created
    BY <1>1, <1>2
  <2> QED BY <1>1, <1>2, <1>3, <2>1, <2>2, <2>3, <2>4
<1>8. CASE M!DisbandNext(c)
  <2>1. old.kind = "disband" /\ old.pc = "delete" /\ UNCHANGED <<leader, registered, created>>
    BY <1>8 DEF M!DisbandNext, M!At
  <2>2. PICK k \in TeamCallRecord : /\ teamCalls' = [teamCalls EXCEPT ![c] = k]
                                    /\ Disbands(k) /\ k.member = n
                                    /\ memberSessions' \subseteq memberSessions
    <3>1. CASE M!Goto(c, "forget") /\ UNCHANGED memberSessions
      <4> DEFINE k == [old EXCEPT !.pc = "forget"]
      <4>1. k \in TeamCallRecord /\ k.kind = "disband" /\ k.pc = "forget" /\ k.member = n
        BY <1>1, <2>1 DEF TeamCallRecord
      <4>2. teamCalls' = [teamCalls EXCEPT ![c] = k]
        BY <1>1, <3>1 DEF M!Goto
      <4> HIDE DEF k
      <4> QED BY <3>1, <4>1, <4>2 DEF Disbands
    <3>2. ASSUME NEW d \in old.todo, teamCalls' = [teamCalls EXCEPT ![c].todo = @ \ {d}],
                 memberSessions' = memberSessions \ {d}
          PROVE  \E k \in TeamCallRecord : /\ teamCalls' = [teamCalls EXCEPT ![c] = k]
                                           /\ Disbands(k) /\ k.member = n
                                           /\ memberSessions' \subseteq memberSessions
      <4> DEFINE k == [old EXCEPT !.todo = old.todo \ {d}]
      <4>1. k \in TeamCallRecord /\ k.kind = "disband" /\ k.pc = "delete" /\ k.member = n
        BY <1>1, <2>1 DEF TeamCallRecord
      <4>2. teamCalls' = [teamCalls EXCEPT ![c] = k]
        BY <1>1, <3>2
      <4> HIDE DEF k
      <4> QED BY <3>2, <4>1, <4>2 DEF Disbands
    <3> QED BY <1>8, <3>1, <3>2 DEF M!DisbandNext
  <2>3. ~(k.kind = "drop" /\ k.pc = "unbind")
    BY <2>2 DEF Disbands
  <2> QED BY <1>1, <1>3, <2>1, <2>2, <2>3
<1>9. CASE M!DisbandLeader(c)
  <2>1. /\ leader' = FALSE /\ registered' = {} /\ UNCHANGED <<created, memberSessions>>
        /\ teamCalls' = [teamCalls EXCEPT ![c] = M!NoCall]
    BY <1>9 DEF M!DisbandLeader, M!Return
  <2>2. M!NoCall.member <= created
    BY <1>1, <1>2
  <2> QED BY <1>1, <1>2, <1>3, <2>1, <2>2
<1> QED BY <1>4, <1>5, <1>6, <1>7, <1>8, <1>9

\* Every step of the tools and of the user keeps the invariant.
LEMMA TeamStep == TeamInv /\ [M!Next]_M!vars => TeamInv'
<1> SUFFICES ASSUME TeamInv, [M!Next]_M!vars PROVE TeamInv'
  OBVIOUS
<1>1. CASE UNCHANGED M!vars
  BY <1>1 DEF M!vars, TeamInv, TeamTypes, DroppedIsGone, MembersAreReached, Whole, M!At
<1> QED
  BY <1>1, TeamGoesOn, TeamAdds, TeamDeletes DEF M!Next

-----------------------------------------------------------------------------
(* The traces: what a client of the list is owed is further on than the    *)
(* page it is at, and there is a page for it.                              *)

\* The copy of Cardinality that the instance has is the same.
LEMMA SameInTraces == ASSUME NEW s PROVE J!Cardinality(s) = Cardinality(s)
BY DEF J!Cardinality, Cardinality

TraceRecord == [trace : Nat, open : BOOLEAN]
TraceClients ==
    [pc : {"idle", "counting", "selecting", "summing", "done"}, offset : Nat, total : Nat,
     page : SUBSET Nat, owed : SUBSET Nat, overtaken : BOOLEAN]
TraceTypes ==
    /\ traceSpans \in Seq(TraceRecord) /\ traceRows \subseteq DOMAIN traceSpans
    /\ traceClient \in TraceClients

\* How many of a set of roots come before one.
Before(roots, i) == Cardinality({j \in roots : j > i})
\* What a client is owed is there, and not on a page it has been at.
OwedIsAhead(c, roots) ==
    /\ c.pc \in {"counting", "selecting"} =>
          \A i \in c.owed : i \in roots /\ c.offset <= Before(roots, i)
    /\ c.pc = "selecting" /\ ~c.overtaken => Cardinality(roots) <= c.total
    /\ c.pc = "summing" =>
          /\ IsFiniteSet(c.page)
          /\ \A i \in c.owed \ c.page :
                /\ i \in roots /\ c.page # {} /\ c.offset + Cardinality(c.page) <= Before(roots, i)
                /\ ~c.overtaken => c.offset + Cardinality(c.page) < c.total
    /\ c.pc = "done" /\ ~c.overtaken => c.owed = {}
TracesInv == TraceTypes /\ OwedIsAhead(traceClient, J!Roots)

\* The client after a page, and after the last.
LEMMA NextPage ==
    ASSUME NEW n, NEW o, NEW d, d = [J!NoClient EXCEPT !.pc = "counting", !.offset = n, !.owed = o]
    PROVE  d = [pc |-> "counting", offset |-> n, total |-> 0, page |-> {}, owed |-> o, overtaken |-> FALSE]
BY DEF J!NoClient

LEMMA LastPage ==
    ASSUME NEW o, NEW v, NEW d, d = [J!NoClient EXCEPT !.pc = "done", !.owed = o, !.overtaken = v]
    PROVE  d = [pc |-> "done", offset |-> 0, total |-> 0, page |-> {}, owed |-> o, overtaken |-> v]
BY DEF J!NoClient

LEMMA TracesInit == J!Init => TracesInv
BY DEF J!Init, J!NoClient, TracesInv, TraceTypes, TraceClients, OwedIsAhead

LEMMA TracesHold == TracesInv => J!EveryTraceIsListed
BY DEF TracesInv, OwedIsAhead, J!EveryTraceIsListed

\* The roots are finitely many, and so are those before one of them.
LEMMA RootsAreFinite ==
    ASSUME TraceTypes
    PROVE  /\ J!Roots \subseteq Nat /\ IsFiniteSet(J!Roots)
           /\ \A i : Before(J!Roots, i) \in Nat
<1>1. DOMAIN traceSpans = 1 .. Len(traceSpans) /\ Len(traceSpans) \in Nat
  BY DEF TraceTypes
<1>2. J!Roots \subseteq 1 .. Len(traceSpans)
  BY <1>1 DEF TraceTypes, J!Roots
<1>3. IsFiniteSet(1 .. Len(traceSpans))
  BY <1>1, FS_Interval
<1>4. IsFiniteSet(J!Roots)
  BY <1>2, <1>3, FS_Subset
<1>5. ASSUME NEW i PROVE Before(J!Roots, i) \in Nat
  <2>1. {j \in J!Roots : j > i} \in SUBSET J!Roots
    OBVIOUS
  <2> QED BY <1>4, <2>1, FS_Subset, FS_CardinalityType DEF Before
<1> QED BY <1>1, <1>2, <1>4, <1>5

\* More roots put none further to the front.
LEMMA MoreRoots ==
    ASSUME NEW A, NEW C, A \subseteq C, IsFiniteSet(C), NEW i
    PROVE  Before(A, i) <= Before(C, i)
<1>1. {j \in C : j > i} \in SUBSET C /\ {j \in A : j > i} \in SUBSET {j \in C : j > i}
  OBVIOUS
<1>2. IsFiniteSet({j \in C : j > i})
  BY <1>1, FS_Subset
<1> QED BY <1>1, <1>2, FS_Subset DEF Before

\* The places of the roots are those from 0 up to their number.
LEMMA RanksAreAll ==
    ASSUME NEW A \in SUBSET Nat, IsFiniteSet(A)
    PROVE  /\ \A i \in A : Before(A, i) \in 0 .. Cardinality(A) - 1
           /\ \A i, j \in A : Before(A, i) = Before(A, j) => i = j
           /\ \A n \in 0 .. Cardinality(A) - 1 : \E i \in A : Before(A, i) = n
<1> DEFINE Front(i) == {j \in A : j > i}
           N == Cardinality(A)
<1>1. N \in Nat
  BY FS_CardinalityType
<1>2. \A i \in A : Front(i) \in SUBSET A /\ IsFiniteSet(Front(i)) /\ Cardinality(Front(i)) \in Nat
  BY FS_Subset, FS_CardinalityType
<1>3. ASSUME NEW i \in A PROVE Cardinality(Front(i)) < N
  <2>1. i \notin Front(i)
    OBVIOUS
  <2>2. Front(i) # A
    BY <2>1
  <2> QED BY <1>1, <1>2, <2>2, FS_Subset
<1>4. ASSUME NEW i \in A, NEW j \in A, i < j PROVE Cardinality(Front(j)) < Cardinality(Front(i))
  <2>1. Front(j) \in SUBSET Front(i) /\ j \in Front(i) /\ j \notin Front(j)
    <3>1. \A m \in A : m > j => m > i
      BY <1>4
    <3>2. j > i /\ ~(j > j)
      BY <1>4
    <3> QED BY <3>1, <3>2
  <2>2. Front(j) # Front(i)
    BY <2>1
  <2> QED BY <1>2, <2>1, <2>2, FS_Subset
<1>5. \A i \in A : Before(A, i) \in 0 .. N - 1
  BY <1>1, <1>2, <1>3 DEF Before
<1>6. \A i, j \in A : Before(A, i) = Before(A, j) => i = j
  <2> SUFFICES ASSUME NEW i \in A, NEW j \in A, i # j PROVE Before(A, i) # Before(A, j)
    OBVIOUS
  <2>1. i < j \/ j < i
    OBVIOUS
  <2> QED BY <1>2, <1>4, <2>1 DEF Before
<1>7. \A n \in 0 .. N - 1 : \E i \in A : Before(A, i) = n
  <2> DEFINE f == [i \in A |-> Before(A, i)]
  <2>1. f \in Injection(A, 0 .. N - 1)
    BY <1>5, <1>6 DEF Injection, IsInjective
  <2>2. IsFiniteSet(0 .. N - 1) /\ Cardinality(0 .. N - 1) = N
    <3>1. 0 \in Int /\ N - 1 \in Int /\ (0 > N - 1 => N = 0) /\ (N - 1) - 0 + 1 = N
      BY <1>1
    <3> QED BY <3>1, FS_Interval
  <2>3. f \in Surjection(A, 0 .. N - 1)
    <3> HIDE DEF f
    <3> QED BY <2>1, <2>2, FS_Injection
  <2> QED BY <2>3 DEF Surjection
<1> QED BY <1>5, <1>6, <1>7

\* A page is no longer than it may be, and not empty if there is more behind it.
LEMMA PageIsFull ==
    ASSUME NEW A \in SUBSET Nat, IsFiniteSet(A), NEW o \in Nat
    PROVE  LET page == {i \in A : o <= Before(A, i) /\ Before(A, i) < o + TracePageSize}
           IN  /\ IsFiniteSet(page) /\ Cardinality(page) \in Nat /\ Cardinality(page) <= TracePageSize
               /\ \A i \in A : o + TracePageSize <= Before(A, i) => page # {}
<1> DEFINE page == {i \in A : o <= Before(A, i) /\ Before(A, i) < o + TracePageSize}
           last == o + TracePageSize - 1
<1>1. TracePageSize \in Nat /\ TracePageSize # 0 /\ Cardinality(A) \in Nat
  BY TraceAssumption, FS_CardinalityType
<1>2. IsFiniteSet(o .. last) /\ Cardinality(o .. last) = TracePageSize
  <2>1. o \in Int /\ last \in Int /\ ~(o > last) /\ last - o + 1 = TracePageSize
    BY <1>1
  <2> QED BY <2>1, FS_Interval
<1>3. [i \in page |-> Before(A, i)] \in Injection(page, o .. last)
  <2>1. \A i \in page : Before(A, i) \in o .. last
    BY <1>1, RanksAreAll
  <2> QED BY <2>1, RanksAreAll DEF Injection, IsInjective
<1>4. IsFiniteSet(page) /\ Cardinality(page) <= TracePageSize
  <2> DEFINE f == [i \in page |-> Before(A, i)]
  <2> HIDE DEF f, page
  <2> QED BY <1>2, <1>3, FS_Injection DEF f
<1>5. ASSUME NEW i \in A, o + TracePageSize <= Before(A, i) PROVE page # {}
  <2>1. Before(A, i) \in 0 .. Cardinality(A) - 1
    BY RanksAreAll
  <2>2. o \in 0 .. Cardinality(A) - 1
    BY <1>1, <1>5, <2>1
  <2>3. PICK j \in A : Before(A, j) = o
    BY <2>2, RanksAreAll
  <2>4. j \in page
    BY <1>1, <2>3
  <2> QED BY <2>4
<1>6. Cardinality(page) \in Nat
  BY <1>4, FS_CardinalityType
<1> QED BY <1>4, <1>5, <1>6

\* Steps of the client: the rows are as they are.
LEMMA TracesRead ==
    ASSUME TracesInv, J!Open \/ J!CountRoots \/ J!SelectRoots \/ J!Summarise
    PROVE  TracesInv'
<1> DEFINE roots == J!Roots
           c == traceClient
           d == traceClient'
<1>1. /\ TraceTypes /\ OwedIsAhead(c, roots) /\ UNCHANGED <<traceSpans, traceRows>>
      /\ J!Roots' = roots /\ c \in TraceClients /\ roots \subseteq Nat /\ IsFiniteSet(roots)
      /\ \A i : Before(roots, i) \in Nat
  BY RootsAreFinite DEF TracesInv, TraceTypes, J!Open, J!CountRoots, J!SelectRoots, J!Summarise, J!Roots
<1> HIDE DEF roots
<1>2. SUFFICES d \in TraceClients /\ OwedIsAhead(d, roots)
  BY <1>1 DEF TracesInv, TraceTypes
<1>3. CASE J!Open
  <2>1. d = [pc |-> "counting", offset |-> 0, total |-> 0, page |-> {}, owed |-> roots, overtaken |-> FALSE]
    BY <1>3 DEF J!Open, J!NoClient, roots
  <2>2. \A i \in roots : 0 <= Before(roots, i)
    BY <1>1
  <2>3. roots \in SUBSET Nat
    BY <1>1
  <2> HIDE DEF d
  <2>4. d \in TraceClients
    BY <2>1, <2>3 DEF TraceClients
  <2>5. d.pc = "counting" /\ d.owed = roots /\ d.offset = 0
    BY <2>1
  <2> QED BY <2>2, <2>4, <2>5 DEF OwedIsAhead
<1>4. CASE J!CountRoots
  <2>1. d = [c EXCEPT !.pc = "selecting", !.total = Cardinality(roots)] /\ c.pc = "counting"
    BY <1>4, SameInTraces DEF J!CountRoots, roots
  <2>2. Cardinality(roots) \in Nat /\ Cardinality(roots) <= Cardinality(roots)
    BY <1>1, FS_CardinalityType
  <2> QED BY <1>1, <2>1, <2>2 DEF TraceClients, OwedIsAhead
<1>5. CASE J!SelectRoots
  <2> DEFINE page == {i \in roots : c.offset <= Before(roots, i) /\ Before(roots, i) < c.offset + TracePageSize}
  <2>1. d = [c EXCEPT !.pc = "summing", !.page = page] /\ c.pc = "selecting"
    BY <1>5, SameInTraces DEF J!SelectRoots, J!PageAt, J!Ahead, Before, roots
  <2>2. c.offset \in Nat /\ c.total \in Nat
    BY <1>1 DEF TraceClients
  <2>3. /\ IsFiniteSet(page) /\ Cardinality(page) \in Nat /\ Cardinality(page) <= TracePageSize
        /\ \A i \in roots : c.offset + TracePageSize <= Before(roots, i) => page # {}
    BY <1>1, <2>2, PageIsFull
  <2>4. page \subseteq Nat
    BY <1>1
  <2>5. ASSUME NEW i \in c.owed \ page
        PROVE  /\ i \in roots /\ page # {} /\ c.offset + Cardinality(page) <= Before(roots, i)
               /\ ~c.overtaken => c.offset + Cardinality(page) < c.total
    <3>1. i \in roots /\ c.offset <= Before(roots, i)
      BY <1>1, <2>1 DEF OwedIsAhead
    <3>2. c.offset + TracePageSize <= Before(roots, i)
      BY <1>1, <2>2, <3>1, TraceAssumption
    <3>3. c.offset + Cardinality(page) <= Before(roots, i)
      BY <1>1, <2>2, <2>3, <3>2, TraceAssumption
    <3>4. ~c.overtaken => c.offset + Cardinality(page) < c.total
      <4>1. Before(roots, i) \in 0 .. Cardinality(roots) - 1 /\ Cardinality(roots) \in Nat
        BY <1>1, <3>1, RanksAreAll, FS_CardinalityType
      <4>2. ~c.overtaken => Cardinality(roots) <= c.total
        BY <1>1, <2>1 DEF OwedIsAhead
      <4> QED BY <2>2, <2>3, <3>3, <4>1, <4>2
    <3> QED BY <2>3, <3>1, <3>2, <3>3, <3>4
  <2> HIDE DEF page
  <2>6. /\ d \in TraceClients /\ d.pc = "summing" /\ d.page = page /\ d.owed = c.owed
        /\ d.offset = c.offset /\ d.total = c.total /\ d.overtaken = c.overtaken
    BY <1>1, <2>1, <2>4 DEF TraceClients
  <2> QED BY <2>3, <2>5, <2>6 DEF OwedIsAhead
<1>6. CASE J!Summarise
  <2> DEFINE next == c.offset + Cardinality(c.page)
             owed == c.owed \ c.page
  <2>1. /\ c.pc = "summing"
        /\ d = IF c.page # {} /\ next < c.total
               THEN [pc |-> "counting", offset |-> next, total |-> 0, page |-> {}, owed |-> owed,
                     overtaken |-> FALSE]
               ELSE [pc |-> "done", offset |-> 0, total |-> 0, page |-> {}, owed |-> owed,
                     overtaken |-> c.overtaken]
    <3>1. J!Cardinality(c.page) = Cardinality(c.page)
      BY SameInTraces
    <3>3. /\ c.pc = "summing"
          /\ d = IF c.page # {} /\ next < c.total
                 THEN [J!NoClient EXCEPT !.pc = "counting", !.offset = next, !.owed = owed]
                 ELSE [J!NoClient EXCEPT !.pc = "done", !.owed = owed, !.overtaken = c.overtaken]
      BY <1>6, <3>1 DEF J!Summarise, J!HasMore
    <3>4. CASE c.page # {} /\ next < c.total
      <4>1. d = [J!NoClient EXCEPT !.pc = "counting", !.offset = next, !.owed = owed]
        BY <3>3, <3>4
      <4>2. d = [pc |-> "counting", offset |-> next, total |-> 0, page |-> {}, owed |-> owed, overtaken |-> FALSE]
        <5> HIDE DEF d, next, owed
        <5> QED BY <4>1, NextPage
      <4> QED BY <3>3, <3>4, <4>2
    <3>5. CASE ~(c.page # {} /\ next < c.total)
      <4>1. d = [J!NoClient EXCEPT !.pc = "done", !.owed = owed, !.overtaken = c.overtaken]
        BY <3>3, <3>5
      <4>2. d = [pc |-> "done", offset |-> 0, total |-> 0, page |-> {}, owed |-> owed, overtaken |-> c.overtaken]
        <5> HIDE DEF d, next, owed
        <5> QED BY <4>1, LastPage
      <4> QED BY <3>3, <3>5, <4>2
    <3> QED BY <3>4, <3>5
  <2>2. next \in Nat /\ owed \subseteq Nat
    BY <1>1, <2>1, FS_CardinalityType DEF OwedIsAhead, TraceClients
  <2>3. \A i \in owed : /\ i \in roots /\ c.page # {} /\ next <= Before(roots, i)
                        /\ ~c.overtaken => next < c.total
    BY <1>1, <2>1 DEF OwedIsAhead
  <2> HIDE DEF next, owed
  <2> QED BY <1>1, <2>1, <2>2, <2>3 DEF TraceClients, OwedIsAhead
<1> QED BY <1>3, <1>4, <1>5, <1>6

\* Rows that are added, or written again: a root that comes while the client is
\* between the count and the rows overtakes it.
LEMMA TracesUpserted ==
    ASSUME TracesInv, NEW i \in DOMAIN traceSpans', J!Upsert(i),
           traceSpans' \in Seq(TraceRecord), DOMAIN traceSpans \subseteq DOMAIN traceSpans',
           \A j \in DOMAIN traceSpans : traceSpans'[j].trace = traceSpans[j].trace
    PROVE  TracesInv'
<1> DEFINE c == traceClient
           d == traceClient'
           new == /\ c.pc = "selecting" /\ traceSpans'[i].trace = i /\ i \notin traceRows
<1>1. /\ TraceTypes /\ OwedIsAhead(c, J!Roots) /\ c \in TraceClients
      /\ J!Roots \subseteq Nat /\ IsFiniteSet(J!Roots) /\ \A n : Before(J!Roots, n) \in Nat
  BY RootsAreFinite DEF TracesInv, TraceTypes
<1>2. /\ traceRows' \in {traceRows, traceRows \cup {i}}
      /\ d = [c EXCEPT !.overtaken = @ \/ new] \/ (UNCHANGED <<traceRows, traceClient>>)
  BY DEF J!Upsert
<1>3. /\ d \in TraceClients
      /\ d.pc = c.pc /\ d.page = c.page /\ d.owed = c.owed /\ d.offset = c.offset /\ d.total = c.total
      /\ c.overtaken => d.overtaken
      /\ ~d.overtaken => ~new \/ UNCHANGED traceRows
  BY <1>1, <1>2 DEF TraceClients
<1>4. TraceTypes'
  BY <1>1, <1>2, <1>3 DEF TraceTypes
<1>5. J!Roots \subseteq J!Roots' /\ IsFiniteSet(J!Roots') /\ \A n : Before(J!Roots', n) \in Nat
  <2>1. J!Roots \subseteq J!Roots'
    BY <1>1, <1>2 DEF TraceTypes, J!Roots
  <2>2. DOMAIN traceSpans' = 1 .. Len(traceSpans') /\ Len(traceSpans') \in Nat
    OBVIOUS
  <2>3. J!Roots' \in SUBSET (1 .. Len(traceSpans'))
    BY <1>4, <2>2 DEF TraceTypes, J!Roots
  <2>4. IsFiniteSet(J!Roots')
    <3>1. IsFiniteSet(1 .. Len(traceSpans'))
      BY <2>2, FS_Interval
    <3> QED BY <2>3, <3>1, FS_Subset
  <2>5. ASSUME NEW n PROVE Before(J!Roots', n) \in Nat
    <3>1. {j \in J!Roots' : j > n} \in SUBSET J!Roots'
      OBVIOUS
    <3> QED BY <2>4, <3>1, FS_Subset, FS_CardinalityType DEF Before
  <2> QED BY <2>1, <2>4, <2>5
<1>6. ASSUME NEW n PROVE Before(J!Roots, n) <= Before(J!Roots', n)
  BY <1>5, MoreRoots
<1>7. c.pc = "selecting" /\ ~d.overtaken => J!Roots' = J!Roots
  BY <1>1, <1>2, <1>3 DEF TraceTypes, J!Roots
<1>8. c.offset \in Nat /\ (IsFiniteSet(c.page) => c.offset + Cardinality(c.page) \in Nat)
  BY <1>1, FS_CardinalityType DEF TraceClients
<1>9. OwedIsAhead(d, J!Roots')
  <2>1. ASSUME d.pc \in {"counting", "selecting"}, NEW n \in d.owed
        PROVE  n \in J!Roots' /\ d.offset <= Before(J!Roots', n)
    <3>1. n \in J!Roots /\ c.offset <= Before(J!Roots, n)
      BY <1>1, <1>3, <2>1 DEF OwedIsAhead
    <3> QED BY <1>1, <1>3, <1>5, <1>6, <1>8, <3>1
  <2>2. d.pc = "selecting" /\ ~d.overtaken => Cardinality(J!Roots') <= d.total
    BY <1>1, <1>3, <1>7 DEF OwedIsAhead
  <2>3. ASSUME d.pc = "summing"
        PROVE  /\ IsFiniteSet(d.page)
               /\ \A n \in d.owed \ d.page :
                     /\ n \in J!Roots' /\ d.page # {}
                     /\ d.offset + Cardinality(d.page) <= Before(J!Roots', n)
                     /\ ~d.overtaken => d.offset + Cardinality(d.page) < d.total
    <3>1. IsFiniteSet(c.page)
      BY <1>1, <1>3, <2>3 DEF OwedIsAhead
    <3> SUFFICES ASSUME NEW n \in d.owed \ d.page
                 PROVE  /\ n \in J!Roots' /\ d.page # {}
                        /\ d.offset + Cardinality(d.page) <= Before(J!Roots', n)
                        /\ ~d.overtaken => d.offset + Cardinality(d.page) < d.total
      BY <1>3, <3>1
    <3>2. /\ n \in J!Roots /\ c.page # {} /\ c.offset + Cardinality(c.page) <= Before(J!Roots, n)
          /\ ~c.overtaken => c.offset + Cardinality(c.page) < c.total
      BY <1>1, <1>3, <2>3 DEF OwedIsAhead
    <3> QED BY <1>1, <1>3, <1>5, <1>6, <1>8, <3>1, <3>2
  <2>4. d.pc = "done" /\ ~d.overtaken => d.owed = {}
    BY <1>1, <1>3 DEF OwedIsAhead
  <2> QED BY <2>1, <2>2, <2>3, <2>4 DEF OwedIsAhead
<1> QED BY <1>4, <1>9 DEF TracesInv

\* A purge takes the oldest away: what is left is as far from the front as before.
LEMMA TracesPurged == ASSUME TracesInv, J!Purge PROVE TracesInv'
<1> DEFINE c == traceClient
           d == traceClient'
<1>1. /\ TraceTypes /\ OwedIsAhead(c, J!Roots) /\ c \in TraceClients
      /\ J!Roots \subseteq Nat /\ IsFiniteSet(J!Roots) /\ \A n : Before(J!Roots, n) \in Nat
  BY RootsAreFinite DEF TracesInv, TraceTypes
<1>2. UNCHANGED traceSpans
  BY DEF J!Purge
<1>3. CASE UNCHANGED <<traceRows, traceClient>>
  BY <1>1, <1>2, <1>3 DEF TracesInv, TraceTypes, J!Roots
<1>4. ASSUME NEW cutoff \in DOMAIN traceSpans, traceRows' = {i \in traceRows : i > cutoff},
             d = [c EXCEPT !.owed = @ \cap traceRows']
      PROVE  TracesInv'
  <2>1. /\ d \in TraceClients /\ d.owed = c.owed \cap traceRows'
        /\ d.pc = c.pc /\ d.page = c.page /\ d.offset = c.offset /\ d.total = c.total
        /\ d.overtaken = c.overtaken
    BY <1>1, <1>4 DEF TraceClients
  <2>2. cutoff \in Nat /\ traceRows \subseteq Nat
    BY <1>1 DEF TraceTypes
  <2>3. J!Roots' = {i \in J!Roots : i > cutoff}
    BY <1>2, <1>4 DEF J!Roots
  <2>4. J!Roots' \in SUBSET J!Roots /\ IsFiniteSet(J!Roots')
        /\ Cardinality(J!Roots') <= Cardinality(J!Roots)
        /\ Cardinality(J!Roots) \in Nat /\ Cardinality(J!Roots') \in Nat
    BY <1>1, <2>3, FS_Subset, FS_CardinalityType
  <2>5. ASSUME NEW i \in J!Roots' PROVE Before(J!Roots', i) = Before(J!Roots, i)
    <3>1. \A j \in J!Roots : j > i => j > cutoff
      BY <1>1, <2>2, <2>3, <2>5
    <3>2. {j \in J!Roots' : j > i} = {j \in J!Roots : j > i}
      BY <2>3, <3>1
    <3> QED BY <3>2 DEF Before
  <2>6. \A i \in d.owed : i \in J!Roots => i \in J!Roots'
    BY <1>4, <2>1, <2>3
  <2>7. TraceTypes'
    BY <1>1, <1>2, <1>4, <2>1 DEF TraceTypes
  <2>8. OwedIsAhead(d, J!Roots')
    <3>1. ASSUME d.pc \in {"counting", "selecting"}, NEW i \in d.owed
          PROVE  i \in J!Roots' /\ d.offset <= Before(J!Roots', i)
      BY <1>1, <2>1, <2>5, <2>6, <3>1 DEF OwedIsAhead
    <3>2. d.pc = "selecting" /\ ~d.overtaken => Cardinality(J!Roots') <= d.total
      <4>1. d.total \in Nat
        BY <2>1 DEF TraceClients
      <4> QED BY <1>1, <2>1, <2>4, <4>1 DEF OwedIsAhead
    <3>3. ASSUME d.pc = "summing"
          PROVE  /\ IsFiniteSet(d.page)
                 /\ \A i \in d.owed \ d.page :
                       /\ i \in J!Roots' /\ d.page # {}
                       /\ d.offset + Cardinality(d.page) <= Before(J!Roots', i)
                       /\ ~d.overtaken => d.offset + Cardinality(d.page) < d.total
      BY <1>1, <2>1, <2>5, <2>6, <3>3 DEF OwedIsAhead
    <3>4. d.pc = "done" /\ ~d.overtaken => d.owed = {}
      BY <1>1, <2>1 DEF OwedIsAhead
    <3> QED BY <3>1, <3>2, <3>3, <3>4 DEF OwedIsAhead
  <2> QED BY <2>7, <2>8 DEF TracesInv
<1> QED BY <1>3, <1>4 DEF J!Purge

LEMMA TracesStep == ASSUME TracesInv, [J!Next]_J!vars PROVE TracesInv'
<1>1. TraceTypes
  BY DEF TracesInv
<1>2. CASE J!Start
  <2> DEFINE i == Len(traceSpans) + 1
  <2>1. Len(traceSpans) \in Nat /\ DOMAIN traceSpans = 1 .. Len(traceSpans)
    BY <1>1 DEF TraceTypes
  <2>2. PICK trace \in {i} \cup {j \in DOMAIN traceSpans : traceSpans[j].trace = j /\ traceSpans[j].open} :
           traceSpans' = Append(traceSpans, [trace |-> trace, open |-> TRUE])
    BY <1>2 DEF J!Start
  <2>3. [trace |-> trace, open |-> TRUE] \in TraceRecord
    BY <2>1, <2>2 DEF TraceRecord
  <2>4. /\ traceSpans' \in Seq(TraceRecord) /\ i \in DOMAIN traceSpans'
        /\ DOMAIN traceSpans \subseteq DOMAIN traceSpans'
        /\ \A j \in DOMAIN traceSpans : traceSpans'[j] = traceSpans[j]
    BY <1>1, <2>1, <2>2, <2>3 DEF TraceTypes
  <2>5. J!Upsert(i)
    BY <1>2 DEF J!Start
  <2> HIDE DEF i
  <2> QED BY <2>4, <2>5, TracesUpserted
<1>3. ASSUME NEW i \in DOMAIN traceSpans, J!End(i) PROVE TracesInv'
  <2>1. traceSpans' = [traceSpans EXCEPT ![i].open = FALSE] /\ J!Upsert(i)
    BY <1>3 DEF J!End
  <2>2. /\ traceSpans' \in Seq(TraceRecord) /\ DOMAIN traceSpans' = DOMAIN traceSpans
        /\ \A j \in DOMAIN traceSpans : traceSpans'[j].trace = traceSpans[j].trace
    <3>1. DOMAIN traceSpans = 1 .. Len(traceSpans) /\ Len(traceSpans) \in Nat
      BY <1>1 DEF TraceTypes
    <3>2. \A j \in DOMAIN traceSpans : traceSpans[j] \in TraceRecord
      BY <1>1 DEF TraceTypes
    <3>3. \A j \in DOMAIN traceSpans :
             traceSpans'[j] = IF j = i THEN [traceSpans[j] EXCEPT !.open = FALSE] ELSE traceSpans[j]
      BY <2>1
    <3>4. DOMAIN traceSpans' = DOMAIN traceSpans
      BY <2>1
    <3>5. \A j \in DOMAIN traceSpans :
             /\ traceSpans'[j] \in TraceRecord /\ traceSpans'[j].trace = traceSpans[j].trace
      <4>1. \A r \in TraceRecord : /\ [r EXCEPT !.open = FALSE] \in TraceRecord
                                   /\ [r EXCEPT !.open = FALSE].trace = r.trace
        BY DEF TraceRecord
      <4> QED BY <3>2, <3>3, <4>1
    <3>6. traceSpans' = [j \in 1 .. Len(traceSpans) |-> traceSpans'[j]]
      BY <2>1, <3>1
    <3>7. traceSpans' \in [1 .. Len(traceSpans) -> TraceRecord]
      BY <3>1, <3>5, <3>6
    <3> QED BY <3>1, <3>4, <3>5, <3>7
  <2> QED BY <2>1, <2>2, TracesUpserted
<1>4. CASE J!Crash
  <2>1. /\ traceSpans' = [i \in DOMAIN traceSpans |-> [traceSpans[i] EXCEPT !.open = FALSE]]
        /\ traceClient' = J!NoClient /\ UNCHANGED traceRows
    BY <1>4 DEF J!Crash
  <2>2. traceSpans' \in Seq(TraceRecord) /\ DOMAIN traceSpans' = DOMAIN traceSpans
    <3>1. DOMAIN traceSpans = 1 .. Len(traceSpans) /\ Len(traceSpans) \in Nat
      BY <1>1 DEF TraceTypes
    <3>2. \A j \in DOMAIN traceSpans : traceSpans[j] \in TraceRecord
      BY <1>1 DEF TraceTypes
    <3>3. \A r \in TraceRecord : [r EXCEPT !.open = FALSE] \in TraceRecord
      BY DEF TraceRecord
    <3>4. traceSpans' \in [1 .. Len(traceSpans) -> TraceRecord]
      BY <2>1, <3>1, <3>2, <3>3
    <3> QED BY <2>1, <3>1, <3>4
  <2>3. traceClient' \in TraceClients /\ OwedIsAhead(traceClient', J!Roots')
    BY <2>1 DEF J!NoClient, TraceClients, OwedIsAhead
  <2> QED BY <1>1, <2>1, <2>2, <2>3 DEF TracesInv, TraceTypes
<1>5. CASE UNCHANGED J!vars
  BY <1>5 DEF J!vars, TracesInv, TraceTypes, J!Roots
<1> QED BY <1>2, <1>3, <1>4, <1>5, TracesPurged, TracesRead DEF J!Next

-----------------------------------------------------------------------------
(* Connected clients: what a client does not have yet is on its way to it, *)
(* in order, and a baseline is sent while nothing else is.                 *)

EventOf(f, s) == f.kind = "event" /\ f.session = s
QueueOf(f, s) == f.kind = "queue" /\ f.session = s

\* The frames in a queue of them, and those that are being sent, to whom.
Frames(q) == {q[i] : i \in DOMAIN q}
Flying == IF sending = W!Idle THEN {} ELSE {sending.frame}
FlyingTo(w) == IF sending # W!Idle /\ w \in sending.targets THEN {sending.frame} ELSE {}

Carried(fs, s, m) == \E f \in fs : EventOf(f, s) /\ f.n = m
HasQueue(fs, s) == \E f \in fs : QueueOf(f, s)
NumbersUpTo(fs, s, n) == \A f \in fs : EventOf(f, s) => f.n <= n
Below(fs, gs, s) == \A f \in fs, g \in gs : EventOf(f, s) /\ EventOf(g, s) => f.n < g.n
InOrder(q, s) ==
    \A i, j \in DOMAIN q : i < j /\ EventOf(q[i], s) /\ EventOf(q[j], s) => q[i].n < q[j].n
Newest(q, s, n) ==
    \A i \in DOMAIN q :
        QueueOf(q[i], s) /\ (\A j \in DOMAIN q : i < j => ~ QueueOf(q[j], s)) => q[i].n = n

\* What waits for a client.
Owed(w, s, m) == Carried(Frames(forward) \cup Frames(outbound) \cup FlyingTo(w), s, m)
OwedQueue(w, s) == queueChanged[s] > 0 \/ HasQueue(Frames(outbound) \cup FlyingTo(w), s)

ViewFields == {"held", "current", "gap", "queue"}
WireTypes ==
    /\ logged \in [WireSessions -> Nat] /\ revision \in [WireSessions -> Nat]
    /\ queueChanged \in [WireSessions -> Nat]
    /\ forward \in Seq(W!Frame) /\ outbound \in Seq(W!Frame)
    /\ \A f \in Frames(forward) : f.kind = "event"
    /\ sending = W!Idle \/ sending \in [frame : W!Frame, targets : SUBSET Sockets]
    /\ DOMAIN outputLocks = WireSessions
    /\ DOMAIN connected = WireSessions /\ \A s \in WireSessions : connected[s] \subseteq Sockets
    /\ DOMAIN sockets = Sockets /\ \A w \in Sockets : DOMAIN sockets[w] = {"open", "known", "work"}
    /\ DOMAIN views = Sockets
    /\ \A w \in Sockets : /\ DOMAIN views[w] = WireSessions
                          /\ \A s \in WireSessions : DOMAIN views[w][s] = ViewFields

\* The frames of a Session are in the order of its events, along the way.
PipeInv(s) ==
    /\ InOrder(forward, s) /\ InOrder(outbound, s)
    /\ Below(Frames(outbound), Frames(forward), s)
    /\ Below(Flying, Frames(outbound), s) /\ Below(Flying, Frames(forward), s)
    /\ NumbersUpTo(Frames(forward), s, logged[s]) /\ NumbersUpTo(Frames(outbound), s, logged[s])
    /\ NumbersUpTo(Flying, s, logged[s])
\* The last of the frames that say what the queue is says what it is now.
QueueInv(s) ==
    queueChanged[s] = 0 =>
        /\ Newest(outbound, s, revision[s])
        /\ ~ HasQueue(Frames(outbound), s) => \A f \in Flying : QueueOf(f, s) => f.n = revision[s]

AtLast(w, s) == W!Work(w).pc = "last" /\ W!Work(w).session = s
ClientInv(w, s) ==
    sockets[w].open /\ views[w][s].current =>
        /\ w \in connected[s] /\ ~ views[w][s].gap
        /\ views[w][s].held \in 0 .. logged[s]
        /\ \A m \in 1 .. logged[s] : views[w][s].held < m => Owed(w, s, m)
        /\ AtLast(w, s) \/ OwedQueue(w, s) \/ views[w][s].queue = revision[s]

Basing == {"baseline", "queue", "subscribed", "last"}
\* What holds while a baseline is made: its lock keeps the frames of the
\* Session where they are.
BasingInv(w, k) ==
    /\ k.pc \in Basing =>
          k.session \in WireSessions /\ w \in connected[k.session] /\ outputLocks[k.session] = w
    /\ k.pc \in {"queue", "subscribed"} /\ k.current =>
          /\ ~ k.resync /\ k.upto \in 0 .. logged[k.session]
          /\ \A m \in 1 .. logged[k.session] :
                k.upto < m => Carried(Frames(forward) \cup Frames(outbound), k.session, m)
    /\ k.pc \in {"subscribed", "last"} =>
          \/ queueChanged[k.session] > 0 \/ HasQueue(Frames(outbound), k.session)
          \/ k.queue = revision[k.session]
KnownSession(k) ==
    /\ k.pc \in {"attach", "admitted"} => k.session \in WireSessions
    /\ k.pc = "attach" => DOMAIN k = {"pc", "session", "after"}
WorkInv(w) == KnownSession(W!Work(w)) /\ BasingInv(w, W!Work(w))

\* Who waits for the consumer of the inbound queue does nothing else.
InboundInv ==
    /\ inbound \in Seq(Sockets)
    /\ \A i \in DOMAIN inbound : W!Work(inbound[i]).pc \in {"asked", "cancelling"}
    /\ \A i, j \in DOMAIN inbound : inbound[i] = inbound[j] => i = j
SendingInv == sending # W!Idle => outputLocks[sending.frame.session] = W!Manager

WireInv ==
    /\ WireTypes /\ InboundInv /\ SendingInv
    /\ \A s \in WireSessions : PipeInv(s) /\ QueueInv(s)
    /\ \A w \in Sockets : WorkInv(w)
    /\ \A w \in Sockets, s \in WireSessions : ClientInv(w, s)

-----------------------------------------------------------------------------
\* A frame joins a queue.
LEMMA FrameJoins ==
    ASSUME NEW q \in Seq(W!Frame), NEW f \in W!Frame, NEW g, g = Append(q, f)
    PROVE  /\ g \in Seq(W!Frame) /\ Frames(g) = Frames(q) \cup {f}
           /\ \A s : InOrder(q, s) /\ Below(Frames(q), {f}, s) => InOrder(g, s)
           /\ \A s, n : QueueOf(f, s) /\ f.n = n => Newest(g, s, n)
           /\ \A s, n : ~ QueueOf(f, s) /\ Newest(q, s, n) => Newest(g, s, n)
<1>1. /\ g \in Seq(W!Frame) /\ Len(q) \in Nat /\ Len(g) = Len(q) + 1
      /\ DOMAIN q = 1 .. Len(q) /\ DOMAIN g = 1 .. Len(q) + 1
      /\ g[Len(q) + 1] = f /\ \A i \in 1 .. Len(q) : g[i] = q[i]
  OBVIOUS
<1>2. Frames(g) = Frames(q) \cup {f}
  BY <1>1 DEF Frames
<1>3. ASSUME NEW s, InOrder(q, s), Below(Frames(q), {f}, s) PROVE InOrder(g, s)
  <2> SUFFICES ASSUME NEW i \in DOMAIN g, NEW j \in DOMAIN g, i < j, EventOf(g[i], s), EventOf(g[j], s)
               PROVE  g[i].n < g[j].n
    BY DEF InOrder
  <2>1. i \in DOMAIN q /\ g[i] = q[i]
    BY <1>1
  <2>2. CASE j \in DOMAIN q
    BY <1>1, <1>3, <2>1, <2>2 DEF InOrder
  <2>3. CASE j = Len(q) + 1
    BY <1>1, <1>3, <2>1, <2>3 DEF Below, Frames
  <2> QED BY <1>1, <2>2, <2>3
<1>4. ASSUME NEW s, NEW n, QueueOf(f, s), f.n = n PROVE Newest(g, s, n)
  <2> SUFFICES ASSUME NEW i \in DOMAIN g, \A j \in DOMAIN g : i < j => ~ QueueOf(g[j], s)
               PROVE  g[i].n = n
    BY DEF Newest
  <2>1. i = Len(q) + 1
    BY <1>1, <1>4
  <2> QED BY <1>1, <1>4, <2>1
<1>5. ASSUME NEW s, NEW n, ~ QueueOf(f, s), Newest(q, s, n) PROVE Newest(g, s, n)
  <2> SUFFICES ASSUME NEW i \in DOMAIN g, QueueOf(g[i], s), \A j \in DOMAIN g : i < j => ~ QueueOf(g[j], s)
               PROVE  g[i].n = n
    BY DEF Newest
  <2>1. i \in DOMAIN q /\ g[i] = q[i] /\ \A j \in DOMAIN q : j \in DOMAIN g /\ g[j] = q[j]
    BY <1>1, <1>5
  <2> QED BY <1>5, <2>1 DEF Newest
<1> QED BY <1>1, <1>2, <1>3, <1>4, <1>5

\* A frame leaves the front of a queue.
LEMMA FrameLeaves ==
    ASSUME NEW q \in Seq(W!Frame), q # <<>>, NEW f, NEW g, f = Head(q), g = Tail(q)
    PROVE  /\ g \in Seq(W!Frame) /\ f \in W!Frame /\ Frames(q) = Frames(g) \cup {f}
           /\ \A s : InOrder(q, s) => InOrder(g, s) /\ Below({f}, Frames(g), s)
           /\ \A s, n : Newest(q, s, n) =>
                 Newest(g, s, n) /\ (QueueOf(f, s) /\ ~ HasQueue(Frames(g), s) => f.n = n)
<1>1. /\ g \in Seq(W!Frame) /\ f \in W!Frame /\ Len(q) \in Nat /\ Len(g) = Len(q) - 1 /\ Len(q) >= 1
      /\ DOMAIN q = 1 .. Len(q) /\ DOMAIN g = 1 .. Len(q) - 1
      /\ q[1] = f /\ \A i \in 1 .. Len(q) - 1 : g[i] = q[i + 1]
  OBVIOUS
<1>2. Frames(q) = Frames(g) \cup {f}
  <2>1. ASSUME NEW i \in DOMAIN q PROVE q[i] \in Frames(g) \cup {f}
    <3>1. CASE i = 1
      BY <1>1, <3>1
    <3>2. CASE i # 1
      <4>1. i - 1 \in DOMAIN g /\ g[i - 1] = q[i]
        BY <1>1, <3>2
      <4> QED BY <4>1 DEF Frames
    <3> QED BY <3>1, <3>2
  <2>2. ASSUME NEW i \in DOMAIN g PROVE g[i] \in Frames(q)
    <3>1. i + 1 \in DOMAIN q /\ g[i] = q[i + 1]
      BY <1>1
    <3> QED BY <3>1 DEF Frames
  <2>3. f \in Frames(q)
    BY <1>1 DEF Frames
  <2> QED BY <2>1, <2>2, <2>3 DEF Frames
<1>3. \A i \in DOMAIN g : i + 1 \in DOMAIN q /\ g[i] = q[i + 1] /\ 1 < i + 1 /\ i \in Nat
  BY <1>1
<1>4. ASSUME NEW s, InOrder(q, s) PROVE InOrder(g, s) /\ Below({f}, Frames(g), s)
  <2>1. ASSUME NEW i \in DOMAIN g, NEW j \in DOMAIN g, i < j, EventOf(g[i], s), EventOf(g[j], s)
        PROVE  g[i].n < g[j].n
    <3>1. i + 1 < j + 1
      BY <1>3, <2>1
    <3> QED BY <1>3, <1>4, <2>1, <3>1 DEF InOrder
  <2>2. ASSUME NEW i \in DOMAIN g, EventOf(f, s), EventOf(g[i], s) PROVE f.n < g[i].n
    BY <1>1, <1>3, <1>4, <2>2 DEF InOrder
  <2> QED BY <2>1, <2>2 DEF InOrder, Below, Frames
<1>5. ASSUME NEW s, NEW n, Newest(q, s, n)
      PROVE  Newest(g, s, n) /\ (QueueOf(f, s) /\ ~ HasQueue(Frames(g), s) => f.n = n)
  <2>1. ASSUME NEW i \in DOMAIN g, QueueOf(g[i], s), \A j \in DOMAIN g : i < j => ~ QueueOf(g[j], s)
        PROVE  g[i].n = n
    <3>1. ASSUME NEW j \in DOMAIN q, i + 1 < j PROVE ~ QueueOf(q[j], s)
      <4>1. j - 1 \in DOMAIN g /\ g[j - 1] = q[j] /\ i < j - 1
        BY <1>1, <1>3, <3>1
      <4> QED BY <2>1, <4>1
    <3> QED BY <1>3, <1>5, <2>1, <3>1 DEF Newest
  <2>2. ASSUME QueueOf(f, s), ~ HasQueue(Frames(g), s) PROVE f.n = n
    <3>1. ASSUME NEW j \in DOMAIN q, 1 < j PROVE ~ QueueOf(q[j], s)
      <4>1. j - 1 \in DOMAIN g /\ g[j - 1] = q[j]
        BY <1>1, <3>1
      <4> QED BY <2>2, <4>1 DEF HasQueue, Frames
    <3> QED BY <1>1, <1>5, <2>2, <3>1 DEF Newest
  <2> QED BY <2>1, <2>2 DEF Newest
<1> QED BY <1>1, <1>2, <1>4, <1>5

LEMMA FramesAre ==
    ASSUME WireTypes
    PROVE  /\ Frames(forward) \subseteq W!Frame /\ Frames(outbound) \subseteq W!Frame
           /\ Flying \subseteq W!Frame /\ \A w : FlyingTo(w) \subseteq Flying
           /\ \A f \in W!Frame : f.n \in Nat /\ f.session \in WireSessions
           /\ \A s \in WireSessions : logged[s] \in Nat /\ revision[s] \in Nat /\ queueChanged[s] \in Nat
           /\ sending # W!Idle =>
                 sending.frame \in W!Frame /\ sending.targets \subseteq Sockets
                 /\ DOMAIN sending = {"frame", "targets"}
<1>1. Frames(forward) \subseteq W!Frame /\ Frames(outbound) \subseteq W!Frame
  BY DEF WireTypes, Frames
<1>2. sending # W!Idle =>
         sending.frame \in W!Frame /\ sending.targets \subseteq Sockets /\ DOMAIN sending = {"frame", "targets"}
  BY DEF WireTypes
<1>3. \A f \in W!Frame : f.n \in Nat /\ f.session \in WireSessions
  BY DEF W!Frame
<1>4. Flying \subseteq W!Frame /\ \A w : FlyingTo(w) \subseteq Flying
  BY <1>2 DEF Flying, FlyingTo
<1>5. \A s \in WireSessions : logged[s] \in Nat /\ revision[s] \in Nat /\ queueChanged[s] \in Nat
  BY DEF WireTypes
<1> QED BY <1>1, <1>2, <1>3, <1>4, <1>5

\* What keeps a client's part of the invariant.
LEMMA ClientKept ==
    ASSUME NEW w, NEW s, ClientInv(w, s),
           sockets'[w].open => sockets[w].open,
           views'[w][s] = views[w][s],
           AtLast(w, s) => AtLast(w, s)',
           w \in connected[s] => w \in connected'[s],
           logged[s] \in Nat, logged'[s] \in Nat, logged[s] <= logged'[s],
           \A m : Owed(w, s, m) => Owed(w, s, m)',
           \A m \in logged[s] + 1 .. logged'[s] : Owed(w, s, m)',
           OwedQueue(w, s) => OwedQueue(w, s)',
           revision'[s] = revision[s] \/ OwedQueue(w, s)'
    PROVE  ClientInv(w, s)'
<1> SUFFICES ASSUME sockets'[w].open, views'[w][s].current PROVE ClientInv(w, s)'
  BY DEF ClientInv
<1>1. /\ w \in connected'[s] /\ ~ views'[w][s].gap
      /\ views'[w][s].held \in 0 .. logged[s]
      /\ \A m \in 1 .. logged[s] : views[w][s].held < m => Owed(w, s, m)
      /\ AtLast(w, s) \/ OwedQueue(w, s) \/ views[w][s].queue = revision[s]
  BY DEF ClientInv
<1>2. views'[w][s].held \in 0 .. logged'[s]
  BY <1>1
<1>3. \A m \in 1 .. logged'[s] : views'[w][s].held < m => Owed(w, s, m)'
  <2> SUFFICES ASSUME NEW m \in 1 .. logged'[s], views'[w][s].held < m PROVE Owed(w, s, m)'
    OBVIOUS
  <2>1. m \in 1 .. logged[s] \/ m \in logged[s] + 1 .. logged'[s]
    OBVIOUS
  <2> QED BY <1>1, <2>1
<1>4. AtLast(w, s)' \/ OwedQueue(w, s)' \/ views'[w][s].queue = revision'[s]
  BY <1>1
<1> QED BY <1>1, <1>2, <1>3, <1>4 DEF ClientInv

\* What keeps the part of a baseline.
LEMMA BasingKept ==
    ASSUME NEW w, NEW k, BasingInv(w, k),
           k.pc \in Basing =>
               /\ w \in connected[k.session] => w \in connected'[k.session]
               /\ outputLocks[k.session] = w => outputLocks'[k.session] = w
               /\ logged[k.session] \in Nat /\ logged'[k.session] \in Nat
               /\ logged[k.session] <= logged'[k.session]
               /\ \A m : Carried(Frames(forward) \cup Frames(outbound), k.session, m)
                           => Carried(Frames(forward) \cup Frames(outbound), k.session, m)'
               /\ \A m \in logged[k.session] + 1 .. logged'[k.session] :
                      Carried(Frames(forward) \cup Frames(outbound), k.session, m)'
               /\ queueChanged[k.session] > 0 \/ HasQueue(Frames(outbound), k.session)
                    => queueChanged'[k.session] > 0 \/ HasQueue(Frames(outbound)', k.session)
               /\ \/ revision'[k.session] = revision[k.session]
                  \/ queueChanged'[k.session] > 0 \/ HasQueue(Frames(outbound)', k.session)
    PROVE  BasingInv(w, k)'
<1> DEFINE s == k.session
<1>1. CASE k.pc \notin Basing
  BY <1>1 DEF BasingInv, Basing
<1>2. CASE k.pc \in Basing
  <2>1. s \in WireSessions /\ w \in connected'[s] /\ outputLocks'[s] = w
    BY <1>2 DEF BasingInv
  <2>2. ASSUME k.pc \in {"queue", "subscribed"}, k.current
        PROVE  /\ ~ k.resync /\ k.upto \in 0 .. logged'[s]
               /\ \A m \in 1 .. logged'[s] :
                     k.upto < m => Carried(Frames(forward) \cup Frames(outbound), s, m)'
    <3>1. /\ ~ k.resync /\ k.upto \in 0 .. logged[s]
          /\ \A m \in 1 .. logged[s] : k.upto < m => Carried(Frames(forward) \cup Frames(outbound), s, m)
      BY <2>2 DEF BasingInv
    <3>2. ASSUME NEW m \in 1 .. logged'[s], k.upto < m
          PROVE  Carried(Frames(forward) \cup Frames(outbound), s, m)'
      <4>1. m \in 1 .. logged[s] \/ m \in logged[s] + 1 .. logged'[s]
        BY <1>2
      <4> QED BY <1>2, <3>1, <3>2, <4>1
    <3>3. k.upto \in 0 .. logged'[s]
      <4>1. logged[s] \in Nat /\ logged'[s] \in Nat /\ logged[s] <= logged'[s]
        BY <1>2
      <4> QED BY <3>1, <4>1
    <3> QED BY <3>1, <3>2, <3>3
  <2>3. ASSUME k.pc \in {"subscribed", "last"}
        PROVE  queueChanged'[s] > 0 \/ HasQueue(Frames(outbound)', s) \/ k.queue = revision'[s]
    BY <1>2, <2>3 DEF BasingInv
  <2> QED BY <2>1, <2>2, <2>3 DEF BasingInv
<1> QED BY <1>1, <1>2

\* A set of frames that grows.
LEMMA MoreFrames ==
    ASSUME NEW fs, NEW gs, fs \subseteq gs
    PROVE  /\ \A s, m : Carried(fs, s, m) => Carried(gs, s, m)
           /\ \A s : HasQueue(fs, s) => HasQueue(gs, s)
BY DEF Carried, HasQueue

LEMMA LogKeeps == ASSUME WireInv, NEW s0 \in WireSessions, W!Log(s0) PROVE WireInv'
<1> USE DEF W!state, W!queues
<1>1. PICK f : f = [kind |-> "event", session |-> s0, n |-> logged[s0] + 1]
  OBVIOUS
<1>2. /\ forward' = Append(forward, f) /\ logged' = [logged EXCEPT ![s0] = @ + 1]
      /\ UNCHANGED <<folded, revision, queueChanged, outbound, sending, outputLocks, connected, sockets, inbound, views>>
  BY <1>1 DEF W!Log
<1>3. WireTypes
  BY DEF WireInv
<1>4. f \in W!Frame /\ f.kind = "event" /\ f.session = s0 /\ f.n = logged[s0] + 1
  BY <1>1, <1>3 DEF WireTypes, W!Frame
<1>5. /\ forward' \in Seq(W!Frame) /\ Frames(forward') = Frames(forward) \cup {f}
      /\ \A s : InOrder(forward, s) /\ Below(Frames(forward), {f}, s) => InOrder(forward', s)
  BY <1>2, <1>3, <1>4, FrameJoins DEF WireTypes
<1>6. \A s \in WireSessions : logged'[s] = IF s = s0 THEN logged[s] + 1 ELSE logged[s]
  BY <1>2, <1>3 DEF WireTypes
<1>7. WireTypes'
  BY <1>2, <1>3, <1>4, <1>5 DEF WireTypes
<1>8. InboundInv' /\ SendingInv'
  BY <1>2 DEF WireInv, InboundInv, SendingInv, W!Work
<1>9. Flying' = Flying /\ \A w : FlyingTo(w)' = FlyingTo(w)
  BY <1>2 DEF Flying, FlyingTo
<1>10. ASSUME NEW s \in WireSessions PROVE PipeInv(s)' /\ QueueInv(s)'
  <2>1. PipeInv(s) /\ QueueInv(s)
    BY DEF WireInv
  <2>2. \A fs : fs \subseteq W!Frame /\ NumbersUpTo(fs, s, logged[s])
                  => NumbersUpTo(fs, s, logged'[s]) /\ Below(fs, {f}, s)
    BY <1>3, <1>4, <1>6, FramesAre DEF NumbersUpTo, Below, EventOf
  <2>3. NumbersUpTo({f}, s, logged'[s])
    BY <1>3, <1>4, <1>6, FramesAre DEF NumbersUpTo, EventOf
  <2>4. Below(Frames(outbound), Frames(forward'), s) /\ Below(Flying, Frames(forward'), s)
    BY <1>3, <1>5, <2>1, <2>2, FramesAre DEF PipeInv, Below
  <2>5. NumbersUpTo(Frames(forward'), s, logged'[s])
    BY <1>3, <1>5, <2>1, <2>2, <2>3, FramesAre DEF PipeInv, NumbersUpTo
  <2>6. InOrder(forward', s)
    BY <1>3, <1>5, <2>1, <2>2, FramesAre DEF PipeInv
  <2>7. NumbersUpTo(Frames(outbound), s, logged'[s]) /\ NumbersUpTo(Flying, s, logged'[s])
    BY <1>3, <2>1, <2>2, FramesAre DEF PipeInv
  <2> QED BY <1>2, <1>9, <2>1, <2>4, <2>5, <2>6, <2>7 DEF PipeInv, QueueInv
<1>11. \A s, m : Carried(Frames(forward) \cup Frames(outbound), s, m)
                   => Carried(Frames(forward) \cup Frames(outbound), s, m)'
  BY <1>2, <1>5, MoreFrames
<1>12. \A s \in WireSessions : \A m \in logged[s] + 1 .. logged'[s] :
          Carried(Frames(forward) \cup Frames(outbound), s, m)'
  BY <1>2, <1>3, <1>4, <1>5, <1>6, FramesAre DEF Carried, EventOf
<1>13. ASSUME NEW w \in Sockets, NEW s \in WireSessions PROVE ClientInv(w, s)'
  <2>1. \A m : Owed(w, s, m) => Owed(w, s, m)'
    BY <1>2, <1>5, <1>9, MoreFrames DEF Owed
  <2>2. \A m \in logged[s] + 1 .. logged'[s] : Owed(w, s, m)'
    BY <1>12, MoreFrames DEF Owed
  <2>3. OwedQueue(w, s)' = OwedQueue(w, s)
    BY <1>2, <1>9 DEF OwedQueue
  <2>4. logged[s] \in Nat /\ logged'[s] \in Nat /\ logged[s] <= logged'[s]
    BY <1>3, <1>6, FramesAre
  <2>5. ClientInv(w, s) /\ AtLast(w, s)' = AtLast(w, s)
    BY <1>2 DEF WireInv, AtLast, W!Work
  <2> QED BY <1>2, <2>1, <2>2, <2>3, <2>4, <2>5, ClientKept
<1>14. ASSUME NEW w \in Sockets PROVE WorkInv(w)'
  <2>1. PICK k : k = W!Work(w) /\ W!Work(w)' = k
    BY <1>2 DEF W!Work
  <2>2. BasingInv(w, k) /\ KnownSession(k)
    BY <2>1 DEF WireInv, WorkInv
  <2>3. k.pc \in Basing => k.session \in WireSessions
    BY <2>2 DEF BasingInv
  <2>4. k.pc \in Basing => logged[k.session] \in Nat /\ logged'[k.session] \in Nat /\ logged[k.session] <= logged'[k.session]
    BY <1>3, <1>6, <2>3, FramesAre
  <2>5. BasingInv(w, k)'
    BY <1>2, <1>11, <1>12, <2>2, <2>3, <2>4, BasingKept
  <2> QED BY <2>1, <2>2, <2>5 DEF WorkInv
<1> QED BY <1>7, <1>8, <1>10, <1>13, <1>14 DEF WireInv

\* The queues of frames, the logs and who has what to do are as they were.
LEMMA QueuesAsTheyWere ==
    ASSUME WireInv, UNCHANGED <<forward, outbound, sending, logged, revision, queueChanged>>
    PROVE  /\ \A s \in WireSessions : PipeInv(s)' /\ QueueInv(s)'
           /\ Frames(forward)' = Frames(forward) /\ Frames(outbound)' = Frames(outbound)
           /\ \A w, s : OwedQueue(w, s)' = OwedQueue(w, s)
           /\ \A w, s, m : Owed(w, s, m)' = Owed(w, s, m)
<1>1. Flying' = Flying /\ \A w : FlyingTo(w)' = FlyingTo(w)
  BY DEF Flying, FlyingTo
<1>2. Frames(forward)' = Frames(forward) /\ Frames(outbound)' = Frames(outbound)
  OBVIOUS
<1>3. \A s \in WireSessions : PipeInv(s)' = PipeInv(s) /\ QueueInv(s)' = QueueInv(s)
  BY <1>1, <1>2 DEF PipeInv, QueueInv
<1>4. \A w, s : OwedQueue(w, s)' = OwedQueue(w, s)
  BY <1>1, <1>2 DEF OwedQueue
<1>5. \A w, s, m : Owed(w, s, m)' = Owed(w, s, m)
  BY <1>1, <1>2 DEF Owed
<1>6. \A s \in WireSessions : PipeInv(s) /\ QueueInv(s)
  BY DEF WireInv
<1> QED BY <1>2, <1>3, <1>4, <1>5, <1>6

LEMMA ForwardKeeps == ASSUME WireInv, W!Forward PROVE WireInv'
<1> USE DEF W!state, W!queues
<1>1. PICK f : f = Head(forward)
  OBVIOUS
<1>2. /\ forward # <<>> /\ outbound' = Append(outbound, f) /\ forward' = Tail(forward)
      /\ UNCHANGED <<logged, folded, revision, queueChanged, sending, outputLocks, connected, sockets, inbound, views>>
  BY <1>1 DEF W!Forward
<1>3. WireTypes
  BY DEF WireInv
<1>4. /\ forward' \in Seq(W!Frame) /\ f \in W!Frame /\ Frames(forward) = Frames(forward') \cup {f}
      /\ \A s : InOrder(forward, s) => InOrder(forward', s) /\ Below({f}, Frames(forward'), s)
  BY <1>1, <1>2, <1>3, FrameLeaves DEF WireTypes
<1>5. f.kind = "event" /\ \A s : ~ QueueOf(f, s)
  BY <1>3, <1>4 DEF WireTypes, QueueOf
<1>6. /\ outbound' \in Seq(W!Frame) /\ Frames(outbound') = Frames(outbound) \cup {f}
      /\ \A s : InOrder(outbound, s) /\ Below(Frames(outbound), {f}, s) => InOrder(outbound', s)
      /\ \A s, n : Newest(outbound, s, n) => Newest(outbound', s, n)
  BY <1>2, <1>3, <1>4, <1>5, FrameJoins DEF WireTypes
<1>7. WireTypes'
  BY <1>2, <1>3, <1>4, <1>6 DEF WireTypes
<1>8. InboundInv' /\ SendingInv'
  BY <1>2 DEF WireInv, InboundInv, SendingInv, W!Work
<1>9. Flying' = Flying /\ \A w : FlyingTo(w)' = FlyingTo(w)
  BY <1>2 DEF Flying, FlyingTo
<1>10. Frames(forward') \cup Frames(outbound') = Frames(forward) \cup Frames(outbound)
  BY <1>4, <1>6
<1>11. \A s : HasQueue(Frames(outbound'), s) <=> HasQueue(Frames(outbound), s)
  BY <1>5, <1>6 DEF HasQueue
<1>12. ASSUME NEW s \in WireSessions PROVE PipeInv(s)' /\ QueueInv(s)'
  <2>1. PipeInv(s) /\ QueueInv(s)
    BY DEF WireInv
  <2>2. /\ Below(Frames(outbound'), Frames(forward'), s) /\ Below(Frames(outbound), {f}, s)
        /\ Below(Flying, Frames(outbound'), s) /\ Below(Flying, Frames(forward'), s)
    BY <1>4, <1>6, <2>1 DEF PipeInv, Below
  <2>3. NumbersUpTo(Frames(forward'), s, logged[s]) /\ NumbersUpTo(Frames(outbound'), s, logged[s])
    BY <1>4, <1>6, <2>1 DEF PipeInv, NumbersUpTo
  <2>4. InOrder(forward', s) /\ InOrder(outbound', s)
    BY <1>4, <1>6, <2>1, <2>2 DEF PipeInv
  <2>5. PipeInv(s)'
    BY <1>2, <1>9, <2>1, <2>2, <2>3, <2>4 DEF PipeInv
  <2>6. QueueInv(s)'
    BY <1>2, <1>6, <1>9, <1>11, <2>1 DEF QueueInv
  <2> QED BY <2>5, <2>6
<1>13. ASSUME NEW w \in Sockets, NEW s \in WireSessions PROVE ClientInv(w, s)'
  <2>1. \A m : Owed(w, s, m)' = Owed(w, s, m)
    BY <1>2, <1>9, <1>10 DEF Owed
  <2>2. OwedQueue(w, s) => OwedQueue(w, s)'
    BY <1>2, <1>6, <1>9, MoreFrames DEF OwedQueue
  <2>3. ClientInv(w, s) /\ AtLast(w, s)' = AtLast(w, s)
    BY <1>2 DEF WireInv, AtLast, W!Work
  <2>4. logged[s] \in Nat /\ \A m \in logged[s] + 1 .. logged[s] : FALSE
    BY <1>3, FramesAre
  <2> QED BY <1>2, <2>1, <2>2, <2>3, <2>4, ClientKept
<1>14. ASSUME NEW w \in Sockets PROVE WorkInv(w)'
  <2>1. PICK k : k = W!Work(w) /\ W!Work(w)' = k
    BY <1>2 DEF W!Work
  <2>2. BasingInv(w, k) /\ KnownSession(k)
    BY <2>1 DEF WireInv, WorkInv
  <2>3. k.pc \in Basing => k.session \in WireSessions
    BY <2>2 DEF BasingInv
  <2>4. k.pc \in Basing => logged[k.session] \in Nat /\ \A m \in logged[k.session] + 1 .. logged[k.session] : FALSE
    BY <1>3, <2>3, FramesAre
  <2>5. \A m : Carried(Frames(forward) \cup Frames(outbound), k.session, m)
                 => Carried(Frames(forward) \cup Frames(outbound), k.session, m)'
    BY <1>10
  <2>6. HasQueue(Frames(outbound), k.session) => HasQueue(Frames(outbound)', k.session)
    BY <1>11
  <2>7. BasingInv(w, k)
    BY <2>2
  <2>8. k.pc \in Basing =>
           /\ w \in connected[k.session] => w \in connected'[k.session]
           /\ outputLocks[k.session] = w => outputLocks'[k.session] = w
           /\ logged[k.session] \in Nat /\ logged'[k.session] \in Nat
           /\ logged[k.session] <= logged'[k.session]
           /\ \A m : Carried(Frames(forward) \cup Frames(outbound), k.session, m)
                       => Carried(Frames(forward) \cup Frames(outbound), k.session, m)'
           /\ \A m \in logged[k.session] + 1 .. logged'[k.session] :
                  Carried(Frames(forward) \cup Frames(outbound), k.session, m)'
           /\ queueChanged[k.session] > 0 \/ HasQueue(Frames(outbound), k.session)
                => queueChanged'[k.session] > 0 \/ HasQueue(Frames(outbound)', k.session)
           /\ \/ revision'[k.session] = revision[k.session]
              \/ queueChanged'[k.session] > 0 \/ HasQueue(Frames(outbound)', k.session)
    <3> HAVE k.pc \in Basing
    <3>1. logged[k.session] \in Nat /\ logged'[k.session] = logged[k.session]
      BY <1>2, <2>4
    <3>2. \A m \in logged[k.session] + 1 .. logged'[k.session] : FALSE
      BY <1>2, <2>4
    <3>3. queueChanged[k.session] > 0 \/ HasQueue(Frames(outbound), k.session)
             => queueChanged'[k.session] > 0 \/ HasQueue(Frames(outbound)', k.session)
      BY <1>2, <2>6
    <3>4. logged[k.session] <= logged'[k.session]
      BY <3>1
    <3>5. \A m \in logged[k.session] + 1 .. logged'[k.session] :
             Carried(Frames(forward) \cup Frames(outbound), k.session, m)'
      BY <3>2
    <3>6. revision'[k.session] = revision[k.session] /\ connected'[k.session] = connected[k.session]
          /\ outputLocks'[k.session] = outputLocks[k.session]
      BY <1>2
    <3> QED BY ONLY <3>1, <3>3, <3>4, <3>5, <3>6, <2>5
  <2>9. BasingInv(w, k)'
    BY ONLY <2>7, <2>8, BasingKept
  <2> QED BY <2>1, <2>2, <2>9 DEF WorkInv
<1> QED BY <1>7, <1>8, <1>12, <1>13, <1>14 DEF WireInv

\* The inbox changes, or what it is now is published.
LEMMA PublishKeeps == ASSUME WireInv, NEW s0 \in WireSessions, W!PublishQueue(s0) PROVE WireInv'
<1> USE DEF W!state, W!queues
<1>1. PICK f : f = [kind |-> "queue", session |-> s0, n |-> revision[s0]]
  OBVIOUS
<1>2. /\ outbound' = Append(outbound, f) /\ queueChanged' = [queueChanged EXCEPT ![s0] = @ - 1] /\ queueChanged[s0] > 0
      /\ UNCHANGED <<logged, folded, revision, forward, sending, outputLocks, connected, sockets, inbound, views>>
  BY <1>1 DEF W!PublishQueue
<1>3. WireTypes
  BY DEF WireInv
<1>4. f \in W!Frame /\ f.kind = "queue" /\ f.session = s0 /\ f.n = revision[s0]
  BY <1>1, <1>3 DEF WireTypes, W!Frame
<1>5. \A s : (QueueOf(f, s) <=> s = s0) /\ ~ EventOf(f, s)
  BY <1>4 DEF QueueOf, EventOf
<1>6. /\ outbound' \in Seq(W!Frame) /\ Frames(outbound') = Frames(outbound) \cup {f}
      /\ \A s : InOrder(outbound, s) /\ Below(Frames(outbound), {f}, s) => InOrder(outbound', s)
      /\ \A s, n : QueueOf(f, s) /\ f.n = n => Newest(outbound', s, n)
      /\ \A s, n : ~ QueueOf(f, s) /\ Newest(outbound, s, n) => Newest(outbound', s, n)
  BY <1>2, <1>3, <1>4, FrameJoins DEF WireTypes
<1>7. WireTypes'
  BY <1>2, <1>3, <1>6 DEF WireTypes
<1>8. InboundInv' /\ SendingInv'
  BY <1>2 DEF WireInv, InboundInv, SendingInv, W!Work
<1>9. Flying' = Flying /\ \A w : FlyingTo(w)' = FlyingTo(w)
  BY <1>2 DEF Flying, FlyingTo
<1>10. \A s \in WireSessions : s # s0 => queueChanged'[s] = queueChanged[s]
  BY <1>2, <1>3 DEF WireTypes
<1>11. HasQueue(Frames(outbound'), s0) /\ \A s : HasQueue(Frames(outbound), s) => HasQueue(Frames(outbound'), s)
  BY <1>5, <1>6 DEF HasQueue
<1>12. ASSUME NEW s \in WireSessions PROVE PipeInv(s)' /\ QueueInv(s)'
  <2>1. PipeInv(s) /\ QueueInv(s)
    BY DEF WireInv
  <2>2. /\ Below(Frames(outbound'), Frames(forward), s) /\ Below(Frames(outbound), {f}, s)
        /\ Below(Flying, Frames(outbound'), s)
    BY <1>5, <1>6, <2>1 DEF PipeInv, Below
  <2>3. NumbersUpTo(Frames(outbound'), s, logged[s])
    BY <1>5, <1>6, <2>1 DEF PipeInv, NumbersUpTo
  <2>4. InOrder(outbound', s)
    BY <1>6, <2>1, <2>2 DEF PipeInv
  <2>5. PipeInv(s)'
    BY <1>2, <1>9, <2>1, <2>2, <2>3, <2>4 DEF PipeInv
  <2>6. CASE s = s0
    BY <1>2, <1>4, <1>5, <1>6, <1>11, <2>5, <2>6 DEF QueueInv
  <2>7. CASE s # s0
    <3>1. HasQueue(Frames(outbound'), s) <=> HasQueue(Frames(outbound), s)
      BY <1>5, <1>6, <2>7 DEF HasQueue
    <3> QED BY <1>2, <1>5, <1>6, <1>9, <1>10, <2>1, <2>5, <2>7, <3>1 DEF QueueInv
  <2> QED BY <2>6, <2>7
<1>13. \A s, m : Carried(Frames(forward) \cup Frames(outbound), s, m)
                   => Carried(Frames(forward) \cup Frames(outbound), s, m)'
  BY <1>2, <1>6, MoreFrames
<1>14. ASSUME NEW w \in Sockets, NEW s \in WireSessions PROVE ClientInv(w, s)'
  <2>1. \A m : Owed(w, s, m) => Owed(w, s, m)'
    <3>1. Frames(forward) \cup Frames(outbound) \cup FlyingTo(w)
            \subseteq Frames(forward') \cup Frames(outbound') \cup FlyingTo(w)'
      BY <1>2, <1>6, <1>9
    <3> QED BY <3>1, MoreFrames DEF Owed
  <2>2. OwedQueue(w, s) => OwedQueue(w, s)'
    <3>1. CASE s = s0
      BY <1>11, <3>1, MoreFrames DEF OwedQueue
    <3>2. CASE s # s0
      BY <1>2, <1>6, <1>9, <1>10, <3>2, MoreFrames DEF OwedQueue
    <3> QED BY <3>1, <3>2
  <2>3. ClientInv(w, s) /\ AtLast(w, s)' = AtLast(w, s)
    BY <1>2 DEF WireInv, AtLast, W!Work
  <2>4. logged[s] \in Nat /\ \A m \in logged[s] + 1 .. logged[s] : FALSE
    BY <1>3, FramesAre
  <2> QED BY <1>2, <2>1, <2>2, <2>3, <2>4, ClientKept
<1>15. ASSUME NEW w \in Sockets PROVE WorkInv(w)'
  <2>1. PICK k : k = W!Work(w) /\ W!Work(w)' = k
    BY <1>2 DEF W!Work
  <2>2. BasingInv(w, k) /\ KnownSession(k)
    BY <2>1 DEF WireInv, WorkInv
  <2>3. k.pc \in Basing => k.session \in WireSessions
    BY <2>2 DEF BasingInv
  <2>4. k.pc \in Basing => logged[k.session] \in Nat /\ \A m \in logged[k.session] + 1 .. logged[k.session] : FALSE
    BY <1>3, <2>3, FramesAre
  <2>5. k.pc \in Basing /\ (queueChanged[k.session] > 0 \/ HasQueue(Frames(outbound), k.session))
          => queueChanged'[k.session] > 0 \/ HasQueue(Frames(outbound)', k.session)
    BY <1>10, <1>11, <2>3
  <2>6. BasingInv(w, k)
    BY <2>2
  <2>7. k.pc \in Basing =>
           /\ w \in connected[k.session] => w \in connected'[k.session]
           /\ outputLocks[k.session] = w => outputLocks'[k.session] = w
           /\ logged[k.session] \in Nat /\ logged'[k.session] \in Nat
           /\ logged[k.session] <= logged'[k.session]
           /\ \A m : Carried(Frames(forward) \cup Frames(outbound), k.session, m)
                       => Carried(Frames(forward) \cup Frames(outbound), k.session, m)'
           /\ \A m \in logged[k.session] + 1 .. logged'[k.session] :
                  Carried(Frames(forward) \cup Frames(outbound), k.session, m)'
           /\ queueChanged[k.session] > 0 \/ HasQueue(Frames(outbound), k.session)
                => queueChanged'[k.session] > 0 \/ HasQueue(Frames(outbound)', k.session)
           /\ \/ revision'[k.session] = revision[k.session]
              \/ queueChanged'[k.session] > 0 \/ HasQueue(Frames(outbound)', k.session)
    <3> HAVE k.pc \in Basing
    <3>1. logged[k.session] \in Nat /\ logged'[k.session] = logged[k.session]
      BY <1>2, <2>4
    <3>2. \A m \in logged[k.session] + 1 .. logged'[k.session] : FALSE
      BY <1>2, <2>4
    <3>3. queueChanged[k.session] > 0 \/ HasQueue(Frames(outbound), k.session)
             => queueChanged'[k.session] > 0 \/ HasQueue(Frames(outbound)', k.session)
      BY <1>2, <2>5
    <3>4. logged[k.session] <= logged'[k.session]
      BY <3>1
    <3>5. \A m \in logged[k.session] + 1 .. logged'[k.session] :
             Carried(Frames(forward) \cup Frames(outbound), k.session, m)'
      BY <3>2
    <3>6. revision'[k.session] = revision[k.session] /\ connected'[k.session] = connected[k.session]
          /\ outputLocks'[k.session] = outputLocks[k.session]
      BY <1>2
    <3> QED BY ONLY <3>1, <3>3, <3>4, <3>5, <3>6, <1>13
  <2>8. BasingInv(w, k)'
    BY ONLY <2>6, <2>7, BasingKept
  <2> QED BY <2>1, <2>2, <2>8 DEF WorkInv
<1> QED BY <1>7, <1>8, <1>12, <1>14, <1>15 DEF WireInv

\* A step of one socket, which leaves the queues of frames and the other
\* sockets as they are; an inbox may change in it.
LEMMA SocketActs ==
    ASSUME WireInv, NEW w0, UNCHANGED <<forward, outbound, sending, logged>>,
           \A s \in WireSessions :
              queueChanged'[s] > 0 \/ (revision'[s] = revision[s] /\ queueChanged'[s] = queueChanged[s]),
           WireTypes', InboundInv', SendingInv',
           \A w \in Sockets : w # w0 => sockets'[w] = sockets[w] /\ views'[w] = views[w],
           \A w \in Sockets, s \in WireSessions : w # w0 =>
              /\ w \in connected[s] => w \in connected'[s]
              /\ outputLocks[s] = w => outputLocks'[s] = w,
           w0 \in Sockets => WorkInv(w0)' /\ \A s \in WireSessions : ClientInv(w0, s)'
    PROVE  WireInv'
<1>1. WireTypes
  BY DEF WireInv
<1>2. Flying' = Flying /\ \A w : FlyingTo(w)' = FlyingTo(w)
  BY DEF Flying, FlyingTo
<1>3. Frames(forward)' = Frames(forward) /\ Frames(outbound)' = Frames(outbound)
  OBVIOUS
<1>4. ASSUME NEW s \in WireSessions PROVE PipeInv(s)' /\ QueueInv(s)'
  <2>1. PipeInv(s) /\ QueueInv(s)
    BY DEF WireInv
  <2>2. PipeInv(s)'
    BY <1>2, <1>3, <2>1 DEF PipeInv
  <2>3. QueueInv(s)'
    <3> SUFFICES ASSUME queueChanged'[s] = 0
                 PROVE  /\ Newest(outbound, s, revision[s])
                        /\ ~ HasQueue(Frames(outbound), s) => \A f \in Flying : QueueOf(f, s) => f.n = revision[s]
      BY <1>2, <1>3 DEF QueueInv
    <3> QED BY <2>1 DEF QueueInv
  <2> QED BY <2>2, <2>3
<1>5. ASSUME NEW w \in Sockets, NEW s \in WireSessions, w # w0 PROVE ClientInv(w, s)'
  <2>1. \A m : Owed(w, s, m)' = Owed(w, s, m)
    BY <1>2, <1>3 DEF Owed
  <2>2. OwedQueue(w, s) => OwedQueue(w, s)'
    BY <1>2, <1>3 DEF OwedQueue
  <2>3. ClientInv(w, s) /\ AtLast(w, s)' = AtLast(w, s)
    BY <1>5 DEF WireInv, AtLast, W!Work
  <2>4. logged[s] \in Nat /\ \A m \in logged[s] + 1 .. logged[s] : FALSE
    BY <1>1, FramesAre
  <2>5. revision'[s] = revision[s] \/ OwedQueue(w, s)'
    BY DEF OwedQueue
  <2>6. views'[w][s] = views[w][s] /\ sockets'[w] = sockets[w] /\ (w \in connected[s] => w \in connected'[s])
    BY <1>5
  <2> QED BY <2>1, <2>2, <2>3, <2>4, <2>5, <2>6, ClientKept
<1>6. ASSUME NEW w \in Sockets, w # w0 PROVE WorkInv(w)'
  <2>1. PICK k : k = W!Work(w) /\ W!Work(w)' = k
    BY <1>6 DEF W!Work
  <2>2. BasingInv(w, k) /\ KnownSession(k)
    BY <2>1 DEF WireInv, WorkInv
  <2>3. k.pc \in Basing =>
           /\ w \in connected[k.session] => w \in connected'[k.session]
           /\ outputLocks[k.session] = w => outputLocks'[k.session] = w
           /\ logged[k.session] \in Nat /\ logged'[k.session] \in Nat
           /\ logged[k.session] <= logged'[k.session]
           /\ \A m : Carried(Frames(forward) \cup Frames(outbound), k.session, m)
                       => Carried(Frames(forward) \cup Frames(outbound), k.session, m)'
           /\ \A m \in logged[k.session] + 1 .. logged'[k.session] :
                  Carried(Frames(forward) \cup Frames(outbound), k.session, m)'
           /\ queueChanged[k.session] > 0 \/ HasQueue(Frames(outbound), k.session)
                => queueChanged'[k.session] > 0 \/ HasQueue(Frames(outbound)', k.session)
           /\ \/ revision'[k.session] = revision[k.session]
              \/ queueChanged'[k.session] > 0 \/ HasQueue(Frames(outbound)', k.session)
    <3> HAVE k.pc \in Basing
    <3>1. k.session \in WireSessions
      BY <2>2 DEF BasingInv
    <3>2. logged[k.session] \in Nat /\ logged'[k.session] = logged[k.session]
      BY <1>1, <3>1, FramesAre
    <3>3. \A m \in logged[k.session] + 1 .. logged'[k.session] : FALSE
      BY <3>2
    <3>4. \A m : Carried(Frames(forward) \cup Frames(outbound), k.session, m)
                   => Carried(Frames(forward) \cup Frames(outbound), k.session, m)'
      BY <1>3
    <3>5. \/ queueChanged'[k.session] > 0
          \/ revision'[k.session] = revision[k.session] /\ queueChanged'[k.session] = queueChanged[k.session]
      BY <3>1
    <3>6. queueChanged[k.session] > 0 \/ HasQueue(Frames(outbound), k.session)
             => queueChanged'[k.session] > 0 \/ HasQueue(Frames(outbound)', k.session)
      BY ONLY <3>5, <1>3
    <3>7. /\ w \in connected[k.session] => w \in connected'[k.session]
          /\ outputLocks[k.session] = w => outputLocks'[k.session] = w
      BY <1>6, <3>1
    <3>8. logged[k.session] <= logged'[k.session]
      BY <3>2
    <3>9. \A m \in logged[k.session] + 1 .. logged'[k.session] :
             Carried(Frames(forward) \cup Frames(outbound), k.session, m)'
      BY <3>3
    <3> QED BY ONLY <3>2, <3>4, <3>5, <3>6, <3>7, <3>8, <3>9
  <2>4. BasingInv(w, k)
    BY <2>2
  <2>5. BasingInv(w, k)'
    BY ONLY <2>3, <2>4, BasingKept
  <2> QED BY <2>1, <2>2, <2>5 DEF WorkInv
<1> QED BY <1>4, <1>5, <1>6 DEF WireInv

\* An inbox changes, or nothing that the invariant speaks of.
LEMMA ClaimKeeps == ASSUME WireInv, NEW s0 \in WireSessions, W!Claim(s0) \/ W!Fold(s0) PROVE WireInv'
<1> USE DEF W!state, W!queues
<1>1. WireTypes
  BY DEF WireInv
<1>2. UNCHANGED <<logged, forward, outbound, sending, outputLocks, connected, sockets, inbound, views>>
  BY DEF W!Claim, W!Fold
<1>3. /\ revision' \in [WireSessions -> Nat] /\ queueChanged' \in [WireSessions -> Nat]
      /\ \A s \in WireSessions :
            queueChanged'[s] > 0 \/ (revision'[s] = revision[s] /\ queueChanged'[s] = queueChanged[s])
  <2>1. CASE W!Fold(s0)
    BY <1>1, <2>1 DEF W!Fold, WireTypes
  <2>2. CASE W!Claim(s0)
    <3>1. PICK r, c : /\ r = [revision EXCEPT ![s0] = @ + 1] /\ c = [queueChanged EXCEPT ![s0] = @ + 1]
                      /\ revision' = r /\ queueChanged' = c
      BY <2>2 DEF W!Claim, W!Changes
    <3>2. r \in [WireSessions -> Nat] /\ c \in [WireSessions -> Nat]
      BY <1>1, <3>1 DEF WireTypes
    <3>3. ASSUME NEW s \in WireSessions PROVE c[s] > 0 \/ (r[s] = revision[s] /\ c[s] = queueChanged[s])
      BY <1>1, <3>1 DEF WireTypes
    <3> QED BY <3>1, <3>2, <3>3
  <2> QED BY <2>1, <2>2
<1>4. WireTypes'
  BY <1>1, <1>2, <1>3 DEF WireTypes
<1>5. InboundInv' /\ SendingInv'
  BY <1>2 DEF WireInv, InboundInv, SendingInv, W!Work
<1>6. W!Nobody \notin Sockets
  BY WireAssumption
<1> QED BY <1>2, <1>3, <1>4, <1>5, <1>6, SocketActs

\* A frame is no other Session's.
LEMMA OneSession ==
    ASSUME NEW f, NEW s, f.session # s
    PROVE  ~ EventOf(f, s) /\ ~ QueueOf(f, s)
BY DEF EventOf, QueueOf

\* The dispatcher takes a frame: no baseline of its Session is being made, and
\* who is attached to it is among the targets.
LEMMA DispatchKeeps == ASSUME WireInv, W!Dispatch PROVE WireInv'
<1> USE DEF W!state, W!queues
<1>1. PICK f, s0 : f = Head(outbound) /\ s0 = f.session
  OBVIOUS
<1>2. /\ outbound # <<>> /\ sending = W!Idle /\ outbound' = Tail(outbound)
      /\ outputLocks[s0] = W!Nobody /\ outputLocks' = [outputLocks EXCEPT ![s0] = W!Manager]
      /\ sending' = [frame |-> f, targets |-> connected[s0]]
      /\ UNCHANGED <<logged, folded, revision, queueChanged, forward, connected, sockets, inbound, views>>
  BY <1>1 DEF W!Dispatch
<1>3. WireTypes
  BY DEF WireInv
<1>4. /\ outbound' \in Seq(W!Frame) /\ f \in W!Frame /\ Frames(outbound) = Frames(outbound') \cup {f}
      /\ \A s : InOrder(outbound, s) => InOrder(outbound', s) /\ Below({f}, Frames(outbound'), s)
      /\ \A s, n : Newest(outbound, s, n) =>
            Newest(outbound', s, n) /\ (QueueOf(f, s) /\ ~ HasQueue(Frames(outbound'), s) => f.n = n)
  BY <1>1, <1>2, <1>3, FrameLeaves DEF WireTypes
<1>5. s0 \in WireSessions
  BY <1>1, <1>3, <1>4, FramesAre
<1>6. sending' # W!Idle /\ sending'.frame = f /\ sending'.targets = connected[s0]
  <2>1. sending'.frame = f /\ sending'.targets = connected[s0]
    BY <1>2
  <2>2. f.kind # "none" /\ W!Idle.frame.kind = "none"
    BY <1>4 DEF W!Frame, W!Idle
  <2> QED BY <2>1, <2>2
<1>7. /\ Flying = {} /\ Flying' = {f} /\ \A w : FlyingTo(w) = {}
      /\ \A w : w \in connected[s0] => FlyingTo(w)' = {f}
  BY <1>2, <1>6 DEF Flying, FlyingTo
<1>8. WireTypes'
  <2>1. connected[s0] \subseteq Sockets
    BY <1>3, <1>5 DEF WireTypes
  <2>2. sending' \in [frame : W!Frame, targets : SUBSET Sockets]
    BY <1>2, <1>4, <2>1
  <2>3. DOMAIN outputLocks' = WireSessions
    BY <1>2, <1>3 DEF WireTypes
  <2> QED BY <1>2, <1>3, <1>4, <2>2, <2>3 DEF WireTypes
<1>9. InboundInv' /\ SendingInv'
  <2>1. InboundInv'
    BY <1>2 DEF WireInv, InboundInv, W!Work
  <2>2. SendingInv'
    BY <1>1, <1>2, <1>3, <1>5, <1>6 DEF SendingInv, WireTypes
  <2> QED BY <2>1, <2>2
<1>10. ASSUME NEW s \in WireSessions PROVE PipeInv(s)' /\ QueueInv(s)'
  <2>1. PipeInv(s) /\ QueueInv(s)
    BY DEF WireInv
  <2>2. InOrder(outbound', s) /\ Below({f}, Frames(outbound'), s)
    BY <1>4, <2>1 DEF PipeInv
  <2>3. Below(Frames(outbound'), Frames(forward), s) /\ Below({f}, Frames(forward), s)
    BY <1>4, <2>1 DEF PipeInv, Below
  <2>4. NumbersUpTo(Frames(outbound'), s, logged[s]) /\ NumbersUpTo({f}, s, logged[s])
    BY <1>4, <2>1 DEF PipeInv, NumbersUpTo
  <2>5. PipeInv(s)'
    BY <1>2, <1>7, <2>1, <2>2, <2>3, <2>4 DEF PipeInv
  <2>6. ASSUME queueChanged'[s] = 0
        PROVE  /\ Newest(outbound', s, revision[s])
               /\ ~ HasQueue(Frames(outbound'), s) => (QueueOf(f, s) => f.n = revision[s])
    BY <1>2, <1>4, <2>1, <2>6 DEF QueueInv
  <2>7. QueueInv(s)'
    BY <1>2, <1>7, <2>6 DEF QueueInv
  <2> QED BY <2>5, <2>7
<1>11. \A s : s # s0 =>
          /\ \A m : Carried(Frames(forward) \cup Frames(outbound), s, m)
                      => Carried(Frames(forward) \cup Frames(outbound), s, m)'
          /\ HasQueue(Frames(outbound), s) => HasQueue(Frames(outbound'), s)
  BY <1>1, <1>2, <1>4, OneSession DEF Carried, HasQueue
<1>12. ASSUME NEW w \in Sockets, NEW s \in WireSessions PROVE ClientInv(w, s)'
  <2>1. ClientInv(w, s) /\ AtLast(w, s)' = AtLast(w, s)
    BY <1>2 DEF WireInv, AtLast, W!Work
  <2>2. CASE ~ (sockets[w].open /\ views[w][s].current)
    BY <1>2, <2>2 DEF ClientInv
  <2>3. CASE sockets[w].open /\ views[w][s].current
    <3>1. w \in connected[s]
      BY <2>1, <2>3 DEF ClientInv
    <3>2. \A m : Owed(w, s, m) => Owed(w, s, m)'
      <4> SUFFICES ASSUME NEW m, NEW g \in Frames(forward) \cup Frames(outbound) \cup FlyingTo(w),
                          EventOf(g, s), g.n = m
                   PROVE  g \in Frames(forward') \cup Frames(outbound') \cup FlyingTo(w)'
        BY DEF Owed, Carried
      <4>1. CASE g = f
        BY <1>1, <1>7, <3>1, <4>1 DEF EventOf
      <4>2. CASE g # f
        BY <1>2, <1>4, <1>7, <4>2
      <4> QED BY <4>1, <4>2
    <3>3. OwedQueue(w, s) => OwedQueue(w, s)'
      <4>1. CASE queueChanged[s] > 0
        BY <1>2, <4>1 DEF OwedQueue
      <4>2. ASSUME NEW g \in Frames(outbound) \cup FlyingTo(w), QueueOf(g, s)
            PROVE  g \in Frames(outbound') \cup FlyingTo(w)'
        <5>1. CASE g = f
          BY <1>1, <1>7, <3>1, <4>2, <5>1 DEF QueueOf
        <5>2. CASE g # f
          BY <1>4, <1>7, <4>2, <5>2
        <5> QED BY <5>1, <5>2
      <4>3. CASE HasQueue(Frames(outbound) \cup FlyingTo(w), s)
        BY <4>2, <4>3 DEF HasQueue, OwedQueue
      <4> QED BY <4>1, <4>3 DEF OwedQueue
    <3>4. logged[s] \in Nat /\ \A m \in logged[s] + 1 .. logged[s] : FALSE
      BY <1>3, FramesAre
    <3> QED BY <1>2, <2>1, <3>2, <3>3, <3>4, ClientKept
  <2> QED BY <2>2, <2>3
<1>13. ASSUME NEW w \in Sockets PROVE WorkInv(w)'
  <2>1. PICK k : k = W!Work(w) /\ W!Work(w)' = k
    BY <1>2 DEF W!Work
  <2>2. BasingInv(w, k) /\ KnownSession(k)
    BY <2>1 DEF WireInv, WorkInv
  <2>3. k.pc \in Basing =>
           /\ w \in connected[k.session] => w \in connected'[k.session]
           /\ outputLocks[k.session] = w => outputLocks'[k.session] = w
           /\ logged[k.session] \in Nat /\ logged'[k.session] \in Nat
           /\ logged[k.session] <= logged'[k.session]
           /\ \A m : Carried(Frames(forward) \cup Frames(outbound), k.session, m)
                       => Carried(Frames(forward) \cup Frames(outbound), k.session, m)'
           /\ \A m \in logged[k.session] + 1 .. logged'[k.session] :
                  Carried(Frames(forward) \cup Frames(outbound), k.session, m)'
           /\ queueChanged[k.session] > 0 \/ HasQueue(Frames(outbound), k.session)
                => queueChanged'[k.session] > 0 \/ HasQueue(Frames(outbound)', k.session)
           /\ \/ revision'[k.session] = revision[k.session]
              \/ queueChanged'[k.session] > 0 \/ HasQueue(Frames(outbound)', k.session)
    <3> HAVE k.pc \in Basing
    <3>1. k.session \in WireSessions /\ outputLocks[k.session] = w
      BY <2>2 DEF BasingInv
    <3>2. k.session # s0
      BY <1>2, <3>1, WireAssumption
    <3>3. logged[k.session] \in Nat /\ logged'[k.session] = logged[k.session]
      BY <1>2, <1>3, <3>1, FramesAre
    <3>4. \A m \in logged[k.session] + 1 .. logged'[k.session] : FALSE
      BY <3>3
    <3>5. /\ \A m : Carried(Frames(forward) \cup Frames(outbound), k.session, m)
                      => Carried(Frames(forward) \cup Frames(outbound), k.session, m)'
          /\ HasQueue(Frames(outbound), k.session) => HasQueue(Frames(outbound)', k.session)
      BY <1>11, <3>2
    <3>6. /\ queueChanged'[k.session] = queueChanged[k.session] /\ revision'[k.session] = revision[k.session]
          /\ connected'[k.session] = connected[k.session] /\ outputLocks'[k.session] = outputLocks[k.session]
      BY <1>2, <1>3, <3>1, <3>2 DEF WireTypes
    <3>7. logged[k.session] <= logged'[k.session]
      BY <3>3
    <3>8. \A m \in logged[k.session] + 1 .. logged'[k.session] :
             Carried(Frames(forward) \cup Frames(outbound), k.session, m)'
      BY <3>4
    <3> QED BY ONLY <3>3, <3>5, <3>6, <3>7, <3>8
  <2>4. BasingInv(w, k)
    BY <2>2
  <2>5. BasingInv(w, k)'
    BY ONLY <2>3, <2>4, BasingKept
  <2> QED BY <2>1, <2>2, <2>5 DEF WorkInv
<1> QED BY <1>8, <1>9, <1>10, <1>12, <1>13 DEF WireInv

\* The frame has been sent to everyone: the Session's lock is free again.
LEMMA SentKeeps == ASSUME WireInv, W!Sent PROVE WireInv'
<1> USE DEF W!state, W!queues
<1>1. PICK s0 : s0 = sending.frame.session
  OBVIOUS
<1>2. /\ sending # W!Idle /\ sending.targets = {} /\ sending' = W!Idle
      /\ outputLocks' = [outputLocks EXCEPT ![s0] = W!Nobody]
      /\ UNCHANGED <<logged, folded, revision, queueChanged, forward, outbound, connected, sockets, inbound, views>>
  BY <1>1 DEF W!Sent
<1>3. WireTypes /\ outputLocks[s0] = W!Manager
  BY <1>1, <1>2 DEF WireInv, SendingInv
<1>4. Flying' = {} /\ \A w : FlyingTo(w)' = {} /\ FlyingTo(w) = {}
  BY <1>2 DEF Flying, FlyingTo
<1>5. WireTypes'
  BY <1>2, <1>3 DEF WireTypes
<1>6. InboundInv' /\ SendingInv'
  BY <1>2 DEF WireInv, InboundInv, SendingInv, W!Work
<1>7. \A s \in WireSessions, w \in Sockets : outputLocks[s] = w => outputLocks'[s] = w
  BY <1>2, <1>3, WireAssumption DEF WireTypes
<1>8. ASSUME NEW s \in WireSessions PROVE PipeInv(s)' /\ QueueInv(s)'
  <2>1. PipeInv(s) /\ QueueInv(s)
    BY DEF WireInv
  <2>2. PipeInv(s)'
    BY <1>2, <1>4, <2>1 DEF PipeInv, Below, NumbersUpTo
  <2>3. QueueInv(s)'
    BY <1>2, <1>4, <2>1 DEF QueueInv
  <2> QED BY <2>2, <2>3
<1>9. ASSUME NEW w \in Sockets, NEW s \in WireSessions PROVE ClientInv(w, s)'
  <2>1. \A m : Owed(w, s, m)' = Owed(w, s, m)
    BY <1>2, <1>4 DEF Owed
  <2>2. OwedQueue(w, s)' = OwedQueue(w, s)
    BY <1>2, <1>4 DEF OwedQueue
  <2>3. ClientInv(w, s) /\ AtLast(w, s)' = AtLast(w, s)
    BY <1>2 DEF WireInv, AtLast, W!Work
  <2>4. logged[s] \in Nat /\ \A m \in logged[s] + 1 .. logged[s] : FALSE
    BY <1>3, FramesAre
  <2> QED BY <1>2, <2>1, <2>2, <2>3, <2>4, ClientKept
<1>10. ASSUME NEW w \in Sockets PROVE WorkInv(w)'
  <2>1. PICK k : k = W!Work(w) /\ W!Work(w)' = k
    BY <1>2 DEF W!Work
  <2>2. BasingInv(w, k) /\ KnownSession(k)
    BY <2>1 DEF WireInv, WorkInv
  <2>3. BasingInv(w, k)'
    BY <1>2, <1>7, <2>2 DEF BasingInv
  <2> QED BY <2>1, <2>2, <2>3 DEF WorkInv
<1> QED BY <1>5, <1>6, <1>8, <1>9, <1>10 DEF WireInv

\* What a client makes of a frame: no event is left out, because the one it
\* needs next would be behind this one.
LEMMA ClientReceives ==
    ASSUME WireInv, NEW w \in Sockets, NEW f, NEW v,
           sending # W!Idle, w \in sending.targets, f = sending.frame, sockets[w].open,
           v = W!Received(views[w][f.session], f)
    PROVE  /\ DOMAIN v = ViewFields
           /\ v.current => LET s == f.session IN
                 /\ w \in connected[s] /\ ~ v.gap /\ v.held \in 0 .. logged[s]
                 /\ \A m \in 1 .. logged[s] :
                       v.held < m => Carried(Frames(forward) \cup Frames(outbound), s, m)
                 /\ \/ AtLast(w, s) \/ v.queue = revision[s]
                    \/ queueChanged[s] > 0 \/ HasQueue(Frames(outbound), s)
<1> DEFINE s == f.session
<1>1. WireTypes
  BY DEF WireInv
<1>2. /\ f \in W!Frame /\ s \in WireSessions /\ f.n \in Nat /\ logged[s] \in Nat
      /\ Flying = {f} /\ FlyingTo(w) = {f}
  BY <1>1, FramesAre DEF Flying, FlyingTo
<1>3. /\ DOMAIN views[w][s] = ViewFields /\ PipeInv(s) /\ QueueInv(s) /\ ClientInv(w, s)
  BY <1>1, <1>2 DEF WireInv, WireTypes
<1> DEFINE u == views[w][s]
<1> HIDE DEF s, u
<1>4. DOMAIN u = ViewFields /\ v = W!Received(u, f)
  BY <1>3 DEF u, s
<1>5. u.current =>
         /\ w \in connected[s] /\ ~ u.gap /\ u.held \in 0 .. logged[s]
         /\ \A m \in 1 .. logged[s] : u.held < m => Owed(w, s, m)
         /\ AtLast(w, s) \/ OwedQueue(w, s) \/ u.queue = revision[s]
  BY <1>3 DEF ClientInv, u
<1>6. CASE f.kind = "queue"
  <2>1. /\ DOMAIN v = ViewFields /\ v.current = u.current /\ v.gap = u.gap /\ v.held = u.held /\ v.queue = f.n
    BY <1>4, <1>6 DEF W!Received, ViewFields
  <2>2. QueueOf(f, s) /\ ~ EventOf(f, s)
    BY <1>6 DEF QueueOf, EventOf, s
  <2>3. \A m : Owed(w, s, m) => Carried(Frames(forward) \cup Frames(outbound), s, m)
    BY <1>2, <2>2 DEF Owed, Carried
  <2>4. v.queue = revision[s] \/ queueChanged[s] > 0 \/ HasQueue(Frames(outbound), s)
    <3> SUFFICES ASSUME queueChanged[s] = 0, ~ HasQueue(Frames(outbound), s) PROVE f.n = revision[s]
      BY <1>1, <1>2, <2>1 DEF WireTypes
    <3> QED BY <1>2, <1>3, <2>2 DEF QueueInv
  <2> QED BY <1>5, <2>1, <2>3, <2>4 DEF s
<1>7. CASE f.kind # "queue"
  <2>1. EventOf(f, s) /\ ~ QueueOf(f, s)
    BY <1>2, <1>7 DEF QueueOf, EventOf, W!Frame, s
  <2>2. \A m : Owed(w, s, m) => m = f.n \/ Carried(Frames(forward) \cup Frames(outbound), s, m)
    BY <1>2 DEF Owed, Carried
  <2>3. OwedQueue(w, s) => queueChanged[s] > 0 \/ HasQueue(Frames(outbound), s)
    BY <1>2, <2>1 DEF OwedQueue, HasQueue
  <2>4. f.n <= logged[s]
    BY <1>2, <1>3, <2>1 DEF PipeInv, NumbersUpTo
  <2>5. CASE f.n <= u.held
    <3>1. v = u
      BY <1>4, <1>7, <2>5 DEF W!Received
    <3>2. u.current => \A m \in 1 .. logged[s] :
             u.held < m => Carried(Frames(forward) \cup Frames(outbound), s, m)
      BY <1>2, <1>5, <2>2, <2>5, SMTT(30)
    <3> QED BY <1>4, <1>5, <2>3, <3>1, <3>2 DEF s
  <2>6. CASE ~ (f.n <= u.held)
    <3>1. /\ DOMAIN v = ViewFields /\ v.current = u.current /\ v.held = f.n /\ v.queue = u.queue
          /\ v.gap => u.gap \/ (u.current /\ f.n > u.held + 1)
      <4>1. PICK b : b = (u.gap \/ (u.current /\ f.n > u.held + 1))
        OBVIOUS
      <4>2. v = [u EXCEPT !.gap = b, !.held = f.n]
        BY <1>4, <1>7, <2>6, <4>1 DEF W!Received
      <4>3. v.gap = b /\ DOMAIN v = ViewFields /\ v.current = u.current /\ v.held = f.n /\ v.queue = u.queue
        BY <1>4, <4>2 DEF ViewFields
      <4> QED BY <4>1, <4>3
    <3>2. ASSUME u.current PROVE ~ v.gap
      <4>1. u.held \in Nat /\ u.held < f.n /\ ~ u.gap
        BY <1>2, <1>5, <2>6, <3>2
      <4>2. u.held + 1 \in 1 .. logged[s] /\ u.held < u.held + 1
        BY <1>2, <2>4, <4>1
      <4>3. Owed(w, s, u.held + 1)
        BY <1>5, <3>2, <4>2
      <4>4. CASE u.held + 1 = f.n
        BY <1>2, <3>1, <4>1, <4>4
      <4>5. ASSUME NEW g \in Frames(forward) \cup Frames(outbound), EventOf(g, s), g.n = u.held + 1 PROVE FALSE
        <5>1. f.n < g.n
          BY <1>2, <1>3, <2>1, <4>5 DEF PipeInv, Below
        <5> QED BY <1>2, <4>1, <4>5, <5>1
      <4> QED BY <2>2, <4>3, <4>4, <4>5 DEF Carried
    <3>3. u.current => \A m \in 1 .. logged[s] :
             f.n < m => Carried(Frames(forward) \cup Frames(outbound), s, m)
      <4> SUFFICES ASSUME u.current, NEW m \in 1 .. logged[s], f.n < m
                   PROVE  Carried(Frames(forward) \cup Frames(outbound), s, m)
        OBVIOUS
      <4>1. u.held < m /\ m # f.n
        BY <1>2, <1>5, <2>6
      <4> QED BY <1>5, <2>2, <4>1
    <3>4. f.n \in 0 .. logged[s]
      BY <1>2, <2>4
    <3> QED BY <1>5, <2>3, <3>1, <3>2, <3>3, <3>4 DEF s
  <2> QED BY <2>5, <2>6
<1> QED BY <1>6, <1>7

\* One view of one client changes.
LEMMA ViewSet ==
    ASSUME WireTypes, NEW w0 \in Sockets, NEW s0 \in WireSessions, NEW v, NEW vs,
           vs = [views EXCEPT ![w0][s0] = v]
    PROVE  /\ DOMAIN vs = Sockets /\ \A w \in Sockets : DOMAIN vs[w] = WireSessions
           /\ \A w \in Sockets : w # w0 => vs[w] = views[w]
           /\ vs[w0][s0] = v /\ \A s \in WireSessions : s # s0 => vs[w0][s] = views[w0][s]
<1>1. DOMAIN views = Sockets /\ \A w \in Sockets : DOMAIN views[w] = WireSessions
  BY DEF WireTypes
<1>2. PICK u : u = [views[w0] EXCEPT ![s0] = v]
  OBVIOUS
<1>3. DOMAIN u = WireSessions /\ u[s0] = v /\ \A s \in WireSessions : s # s0 => u[s] = views[w0][s]
  BY <1>1, <1>2
<1>4. vs = [views EXCEPT ![w0] = u]
  BY <1>2
<1>5. DOMAIN vs = Sockets /\ vs[w0] = u /\ \A w \in Sockets : w # w0 => vs[w] = views[w]
  BY <1>1, <1>4
<1> QED BY <1>1, <1>3, <1>5

\* A socket is given something to do, or is closed.
LEMMA SocketSet ==
    ASSUME WireTypes, NEW w0 \in Sockets, NEW k, NEW x, NEW y
    PROVE  /\ x = [sockets EXCEPT ![w0].work = k] =>
                /\ DOMAIN x = Sockets /\ \A w \in Sockets : DOMAIN x[w] = {"open", "known", "work"}
                /\ \A w \in Sockets : w # w0 => x[w] = sockets[w]
                /\ x[w0].work = k /\ x[w0].open = sockets[w0].open
           /\ y = [sockets EXCEPT ![w0].open = FALSE] =>
                /\ DOMAIN y = Sockets /\ \A w \in Sockets : DOMAIN y[w] = {"open", "known", "work"}
                /\ \A w \in Sockets : w # w0 => y[w] = sockets[w]
                /\ y[w0].work = sockets[w0].work /\ ~ y[w0].open
<1>1. DOMAIN sockets = Sockets /\ \A w \in Sockets : DOMAIN sockets[w] = {"open", "known", "work"}
  BY DEF WireTypes
<1>2. PICK u, z : u = [sockets[w0] EXCEPT !.work = k] /\ z = [sockets[w0] EXCEPT !.open = FALSE]
  OBVIOUS
<1>3. /\ DOMAIN u = {"open", "known", "work"} /\ u.work = k /\ u.open = sockets[w0].open
      /\ DOMAIN z = {"open", "known", "work"} /\ z.work = sockets[w0].work /\ ~ z.open
  BY <1>1, <1>2
<1>4. /\ x = [sockets EXCEPT ![w0].work = k] => x = [sockets EXCEPT ![w0] = u]
      /\ y = [sockets EXCEPT ![w0].open = FALSE] => y = [sockets EXCEPT ![w0] = z]
  BY <1>2
<1> QED BY <1>1, <1>3, <1>4

LEMMA SendToKeeps == ASSUME WireInv, NEW w0 \in Sockets, W!SendTo(w0) PROVE WireInv'
<1> USE DEF W!state, W!queues
<1>1. PICK f, s0, v : f = sending.frame /\ s0 = f.session /\ v = W!Received(views[w0][s0], f)
  OBVIOUS
<1>2. /\ sending # W!Idle /\ w0 \in sending.targets /\ sending' = [sending EXCEPT !.targets = @ \ {w0}]
      /\ UNCHANGED <<logged, folded, revision, queueChanged, forward, outbound, outputLocks, connected, inbound>>
  BY DEF W!SendTo
<1>3. \/ sockets[w0].open /\ views' = [views EXCEPT ![w0][s0] = v] /\ UNCHANGED sockets
      \/ sockets' = [sockets EXCEPT ![w0].open = FALSE] /\ UNCHANGED views
      \/ ~ sockets[w0].open /\ UNCHANGED <<sockets, views>>
  <2>1. [views EXCEPT ![w0][s0] = W!Received(@, f)] = [views EXCEPT ![w0][s0] = W!Received(views[w0][s0], f)]
    OBVIOUS
  <2> QED BY <1>1, <2>1 DEF W!SendTo
<1>4. WireTypes
  BY DEF WireInv
<1>5. /\ f \in W!Frame /\ s0 \in WireSessions /\ f.n \in Nat /\ sending.targets \subseteq Sockets
      /\ sending \in [frame : W!Frame, targets : SUBSET Sockets]
  BY <1>1, <1>2, <1>4, FramesAre DEF WireTypes
<1>6. /\ sending' # W!Idle /\ sending'.frame = f /\ sending'.targets = sending.targets \ {w0}
      /\ sending' \in [frame : W!Frame, targets : SUBSET Sockets]
  <2>1. sending'.frame = f /\ sending'.targets = sending.targets \ {w0}
        /\ sending' \in [frame : W!Frame, targets : SUBSET Sockets]
    BY <1>1, <1>2, <1>5
  <2>2. f.kind # "none" /\ W!Idle.frame.kind = "none"
    BY <1>5 DEF W!Frame, W!Idle
  <2> QED BY <2>1, <2>2
<1>7. /\ Flying' = Flying /\ FlyingTo(w0)' = {}
      /\ \A w : w # w0 => FlyingTo(w)' = FlyingTo(w)
  BY <1>1, <1>2, <1>6 DEF Flying, FlyingTo
<1>17. /\ DOMAIN sockets' = Sockets /\ \A w \in Sockets : DOMAIN sockets'[w] = {"open", "known", "work"}
       /\ \A w \in Sockets : w # w0 => sockets'[w] = sockets[w]
       /\ sockets'[w0].work = sockets[w0].work
       /\ sockets'[w0].open => sockets[w0].open /\ UNCHANGED sockets
  <2>1. CASE UNCHANGED sockets
    BY <1>4, <2>1 DEF WireTypes
  <2>2. CASE sockets' = [sockets EXCEPT ![w0].open = FALSE]
    BY <1>4, <2>2, SocketSet
  <2> QED BY <1>3, <2>1, <2>2
<1>18. /\ DOMAIN views' = Sockets /\ \A w \in Sockets : DOMAIN views'[w] = WireSessions
       /\ \A w \in Sockets : w # w0 => views'[w] = views[w]
       /\ views'[w0][s0] = views[w0][s0] \/ (sockets[w0].open /\ views'[w0][s0] = v)
       /\ \A s \in WireSessions : s # s0 => views'[w0][s] = views[w0][s]
  <2>1. CASE UNCHANGED views
    BY <1>4, <2>1 DEF WireTypes
  <2>2. CASE sockets[w0].open /\ views' = [views EXCEPT ![w0][s0] = v]
    BY <1>4, <1>5, <2>2, ViewSet
  <2> QED BY <1>3, <2>1, <2>2
<1>8. \A w \in Sockets : W!Work(w)' = W!Work(w)
  BY <1>17 DEF W!Work
<1>9. /\ DOMAIN sockets' = Sockets /\ \A w \in Sockets : DOMAIN sockets'[w] = {"open", "known", "work"}
      /\ \A w \in Sockets : w # w0 => sockets'[w] = sockets[w] /\ views'[w] = views[w]
      /\ \A w \in Sockets : sockets'[w].open => sockets[w].open
  BY <1>17, <1>18
<1>10. /\ DOMAIN views' = Sockets /\ \A w \in Sockets : DOMAIN views'[w] = WireSessions
       /\ \A w \in Sockets, s \in WireSessions : w # w0 \/ s # s0 => views'[w][s] = views[w][s]
       /\ views'[w0][s0] = views[w0][s0] \/ (sockets[w0].open /\ views'[w0][s0] = v)
  BY <1>18
<1>11. sockets[w0].open =>
          /\ DOMAIN v = ViewFields
          /\ v.current =>
               /\ w0 \in connected[s0] /\ ~ v.gap /\ v.held \in 0 .. logged[s0]
               /\ \A m \in 1 .. logged[s0] :
                     v.held < m => Carried(Frames(forward) \cup Frames(outbound), s0, m)
               /\ \/ AtLast(w0, s0) \/ v.queue = revision[s0]
                  \/ queueChanged[s0] > 0 \/ HasQueue(Frames(outbound), s0)
  BY <1>1, <1>2, ClientReceives
<1>12. WireTypes'
  <2>1. \A w \in Sockets, s \in WireSessions : DOMAIN views'[w][s] = ViewFields
    BY <1>4, <1>10, <1>11 DEF WireTypes
  <2> QED BY <1>2, <1>4, <1>6, <1>9, <1>10, <2>1 DEF WireTypes
<1>13. InboundInv' /\ SendingInv'
  <2>1. InboundInv'
    BY <1>2, <1>8 DEF WireInv, InboundInv
  <2>2. SendingInv'
    BY <1>1, <1>2, <1>6 DEF WireInv, SendingInv
  <2> QED BY <2>1, <2>2
<1>14. ASSUME NEW s \in WireSessions PROVE PipeInv(s)' /\ QueueInv(s)'
  <2>1. PipeInv(s) /\ QueueInv(s)
    BY DEF WireInv
  <2> QED BY <1>2, <1>7, <2>1 DEF PipeInv, QueueInv
<1>15. ASSUME NEW w \in Sockets, NEW s \in WireSessions PROVE ClientInv(w, s)'
  <2>1. ClientInv(w, s) /\ AtLast(w, s)' = AtLast(w, s)
    BY <1>8 DEF WireInv, AtLast
  <2>2. logged[s] \in Nat /\ \A m \in logged[s] + 1 .. logged[s] : FALSE
    BY <1>4, FramesAre
  <2>3. CASE w # w0
    <3>1. \A m : Owed(w, s, m)' = Owed(w, s, m)
      BY <1>2, <1>7, <2>3 DEF Owed
    <3>2. OwedQueue(w, s)' = OwedQueue(w, s)
      BY <1>2, <1>7, <2>3 DEF OwedQueue
    <3> QED BY <1>2, <1>9, <1>10, <2>1, <2>2, <2>3, <3>1, <3>2, ClientKept
  <2>4. CASE w = w0 /\ s # s0
    <3>1. ~ EventOf(f, s) /\ ~ QueueOf(f, s)
      BY <1>1, <2>4, OneSession
    <3>2. FlyingTo(w) = {f}
      BY <1>1, <1>2, <2>4 DEF FlyingTo
    <3>3. \A m : Owed(w, s, m) => Owed(w, s, m)'
      BY <1>2, <1>7, <2>4, <3>1, <3>2 DEF Owed, Carried
    <3>4. OwedQueue(w, s) => OwedQueue(w, s)'
      BY <1>2, <1>7, <2>4, <3>1, <3>2 DEF OwedQueue, HasQueue
    <3> QED BY <1>2, <1>9, <1>10, <2>1, <2>2, <2>4, <3>3, <3>4, ClientKept
  <2>5. CASE w = w0 /\ s = s0
    <3> SUFFICES ASSUME sockets'[w].open, views'[w][s].current PROVE ClientInv(w, s)'
      BY DEF ClientInv
    <3>1. views'[w0][s0] = v
      BY <1>1, <1>3, <1>4, <1>5, <1>9, <2>5 DEF WireTypes
    <3>2. /\ w0 \in connected[s0] /\ ~ v.gap /\ v.held \in 0 .. logged[s0]
          /\ \A m \in 1 .. logged[s0] :
                v.held < m => Carried(Frames(forward) \cup Frames(outbound), s0, m)
          /\ \/ AtLast(w0, s0) \/ v.queue = revision[s0]
             \/ queueChanged[s0] > 0 \/ HasQueue(Frames(outbound), s0)
      BY <1>9, <1>11, <2>5, <3>1
    <3>3. \A m : Carried(Frames(forward) \cup Frames(outbound), s0, m) => Owed(w0, s0, m)'
      BY <1>2, <1>7 DEF Owed
    <3>4. queueChanged[s0] > 0 \/ HasQueue(Frames(outbound), s0) => OwedQueue(w0, s0)'
      BY <1>2, <1>7 DEF OwedQueue
    <3> QED BY <1>2, <2>1, <2>5, <3>1, <3>2, <3>3, <3>4 DEF ClientInv
  <2> QED BY <2>3, <2>4, <2>5
<1>16. ASSUME NEW w \in Sockets PROVE WorkInv(w)'
  <2>1. WorkInv(w)
    BY DEF WireInv
  <2>2. PICK k : k = W!Work(w) /\ W!Work(w)' = k
    BY <1>8
  <2>3. BasingInv(w, k)' = BasingInv(w, k)
    BY <1>2 DEF BasingInv
  <2> QED BY <2>1, <2>2, <2>3 DEF WorkInv
<1> QED BY <1>12, <1>13, <1>14, <1>15, <1>16 DEF WireInv

\* The part of the socket that acts, where its view stays as it is.
LEMMA OwnViewKept ==
    ASSUME WireInv, NEW w \in Sockets, NEW s \in WireSessions,
           UNCHANGED <<forward, outbound, sending, logged>>,
           queueChanged'[s] > 0 \/ (revision'[s] = revision[s] /\ queueChanged'[s] = queueChanged[s]),
           sockets'[w].open => sockets[w].open, views'[w][s] = views[w][s],
           ~ AtLast(w, s), w \in connected[s] => w \in connected'[s]
    PROVE  ClientInv(w, s)'
<1>1. WireTypes /\ ClientInv(w, s)
  BY DEF WireInv
<1>2. FlyingTo(w)' = FlyingTo(w) /\ Frames(forward)' = Frames(forward) /\ Frames(outbound)' = Frames(outbound)
  BY DEF FlyingTo
<1>3. \A m : Owed(w, s, m)' = Owed(w, s, m)
  BY <1>2 DEF Owed
<1>4. OwedQueue(w, s) => OwedQueue(w, s)'
  BY <1>2 DEF OwedQueue
<1>5. revision'[s] = revision[s] \/ OwedQueue(w, s)'
  BY DEF OwedQueue
<1>6. logged[s] \in Nat /\ \A m \in logged[s] + 1 .. logged[s] : FALSE
  BY <1>1, FramesAre
<1> QED BY <1>1, <1>3, <1>4, <1>5, <1>6, ClientKept

\* A socket goes on with what it does, or begins or ends it.
LEMMA DoesKeeps ==
    ASSUME WireInv, NEW w0 \in Sockets, NEW k, W!Does(w0, k),
           UNCHANGED <<forward, outbound, sending, logged, folded>>,
           revision' \in [WireSessions -> Nat], queueChanged' \in [WireSessions -> Nat],
           \A s \in WireSessions :
              queueChanged'[s] > 0 \/ (revision'[s] = revision[s] /\ queueChanged'[s] = queueChanged[s]),
           DOMAIN connected' = WireSessions,
           \A s \in WireSessions : connected'[s] \subseteq Sockets,
           \A w \in Sockets, s \in WireSessions : w # w0 /\ w \in connected[s] => w \in connected'[s],
           DOMAIN outputLocks' = WireSessions,
           \A s \in WireSessions : outputLocks'[s] = outputLocks[s] \/ outputLocks[s] \in {W!Nobody, w0},
           DOMAIN views' = Sockets, \A w \in Sockets : DOMAIN views'[w] = WireSessions,
           \A w \in Sockets, s \in WireSessions : DOMAIN views'[w][s] = ViewFields,
           \A w \in Sockets : w # w0 => views'[w] = views[w],
           InboundInv', KnownSession(k), BasingInv(w0, k)',
           \A s \in WireSessions : ClientInv(w0, s)'
    PROVE  WireInv'
<1>1. WireTypes /\ SendingInv
  BY DEF WireInv
<1>2. /\ DOMAIN sockets' = Sockets /\ \A w \in Sockets : DOMAIN sockets'[w] = {"open", "known", "work"}
      /\ \A w \in Sockets : w # w0 => sockets'[w] = sockets[w]
      /\ sockets'[w0].work = k
  <2>1. sockets' = [sockets EXCEPT ![w0].work = k]
    BY DEF W!Does
  <2> QED BY ONLY <1>1, <2>1, SocketSet, w0 \in Sockets
<1>3. WireTypes'
  BY <1>1, <1>2 DEF WireTypes
<1>4. SendingInv'
  <2> SUFFICES ASSUME sending # W!Idle PROVE outputLocks'[sending.frame.session] = W!Manager
    BY DEF SendingInv
  <2>1. sending.frame.session \in WireSessions /\ outputLocks[sending.frame.session] = W!Manager
    BY <1>1, FramesAre DEF SendingInv
  <2>2. W!Manager # W!Nobody /\ W!Manager # w0
    BY WireAssumption DEF W!Manager, W!Nobody
  <2> QED BY <2>1, <2>2
<1>5. \A w \in Sockets, s \in WireSessions : w # w0 =>
          /\ w \in connected[s] => w \in connected'[s]
          /\ outputLocks[s] = w => outputLocks'[s] = w
  BY WireAssumption
<1>6. WorkInv(w0)'
  <2>1. W!Work(w0)' = k
    BY <1>2 DEF W!Work
  <2> QED BY <2>1 DEF WorkInv, KnownSession
<1>7. \A w \in Sockets : w # w0 => sockets'[w] = sockets[w] /\ views'[w] = views[w]
  BY <1>2
<1> QED BY <1>3, <1>4, <1>5, <1>6, <1>7, SocketActs

\* Who does something else does not wait for the consumer, and the others
\* wait as before.
LEMMA InboundKept ==
    ASSUME WireInv, NEW w0 \in Sockets, NEW k, W!Does(w0, k),
           W!Work(w0).pc \notin {"asked", "cancelling"}
    PROVE  /\ inbound' = inbound => InboundInv'
           /\ inbound' = Append(inbound, w0) /\ k.pc \in {"asked", "cancelling"} => InboundInv'
<1>1. WireTypes /\ InboundInv
  BY DEF WireInv
<1>2. \A w \in Sockets : w # w0 => W!Work(w)' = W!Work(w)
  BY <1>1, SocketSet DEF W!Does, W!Work
<1>3. W!Work(w0)' = k
  BY <1>1, SocketSet DEF W!Does, W!Work
<1>4. /\ Len(inbound) \in Nat /\ DOMAIN inbound = 1 .. Len(inbound)
      /\ \A i \in DOMAIN inbound : inbound[i] \in Sockets /\ inbound[i] # w0
  BY <1>1 DEF InboundInv
<1>5. ASSUME inbound' = inbound PROVE InboundInv'
  BY <1>1, <1>2, <1>4, <1>5 DEF InboundInv
<1>6. ASSUME inbound' = Append(inbound, w0), k.pc \in {"asked", "cancelling"} PROVE InboundInv'
  <2>1. /\ inbound' \in Seq(Sockets) /\ DOMAIN inbound' = 1 .. Len(inbound) + 1
        /\ inbound'[Len(inbound) + 1] = w0 /\ \A i \in DOMAIN inbound : inbound'[i] = inbound[i]
    BY <1>1, <1>6 DEF InboundInv
  <2>2. \A i \in DOMAIN inbound' : i \in DOMAIN inbound \/ i = Len(inbound) + 1
    BY <1>4, <2>1
  <2>3. ASSUME NEW i \in DOMAIN inbound' PROVE (W!Work(inbound[i])').pc \in {"asked", "cancelling"}
    BY <1>1, <1>2, <1>3, <1>4, <1>6, <2>1, <2>2 DEF InboundInv
  <2> QED BY <1>1, <1>4, <2>1, <2>2, <2>3 DEF InboundInv
<1> QED BY <1>5, <1>6

\* What clients know stays; the socket may be attached, and lock and unlock.
LEMMA ViewsStay ==
    ASSUME WireInv, NEW w0 \in Sockets, NEW k, W!Does(w0, k), W!Work(w0).pc # "last",
           UNCHANGED <<forward, outbound, sending, logged, folded, views>>,
           revision' \in [WireSessions -> Nat], queueChanged' \in [WireSessions -> Nat],
           \A s \in WireSessions :
              queueChanged'[s] > 0 \/ (revision'[s] = revision[s] /\ queueChanged'[s] = queueChanged[s]),
           DOMAIN connected' = WireSessions,
           \A s \in WireSessions : connected'[s] \subseteq Sockets /\ connected[s] \subseteq connected'[s],
           DOMAIN outputLocks' = WireSessions,
           \A s \in WireSessions : outputLocks'[s] = outputLocks[s] \/ outputLocks[s] \in {W!Nobody, w0},
           InboundInv', KnownSession(k), BasingInv(w0, k)'
    PROVE  WireInv'
<1>1. WireTypes
  BY DEF WireInv
<1>2. sockets'[w0].open = sockets[w0].open
  <2>1. sockets' = [sockets EXCEPT ![w0].work = k]
    BY DEF W!Does
  <2> QED BY ONLY <1>1, <2>1, SocketSet, w0 \in Sockets
<1>3. \A s : ~ AtLast(w0, s)
  BY DEF AtLast
<1>4. \A s \in WireSessions : ClientInv(w0, s)'
  BY <1>2, <1>3, OwnViewKept
<1>5. DOMAIN views' = Sockets /\ \A w \in Sockets : DOMAIN views'[w] = WireSessions
  BY <1>1 DEF WireTypes
<1>6. \A w \in Sockets, s \in WireSessions : DOMAIN views'[w][s] = ViewFields
  BY <1>1 DEF WireTypes
<1>7. \A w \in Sockets : w # w0 => views'[w] = views[w]
  OBVIOUS
<1>8. \A w \in Sockets, s \in WireSessions : w # w0 /\ w \in connected[s] => w \in connected'[s]
  OBVIOUS
<1>9. \A s \in WireSessions : connected'[s] \subseteq Sockets
  OBVIOUS
<1> QED BY <1>4, <1>5, <1>6, <1>7, <1>8, <1>9, DoesKeeps

\* The inboxes are as they were.
LEMMA SameInboxes ==
    ASSUME WireTypes, UNCHANGED <<revision, queueChanged>>
    PROVE  /\ revision' \in [WireSessions -> Nat] /\ queueChanged' \in [WireSessions -> Nat]
           /\ \A s \in WireSessions : queueChanged'[s] > 0
                                      \/ (revision'[s] = revision[s] /\ queueChanged'[s] = queueChanged[s])
BY DEF WireTypes

\* An inbox has changed.
LEMMA InboxChanged ==
    ASSUME WireTypes, NEW s0 \in WireSessions, W!Changes(s0)
    PROVE  /\ revision' \in [WireSessions -> Nat] /\ queueChanged' \in [WireSessions -> Nat]
           /\ \A s \in WireSessions : queueChanged'[s] > 0
                                      \/ (revision'[s] = revision[s] /\ queueChanged'[s] = queueChanged[s])
<1>1. PICK r, c : /\ r = [revision EXCEPT ![s0] = @ + 1] /\ c = [queueChanged EXCEPT ![s0] = @ + 1]
                  /\ revision' = r /\ queueChanged' = c
  BY DEF W!Changes
<1>2. r \in [WireSessions -> Nat] /\ c \in [WireSessions -> Nat]
  BY <1>1 DEF WireTypes
<1>3. \A s \in WireSessions : c[s] > 0 \/ (r[s] = revision[s] /\ c[s] = queueChanged[s])
  BY <1>1 DEF WireTypes
<1> QED BY <1>1, <1>2, <1>3

\* Who is attached and who holds the locks is as it was, or the socket is
\* attached to one more Session.
LEMMA SameAttached ==
    ASSUME WireTypes, NEW w0 \in Sockets
    PROVE  /\ UNCHANGED connected =>
                /\ DOMAIN connected' = WireSessions
                /\ \A s \in WireSessions : connected'[s] \subseteq Sockets /\ connected[s] \subseteq connected'[s]
           /\ \A s0 \in WireSessions : connected' = W!Attached(w0, s0) =>
                /\ DOMAIN connected' = WireSessions /\ w0 \in connected'[s0]
                /\ \A s \in WireSessions : connected'[s] \subseteq Sockets /\ connected[s] \subseteq connected'[s]
           /\ UNCHANGED outputLocks =>
                /\ DOMAIN outputLocks' = WireSessions
                /\ \A s \in WireSessions :
                      outputLocks'[s] = outputLocks[s] \/ outputLocks[s] \in {W!Nobody, w0}
<1>1. ASSUME NEW s0 \in WireSessions, NEW c, c = W!Attached(w0, s0)
      PROVE  /\ DOMAIN c = WireSessions /\ w0 \in c[s0]
             /\ \A s \in WireSessions : c[s] \subseteq Sockets /\ connected[s] \subseteq c[s]
  BY <1>1 DEF WireTypes, W!Attached
<1>2. UNCHANGED connected => /\ DOMAIN connected' = WireSessions
                             /\ \A s \in WireSessions : connected'[s] \subseteq Sockets /\ connected[s] \subseteq connected'[s]
  BY DEF WireTypes
<1>3. UNCHANGED outputLocks => /\ DOMAIN outputLocks' = WireSessions
                               /\ \A s \in WireSessions : outputLocks'[s] = outputLocks[s]
  BY DEF WireTypes
<1> QED BY <1>1, <1>2, <1>3

LEMMA AttachKeeps ==
    ASSUME WireInv, NEW w0 \in Sockets, NEW s0 \in WireSessions, W!Attach(w0, s0)
    PROVE  WireInv'
<1> USE DEF W!state, W!queues
<1>1. WireTypes
  BY DEF WireInv
<1>2. PICK k : k = [pc |-> "attach", session |-> s0, after |-> views[w0][s0].held]
  OBVIOUS
<1>3. /\ W!Does(w0, k) /\ W!Work(w0) = W!NoWork
      /\ UNCHANGED <<forward, outbound, sending, logged, folded, views, revision, queueChanged>>
      /\ UNCHANGED connected /\ UNCHANGED outputLocks /\ inbound' = inbound
  BY <1>2 DEF W!Attach, W!Free
<1>4. W!Work(w0).pc = "idle"
  BY <1>3 DEF W!NoWork
<1>5. KnownSession(k) /\ BasingInv(w0, k)'
  BY <1>2 DEF KnownSession, BasingInv, Basing
<1> QED BY <1>1, <1>3, <1>4, <1>5, SameInboxes, SameAttached, InboundKept, ViewsStay

LEMMA AttachLockedKeeps ==
    ASSUME WireInv, NEW w0 \in Sockets, W!AttachLocked(w0)
    PROVE  WireInv'
<1> USE DEF W!state, W!queues
<1>1. WireTypes /\ WorkInv(w0)
  BY DEF WireInv
<1>2. PICK k, s0 : k = [W!Work(w0) EXCEPT !.pc = "baseline"] /\ s0 = W!Work(w0).session
  OBVIOUS
<1>3. /\ W!Does(w0, k) /\ W!Work(w0).pc = "attach" /\ outputLocks[s0] = W!Nobody
      /\ UNCHANGED <<forward, outbound, sending, logged, folded, views, revision, queueChanged>>
      /\ connected' = W!Attached(w0, s0) /\ outputLocks' = [outputLocks EXCEPT ![s0] = w0]
      /\ inbound' = inbound
  BY <1>2 DEF W!AttachLocked
<1>4. s0 \in WireSessions /\ DOMAIN W!Work(w0) = {"pc", "session", "after"}
  BY <1>1, <1>2, <1>3 DEF WorkInv, KnownSession
<1>5. k.pc = "baseline" /\ k.session = s0
  BY <1>2, <1>4
<1>6. /\ DOMAIN outputLocks' = WireSessions /\ outputLocks'[s0] = w0
      /\ \A s \in WireSessions : outputLocks'[s] = outputLocks[s] \/ outputLocks[s] \in {W!Nobody, w0}
  BY <1>1, <1>3, <1>4 DEF WireTypes
<1>7. /\ DOMAIN connected' = WireSessions /\ w0 \in connected'[s0]
      /\ \A s \in WireSessions : connected'[s] \subseteq Sockets /\ connected[s] \subseteq connected'[s]
  BY <1>1, <1>3, <1>4, SameAttached
<1>8. KnownSession(k) /\ BasingInv(w0, k)'
  BY <1>4, <1>5, <1>6, <1>7 DEF KnownSession, BasingInv, Basing
<1> QED BY <1>1, <1>3, <1>6, <1>7, <1>8, SameInboxes, InboundKept, ViewsStay

\* The events are read: the client will have them all, or is not up to date.
LEMMA BaselineKeeps ==
    ASSUME WireInv, NEW w0 \in Sockets, W!Baseline(w0)
    PROVE  WireInv'
<1> USE DEF W!state, W!queues
<1>1. WireTypes /\ WorkInv(w0)
  BY DEF WireInv
<1>2. PICK j, s0, after, resync, more :
         /\ j = W!Work(w0) /\ s0 = j.session /\ after = j.after
         /\ resync = (after < folded[s0] \/ after > logged[s0])
         /\ more = (logged[s0] - after > PageLimit)
  OBVIOUS
<1>3. PICK k : k = [pc |-> "queue", session |-> s0,
                    upto |-> IF resync THEN after ELSE IF more THEN after + PageLimit ELSE logged[s0],
                    current |-> ~ resync /\ ~ more, resync |-> resync]
  OBVIOUS
<1>4. /\ W!Does(w0, k) /\ j.pc = "baseline"
      /\ UNCHANGED <<forward, outbound, sending, logged, folded, views, revision, queueChanged>>
      /\ UNCHANGED connected /\ UNCHANGED outputLocks /\ inbound' = inbound
  BY <1>2, <1>3 DEF W!Baseline
<1>5. s0 \in WireSessions /\ w0 \in connected[s0] /\ outputLocks[s0] = w0
  BY <1>1, <1>2, <1>4 DEF WorkInv, BasingInv, Basing
<1>6. k.pc = "queue" /\ k.session = s0 /\ (k.current => ~ k.resync /\ k.upto = logged[s0])
  BY <1>3
<1>7. logged[s0] \in Nat /\ \A m \in 1 .. logged[s0] : ~ (logged[s0] < m)
  BY <1>1, <1>5, FramesAre
<1>8. KnownSession(k) /\ BasingInv(w0, k)'
  BY <1>4, <1>5, <1>6, <1>7 DEF KnownSession, BasingInv, Basing
<1>9. W!Work(w0).pc \notin {"asked", "cancelling", "last"}
  BY <1>2, <1>4
<1> QED BY <1>1, <1>4, <1>8, <1>9, SameInboxes, SameAttached, InboundKept, ViewsStay

\* The events could not be read: the client is not up to date.
LEMMA BaselineFailsKeeps ==
    ASSUME WireInv, NEW w0 \in Sockets, W!BaselineFails(w0)
    PROVE  WireInv'
<1> USE DEF W!state, W!queues
<1>1. WireTypes /\ WorkInv(w0)
  BY DEF WireInv
<1>2. PICK j, s0, k :
         /\ j = W!Work(w0) /\ s0 = j.session
         /\ k = [pc |-> "queue", session |-> s0, upto |-> j.after,
                 current |-> FALSE, resync |-> FALSE]
  OBVIOUS
<1>3. /\ W!Does(w0, k) /\ j.pc = "baseline"
      /\ UNCHANGED <<forward, outbound, sending, logged, folded, views, revision, queueChanged>>
      /\ UNCHANGED connected /\ UNCHANGED outputLocks /\ inbound' = inbound
  BY <1>2 DEF W!BaselineFails
<1>4. s0 \in WireSessions /\ w0 \in connected[s0] /\ outputLocks[s0] = w0
  BY <1>1, <1>2, <1>3 DEF WorkInv, BasingInv, Basing
<1>5. k.pc = "queue" /\ k.session = s0 /\ ~ k.current
  BY <1>2
<1>6. KnownSession(k) /\ BasingInv(w0, k)'
  BY <1>3, <1>4, <1>5 DEF KnownSession, BasingInv, Basing
<1>7. W!Work(w0).pc \notin {"asked", "cancelling", "last"}
  BY <1>2, <1>3
<1> QED BY <1>1, <1>3, <1>6, <1>7, SameInboxes, SameAttached, InboundKept, ViewsStay

\* The queue is read after the events.
LEMMA BaselineQueueKeeps ==
    ASSUME WireInv, NEW w0 \in Sockets, W!BaselineQueue(w0)
    PROVE  WireInv'
<1> USE DEF W!state, W!queues
<1>1. WireTypes /\ WorkInv(w0)
  BY DEF WireInv
<1>2. PICK j, k : /\ j = W!Work(w0)
                  /\ k = [pc |-> "subscribed", session |-> j.session, upto |-> j.upto,
                          current |-> j.current, resync |-> j.resync, queue |-> revision[j.session]]
  OBVIOUS
<1>3. /\ W!Does(w0, k) /\ j.pc = "queue"
      /\ UNCHANGED <<forward, outbound, sending, logged, folded, views, revision, queueChanged>>
      /\ UNCHANGED connected /\ UNCHANGED outputLocks /\ inbound' = inbound
  BY <1>2 DEF W!BaselineQueue
<1>4. BasingInv(w0, j)
  BY <1>1, <1>2 DEF WorkInv
<1>5. /\ k.pc = "subscribed" /\ k.session = j.session /\ k.upto = j.upto /\ k.current = j.current
      /\ k.resync = j.resync /\ k.queue = revision[j.session]
  BY <1>2
<1>6. KnownSession(k) /\ BasingInv(w0, k)'
  BY <1>3, <1>4, <1>5 DEF KnownSession, BasingInv, Basing
<1>7. W!Work(w0).pc \notin {"asked", "cancelling", "last"}
  BY <1>2, <1>3
<1> QED BY <1>1, <1>3, <1>6, <1>7, SameInboxes, SameAttached, InboundKept, ViewsStay

\* A prompt or a cancellation attaches the socket and waits.
LEMMA PromptKeeps ==
    ASSUME WireInv, NEW w0 \in Sockets, NEW s0 \in WireSessions, W!Prompt(w0, s0) \/ W!Cancel(w0, s0)
    PROVE  WireInv'
<1> USE DEF W!state, W!queues
<1>1. WireTypes
  BY DEF WireInv
<1>2. PICK pc \in {"asked", "cancelling"} : W!Ask(w0, s0, pc)
  BY DEF W!Prompt, W!Cancel
<1>3. PICK k : k = [pc |-> pc, session |-> s0]
  OBVIOUS
<1>4. /\ W!Does(w0, k) /\ W!Work(w0) = W!NoWork
      /\ UNCHANGED <<forward, outbound, sending, logged, folded, views, revision, queueChanged>>
      /\ connected' = W!Attached(w0, s0) /\ UNCHANGED outputLocks /\ inbound' = Append(inbound, w0)
  BY <1>2, <1>3 DEF W!Prompt, W!Cancel, W!Ask, W!Free
<1>5. W!Work(w0).pc = "idle" /\ k.pc \in {"asked", "cancelling"}
  BY <1>3, <1>4 DEF W!NoWork
<1>6. KnownSession(k) /\ BasingInv(w0, k)'
  BY <1>5 DEF KnownSession, BasingInv, Basing
<1>7. InboundInv'
  BY <1>4, <1>5, InboundKept
<1> QED BY <1>1, <1>4, <1>5, <1>6, <1>7, SameInboxes, SameAttached, ViewsStay

\* The consumer admits the message, or refuses it.
LEMMA ConsumeKeeps == ASSUME WireInv, W!Consume PROVE WireInv'
<1> USE DEF W!state, W!queues
<1>1. WireTypes /\ InboundInv
  BY DEF WireInv
<1>2. PICK w0 : w0 = Head(inbound)
  OBVIOUS
<1>3. /\ inbound # <<>> /\ inbound' = Tail(inbound)
      /\ UNCHANGED <<forward, outbound, sending, logged, folded, views>>
      /\ UNCHANGED connected /\ UNCHANGED outputLocks
  BY DEF W!Consume
<1>4. /\ w0 \in Sockets /\ Len(inbound) \in Nat /\ Len(inbound) >= 1 /\ w0 = inbound[1]
      /\ DOMAIN inbound = 1 .. Len(inbound) /\ inbound' \in Seq(Sockets)
      /\ DOMAIN inbound' = 1 .. Len(inbound) - 1
      /\ \A i \in DOMAIN inbound' : inbound'[i] = inbound[i + 1]
  BY <1>1, <1>2, <1>3 DEF InboundInv
<1>5. W!Work(w0).pc \in {"asked", "cancelling"}
  BY <1>1, <1>4 DEF InboundInv
<1>6. PICK k : /\ W!Does(w0, k) /\ KnownSession(k) /\ k.pc \notin Basing
               /\ (UNCHANGED <<revision, queueChanged>>) \/ (\E s \in WireSessions : W!Changes(s))
  <2>1. CASE W!Does(w0, W!NoWork) /\ UNCHANGED <<revision, queueChanged>>
    <3>1. W!NoWork.pc = "idle"
      BY DEF W!NoWork
    <3> QED BY <2>1, <3>1 DEF KnownSession, Basing
  <2>2. ASSUME NEW s \in WireSessions, W!Changes(s), W!Does(w0, [pc |-> "admitted", session |-> s])
        PROVE  \E k : /\ W!Does(w0, k) /\ KnownSession(k) /\ k.pc \notin Basing
                       /\ \E t \in WireSessions : W!Changes(t)
    <3>1. PICK j : j = [pc |-> "admitted", session |-> s]
      OBVIOUS
    <3>2. j.pc = "admitted" /\ j.session = s
      BY <3>1
    <3> QED BY <2>2, <3>1, <3>2 DEF KnownSession, Basing
  <2> QED BY <1>2, <2>1, <2>2 DEF W!Consume, W!Settles
<1>7. /\ revision' \in [WireSessions -> Nat] /\ queueChanged' \in [WireSessions -> Nat]
      /\ \A s \in WireSessions : queueChanged'[s] > 0
                                 \/ (revision'[s] = revision[s] /\ queueChanged'[s] = queueChanged[s])
  <2>1. CASE UNCHANGED <<revision, queueChanged>>
    BY <1>1, <2>1, SameInboxes
  <2>2. CASE \E s \in WireSessions : W!Changes(s)
    BY <1>1, <2>2, InboxChanged
  <2> QED BY <1>6, <2>1, <2>2
<1>8. InboundInv'
  <2>1. \A w \in Sockets : w # w0 => W!Work(w)' = W!Work(w)
    BY <1>1, <1>4, <1>6, SocketSet DEF W!Does, W!Work
  <2>2. \A i \in DOMAIN inbound' : i + 1 \in DOMAIN inbound /\ i + 1 # 1 /\ inbound'[i] = inbound[i + 1]
    BY <1>4
  <2>3. \A i \in DOMAIN inbound' : inbound'[i] # w0 /\ inbound'[i] \in Sockets
    BY <1>1, <1>4, <2>2 DEF InboundInv
  <2>4. \A i \in DOMAIN inbound' : (W!Work(inbound[i])').pc \in {"asked", "cancelling"}
    BY <1>1, <2>1, <2>2, <2>3 DEF InboundInv
  <2>5. \A i, j \in DOMAIN inbound' : inbound'[i] = inbound'[j] => i = j
    <3> SUFFICES ASSUME NEW i \in DOMAIN inbound', NEW j \in DOMAIN inbound', inbound'[i] = inbound'[j]
                 PROVE  i = j
      OBVIOUS
    <3>1. i + 1 = j + 1
      BY <1>1, <2>2 DEF InboundInv
    <3> QED BY <1>4, <3>1
  <2> QED BY <1>4, <2>4, <2>5 DEF InboundInv
<1>9. BasingInv(w0, k)'
  BY <1>6 DEF BasingInv, Basing
<1>10. W!Work(w0).pc # "last"
  BY <1>5
<1> QED BY <1>1, <1>3, <1>4, <1>6, <1>7, <1>8, <1>9, <1>10, SameAttached, ViewsStay

\* An edit of the inbox, answered with the queue, or refused.
LEMMA ControlKeeps ==
    ASSUME WireInv, NEW w0 \in Sockets, NEW s0 \in WireSessions, W!Control(w0, s0)
    PROVE  WireInv'
<1> USE DEF W!state, W!queues
<1>1. WireTypes
  BY DEF WireInv
<1>2. /\ W!Work(w0) = W!NoWork /\ inbound' = inbound
      /\ UNCHANGED <<forward, outbound, sending, logged, folded, views>>
      /\ UNCHANGED connected /\ UNCHANGED outputLocks
  BY DEF W!Control, W!Free
<1>3. W!Work(w0).pc = "idle"
  BY <1>2 DEF W!NoWork
<1>4. CASE UNCHANGED <<revision, queueChanged, sockets>>
  <2>1. WireTypes' /\ InboundInv' /\ SendingInv'
    BY <1>1, <1>2, <1>4 DEF WireInv, WireTypes, InboundInv, SendingInv, W!Work
  <2>2. W!Nobody \notin Sockets
    BY WireAssumption
  <2> QED BY <1>1, <1>2, <1>4, <2>1, <2>2, SameInboxes, SocketActs
<1>5. CASE W!Changes(s0) /\ W!Does(w0, [pc |-> "admitted", session |-> s0])
  <2>1. PICK k : k = [pc |-> "admitted", session |-> s0] /\ W!Does(w0, k)
    BY <1>5
  <2>2. k.pc = "admitted" /\ k.session = s0
    BY <2>1
  <2>3. KnownSession(k) /\ BasingInv(w0, k)'
    BY <2>2 DEF KnownSession, BasingInv, Basing
  <2> QED BY <1>1, <1>2, <1>3, <1>5, <2>1, <2>3, InboxChanged, SameAttached, InboundKept, ViewsStay
<1> QED BY <1>4, <1>5 DEF W!Control

\* The inbox and the queues of frames are as they were, so what is owed is.
LEMMA OwedAsItWas ==
    ASSUME UNCHANGED <<forward, outbound, sending, queueChanged>>
    PROVE  /\ \A w, s : OwedQueue(w, s)' = OwedQueue(w, s)
           /\ \A w, s, m : Owed(w, s, m)' = Owed(w, s, m)
<1>1. /\ Frames(forward)' = Frames(forward) /\ Frames(outbound)' = Frames(outbound)
      /\ \A w : FlyingTo(w)' = FlyingTo(w)
  BY DEF FlyingTo
<1> QED BY <1>1 DEF OwedQueue, Owed

\* A step of one socket that changes its own view of one Session.
LEMMA ViewChanges ==
    ASSUME WireInv, NEW w0 \in Sockets, NEW k, W!Does(w0, k), NEW s0 \in WireSessions, NEW v,
           views' = [views EXCEPT ![w0][s0] = v] \/ views' = views,
           UNCHANGED <<forward, outbound, sending, logged, folded, revision, queueChanged, connected>>,
           DOMAIN outputLocks' = WireSessions,
           \A s \in WireSessions : outputLocks'[s] = outputLocks[s] \/ outputLocks[s] \in {W!Nobody, w0},
           \A s : AtLast(w0, s) => s = s0,
           W!Work(w0).pc \notin {"asked", "cancelling"}, inbound' = inbound,
           KnownSession(k), BasingInv(w0, k)', DOMAIN v = ViewFields,
           sockets[w0].open => views' = [views EXCEPT ![w0][s0] = v],
           v.current =>
                /\ w0 \in connected[s0] /\ ~ v.gap /\ v.held \in 0 .. logged[s0]
                /\ \A m \in 1 .. logged[s0] : v.held < m => Owed(w0, s0, m)
                /\ \/ (k.pc = "last" /\ k.session = s0) \/ OwedQueue(w0, s0) \/ v.queue = revision[s0]
    PROVE  WireInv'
<1>1. WireTypes
  BY DEF WireInv
<1>2. /\ sockets'[w0].open = sockets[w0].open /\ sockets'[w0].work = k
  <2>1. sockets' = [sockets EXCEPT ![w0].work = k]
    BY DEF W!Does
  <2> QED BY ONLY <1>1, <2>1, SocketSet, w0 \in Sockets
<1>3. /\ DOMAIN views' = Sockets /\ \A w \in Sockets : DOMAIN views'[w] = WireSessions
      /\ \A w \in Sockets : w # w0 => views'[w] = views[w]
      /\ \A s \in WireSessions : s # s0 => views'[w0][s] = views[w0][s]
      /\ views'[w0][s0] = v \/ (~ sockets[w0].open /\ views'[w0][s0] = views[w0][s0])
  <2>1. CASE views' = [views EXCEPT ![w0][s0] = v]
    BY <1>1, <2>1, ViewSet
  <2>2. CASE views' # [views EXCEPT ![w0][s0] = v]
    BY <1>1, <2>2 DEF WireTypes
  <2> QED BY <2>1, <2>2
<1>4. ASSUME NEW w \in Sockets, NEW s \in WireSessions PROVE DOMAIN views'[w][s] = ViewFields
  <2>1. DOMAIN views[w][s] = ViewFields
    BY <1>1 DEF WireTypes
  <2>2. CASE w = w0 /\ s = s0
    BY ONLY <1>3, <2>1, <2>2, DOMAIN v = ViewFields
  <2>3. CASE w # w0
    BY ONLY <1>3, <2>1, <2>3, w \in Sockets
  <2>4. CASE w = w0 /\ s # s0
    BY ONLY <1>3, <2>1, <2>4, s \in WireSessions
  <2> QED BY <2>2, <2>3, <2>4
<1>5. ASSUME NEW s \in WireSessions PROVE ClientInv(w0, s)'
  <2>1. CASE s # s0
    <3>1. ~ AtLast(w0, s)
      BY <2>1
    <3> QED BY <1>2, <1>3, <2>1, <3>1, OwnViewKept
  <2>2. CASE s = s0
    <3> SUFFICES ASSUME sockets'[w0].open, views'[w0][s0].current PROVE ClientInv(w0, s0)'
      BY <2>2 DEF ClientInv
    <3>1. views'[w0][s0] = v /\ v.current
      BY <1>2, <1>3
    <3>2. (k.pc = "last" /\ k.session = s0) => AtLast(w0, s0)'
      BY <1>2 DEF AtLast, W!Work
    <3> QED BY <3>1, <3>2, OwedAsItWas DEF ClientInv
  <2> QED BY <2>1, <2>2
<1>6. InboundInv'
  BY InboundKept
<1>7. /\ revision' \in [WireSessions -> Nat] /\ queueChanged' \in [WireSessions -> Nat]
      /\ \A s \in WireSessions : queueChanged'[s] > 0
                                 \/ (revision'[s] = revision[s] /\ queueChanged'[s] = queueChanged[s])
  BY <1>1, SameInboxes
<1>8. /\ DOMAIN connected' = WireSessions /\ \A s \in WireSessions : connected'[s] \subseteq Sockets
      /\ \A w \in Sockets, s \in WireSessions : w # w0 /\ w \in connected[s] => w \in connected'[s]
  BY <1>1 DEF WireTypes
<1> QED BY <1>3, <1>4, <1>5, <1>6, <1>7, <1>8, DoesKeeps

\* The first frame of a baseline: the client has the events that were read,
\* and the later ones are still on their way, because nothing has been sent.
LEMMA SubscribedKeeps ==
    ASSUME WireInv, NEW w0 \in Sockets, W!Subscribed(w0)
    PROVE  WireInv'
<1> USE DEF W!state, W!queues
<1>1. WireTypes /\ WorkInv(w0)
  BY DEF WireInv
<1>2. PICK j, s0, k, h : /\ j = W!Work(w0) /\ s0 = j.session
                         /\ k = [pc |-> "last", session |-> s0, queue |-> j.queue]
                         /\ h = IF j.resync THEN folded[s0] ELSE j.upto
  OBVIOUS
<1>3. PICK v : v = [views[w0][s0] EXCEPT !.current = j.current, !.held = h, !.gap = FALSE]
  OBVIOUS
<1>4. /\ W!Does(w0, k) /\ j.pc = "subscribed" /\ inbound' = inbound
      /\ UNCHANGED <<forward, outbound, sending, logged, folded, revision, queueChanged, connected>>
      /\ UNCHANGED outputLocks
  BY <1>2 DEF W!Subscribed
<1>5. BasingInv(w0, j) /\ s0 \in WireSessions
  BY <1>1, <1>2, <1>4 DEF WorkInv, BasingInv, Basing
<1>6. /\ sockets[w0].open => views' = [views EXCEPT ![w0][s0] = v]
      /\ views' = [views EXCEPT ![w0][s0] = v] \/ views' = views
  <2>1. CASE ~ sockets[w0].open
    BY <2>1 DEF W!Subscribed
  <2>2. CASE sockets[w0].open
    <3>1. views' = [views EXCEPT ![w0][s0].current = j.current, ![w0][s0].held = h, ![w0][s0].gap = FALSE]
      BY <1>2, <2>2 DEF W!Subscribed
    <3> QED BY <1>1, <1>3, <1>5, <3>1 DEF WireTypes
  <2> QED BY <2>1, <2>2
<1>7. DOMAIN v = ViewFields /\ v.current = j.current /\ v.held = h /\ v.gap = FALSE
  BY <1>1, <1>3, <1>5 DEF WireTypes, ViewFields
<1>8. k.pc = "last" /\ k.session = s0 /\ k.queue = j.queue
  BY <1>2
<1>9. KnownSession(k) /\ BasingInv(w0, k)'
  BY <1>2, <1>4, <1>5, <1>8 DEF KnownSession, BasingInv, Basing
<1>10. v.current => /\ w0 \in connected[s0] /\ ~ v.gap /\ v.held \in 0 .. logged[s0]
                    /\ \A m \in 1 .. logged[s0] : v.held < m => Owed(w0, s0, m)
  <2> SUFFICES ASSUME j.current
               PROVE  /\ w0 \in connected[s0] /\ h \in 0 .. logged[s0]
                      /\ \A m \in 1 .. logged[s0] : h < m => Owed(w0, s0, m)
    BY <1>7
  <2>1. /\ w0 \in connected[s0] /\ ~ j.resync /\ j.upto \in 0 .. logged[s0]
        /\ \A m \in 1 .. logged[s0] :
              j.upto < m => Carried(Frames(forward) \cup Frames(outbound), s0, m)
    BY <1>2, <1>4, <1>5 DEF BasingInv, Basing
  <2>2. \A m : Carried(Frames(forward) \cup Frames(outbound), s0, m) => Owed(w0, s0, m)
    BY MoreFrames DEF Owed
  <2> QED BY <1>2, <2>1, <2>2
<1>11. \A s : ~ AtLast(w0, s)
  BY <1>2, <1>4 DEF AtLast
<1>12. W!Work(w0).pc \notin {"asked", "cancelling"}
  BY <1>2, <1>4
<1>13. /\ DOMAIN outputLocks' = WireSessions
       /\ \A s \in WireSessions : outputLocks'[s] = outputLocks[s] \/ outputLocks[s] \in {W!Nobody, w0}
  BY <1>1, <1>4 DEF WireTypes
<1> QED BY <1>4, <1>5, <1>6, <1>7, <1>8, <1>9, <1>10, <1>11, <1>12, <1>13, ViewChanges

\* The end of a baseline: the queue that was read is the queue, or a frame with
\* what it is now is to come.
LEMMA BasedKeeps ==
    ASSUME WireInv, NEW w0 \in Sockets, W!Based(w0)
    PROVE  WireInv'
<1> USE DEF W!state, W!queues
<1>1. WireTypes /\ WorkInv(w0)
  BY DEF WireInv
<1>2. PICK j, s0, k : j = W!Work(w0) /\ s0 = j.session /\ k = W!NoWork
  OBVIOUS
<1>3. PICK v : v = [views[w0][s0] EXCEPT !.queue = j.queue]
  OBVIOUS
<1>4. /\ W!Does(w0, k) /\ j.pc \in Basing /\ (sockets[w0].open => j.pc = "last") /\ inbound' = inbound
      /\ UNCHANGED <<forward, outbound, sending, logged, folded, revision, queueChanged, connected>>
      /\ outputLocks' = [outputLocks EXCEPT ![s0] = IF @ = w0 THEN W!Nobody ELSE @]
  BY <1>2 DEF W!Based, Basing
<1>5. BasingInv(w0, j) /\ s0 \in WireSessions /\ outputLocks[s0] = w0 /\ ClientInv(w0, s0)
  BY <1>1, <1>2, <1>4 DEF WorkInv, BasingInv, WireInv
<1>6. /\ sockets[w0].open => views' = [views EXCEPT ![w0][s0] = v]
      /\ views' = [views EXCEPT ![w0][s0] = v] \/ views' = views
  <2>1. CASE ~ sockets[w0].open
    BY <2>1 DEF W!Based
  <2>2. CASE sockets[w0].open
    <3>1. views' = [views EXCEPT ![w0][s0].queue = j.queue]
      BY <1>2, <2>2 DEF W!Based
    <3> QED BY <1>3, <3>1
  <2> QED BY <2>1, <2>2
<1>7. /\ DOMAIN v = ViewFields /\ v.current = views[w0][s0].current /\ v.held = views[w0][s0].held
      /\ v.gap = views[w0][s0].gap /\ v.queue = j.queue
  BY <1>1, <1>3, <1>5 DEF WireTypes, ViewFields
<1>8. k.pc = "idle"
  BY <1>2 DEF W!NoWork
<1>9. KnownSession(k) /\ BasingInv(w0, k)'
  BY <1>8 DEF KnownSession, BasingInv, Basing
<1>10. \A s : AtLast(w0, s) => s = s0
  BY <1>2 DEF AtLast
<1>11. W!Work(w0).pc \notin {"asked", "cancelling"}
  BY <1>2, <1>4 DEF Basing
<1>12. /\ DOMAIN outputLocks' = WireSessions
       /\ \A s \in WireSessions : outputLocks'[s] = outputLocks[s] \/ outputLocks[s] \in {W!Nobody, w0}
  BY <1>1, <1>4, <1>5 DEF WireTypes
<1>13. CASE ~ sockets[w0].open
  <2>1. PICK u : u = [views[w0][s0] EXCEPT !.current = FALSE]
    OBVIOUS
  <2>2. DOMAIN u = ViewFields /\ ~ u.current
    BY <1>1, <1>5, <2>1 DEF WireTypes, ViewFields
  <2>3. views' = views
    BY <1>13 DEF W!Based
  <2> QED BY <1>4, <1>5, <1>8, <1>9, <1>10, <1>11, <1>12, <1>13, <2>2, <2>3, ViewChanges
<1>14. CASE sockets[w0].open
  <2>1. v.current => /\ w0 \in connected[s0] /\ ~ v.gap /\ v.held \in 0 .. logged[s0]
                     /\ \A m \in 1 .. logged[s0] : v.held < m => Owed(w0, s0, m)
    BY <1>5, <1>7, <1>14 DEF ClientInv
  <2>2. queueChanged[s0] > 0 \/ HasQueue(Frames(outbound), s0) \/ j.queue = revision[s0]
    BY <1>2, <1>4, <1>5, <1>14 DEF BasingInv
  <2>3. OwedQueue(w0, s0) \/ v.queue = revision[s0]
    BY <1>7, <2>2, MoreFrames DEF OwedQueue
  <2> QED BY <1>4, <1>5, <1>6, <1>7, <1>8, <1>9, <1>10, <1>11, <1>12, <1>14, <2>1, <2>3, ViewChanges
<1> QED BY <1>13, <1>14

\* An answer holds the queue as it is now.
LEMMA ReplyKeeps ==
    ASSUME WireInv, NEW w0 \in Sockets, W!Reply(w0)
    PROVE  WireInv'
<1> USE DEF W!state, W!queues
<1>1. WireTypes /\ WorkInv(w0)
  BY DEF WireInv
<1>2. PICK j, s0, k : j = W!Work(w0) /\ s0 = j.session /\ k = W!NoWork
  OBVIOUS
<1>3. PICK v : v = [views[w0][s0] EXCEPT !.queue = revision[s0]]
  OBVIOUS
<1>4. /\ W!Does(w0, k) /\ j.pc = "admitted" /\ inbound' = inbound
      /\ UNCHANGED <<forward, outbound, sending, logged, folded, revision, queueChanged, connected>>
      /\ UNCHANGED outputLocks
  BY <1>2 DEF W!Reply
<1>5. s0 \in WireSessions
  BY <1>1, <1>2, <1>4 DEF WorkInv, KnownSession
<1>6. /\ sockets[w0].open => views' = [views EXCEPT ![w0][s0] = v]
      /\ ~ sockets[w0].open => views' = views
      /\ views' = [views EXCEPT ![w0][s0] = v] \/ views' = views
  <2>1. CASE ~ sockets[w0].open
    BY <2>1 DEF W!Reply
  <2>2. CASE sockets[w0].open
    <3>1. views' = [views EXCEPT ![w0][s0].queue = revision[s0]]
      BY <1>2, <2>2 DEF W!Reply
    <3> QED BY <1>3, <2>2, <3>1
  <2> QED BY <2>1, <2>2
<1>7. /\ DOMAIN v = ViewFields /\ v.current = views[w0][s0].current /\ v.held = views[w0][s0].held
      /\ v.gap = views[w0][s0].gap /\ v.queue = revision[s0]
  BY <1>1, <1>3, <1>5 DEF WireTypes, ViewFields
<1>8. k.pc = "idle"
  BY <1>2 DEF W!NoWork
<1>9. KnownSession(k) /\ BasingInv(w0, k)'
  BY <1>8 DEF KnownSession, BasingInv, Basing
<1>10. \A s : ~ AtLast(w0, s)
  BY <1>2, <1>4 DEF AtLast
<1>11. W!Work(w0).pc \notin {"asked", "cancelling"}
  BY <1>2, <1>4
<1>12. /\ DOMAIN outputLocks' = WireSessions
       /\ \A s \in WireSessions : outputLocks'[s] = outputLocks[s] \/ outputLocks[s] \in {W!Nobody, w0}
  BY <1>1, <1>4 DEF WireTypes
<1>13. CASE ~ sockets[w0].open
  <2>1. PICK u : u = [views[w0][s0] EXCEPT !.current = FALSE]
    OBVIOUS
  <2>2. DOMAIN u = ViewFields /\ ~ u.current
    BY <1>1, <1>5, <2>1 DEF WireTypes, ViewFields
  <2> QED BY <1>4, <1>5, <1>6, <1>8, <1>9, <1>10, <1>11, <1>12, <1>13, <2>2, ViewChanges
<1>14. CASE sockets[w0].open
  <2>1. ClientInv(w0, s0)
    BY <1>5 DEF WireInv
  <2>2. v.current => /\ w0 \in connected[s0] /\ ~ v.gap /\ v.held \in 0 .. logged[s0]
                     /\ \A m \in 1 .. logged[s0] : v.held < m => Owed(w0, s0, m)
    BY <1>7, <1>14, <2>1 DEF ClientInv
  <2> QED BY <1>4, <1>5, <1>6, <1>7, <1>8, <1>9, <1>10, <1>11, <1>12, <1>14, <2>2, ViewChanges
<1> QED BY <1>13, <1>14

\* A socket that does nothing, whatever becomes of it.
LEMMA IdleKeeps ==
    ASSUME WireInv, NEW w0 \in Sockets, W!Work(w0).pc \notin Basing \cup {"attach", "admitted"},
           UNCHANGED <<forward, outbound, sending, logged, revision, queueChanged, outputLocks, inbound>>,
           WireTypes',
           \A w \in Sockets : w # w0 => sockets'[w] = sockets[w] /\ views'[w] = views[w],
           \A w \in Sockets, s \in WireSessions : w # w0 /\ w \in connected[s] => w \in connected'[s],
           sockets'[w0].work = sockets[w0].work,
           \A s \in WireSessions : ClientInv(w0, s)'
    PROVE  WireInv'
<1>1. WireTypes
  BY DEF WireInv
<1>2. \A w \in Sockets : W!Work(w)' = W!Work(w)
  BY DEF W!Work
<1>3. InboundInv'
  BY <1>2 DEF WireInv, InboundInv
<1>4. SendingInv'
  BY DEF WireInv, SendingInv
<1>5. WorkInv(w0)'
  <2>1. PICK k : k = W!Work(w0) /\ W!Work(w0)' = k
    BY <1>2
  <2>2. KnownSession(k) /\ BasingInv(w0, k)'
    BY <2>1 DEF KnownSession, BasingInv, Basing
  <2> QED BY <2>1, <2>2 DEF WorkInv, KnownSession
<1> QED BY <1>1, <1>3, <1>4, <1>5, SameInboxes, SocketActs

\* A client that is gone, or has nothing yet.
LEMMA NothingToKeep ==
    ASSUME NEW w, NEW s, ~ sockets'[w].open \/ ~ views'[w][s].current
    PROVE  ClientInv(w, s)'
BY DEF ClientInv

LEMMA DisconnectKeeps ==
    ASSUME WireInv, NEW w0 \in Sockets, W!Disconnect(w0)
    PROVE  WireInv'
<1> USE DEF W!state, W!queues
<1>1. WireTypes
  BY DEF WireInv
<1>2. /\ sockets' = [sockets EXCEPT ![w0].open = FALSE]
      /\ UNCHANGED <<logged, folded, revision, queueChanged, forward, outbound, sending, outputLocks, connected, inbound, views>>
  BY DEF W!Disconnect
<1>3. /\ DOMAIN sockets' = Sockets /\ \A w \in Sockets : DOMAIN sockets'[w] = {"open", "known", "work"}
      /\ \A w \in Sockets : w # w0 => sockets'[w] = sockets[w]
      /\ sockets'[w0].work = sockets[w0].work /\ ~ sockets'[w0].open
  BY <1>1, <1>2, SocketSet
<1>4. WireTypes'
  BY <1>1, <1>2, <1>3 DEF WireTypes
<1>5. \A w \in Sockets : W!Work(w)' = W!Work(w)
  BY <1>3 DEF W!Work
<1>6. InboundInv' /\ SendingInv'
  BY <1>2, <1>5 DEF WireInv, InboundInv, SendingInv
<1>7. WorkInv(w0)'
  <2>1. PICK k : k = W!Work(w0) /\ W!Work(w0)' = k
    BY <1>5
  <2>2. KnownSession(k) /\ BasingInv(w0, k)
    BY <2>1 DEF WireInv, WorkInv
  <2>3. BasingInv(w0, k)'
    BY <1>2, <2>2 DEF BasingInv
  <2> QED BY <2>1, <2>2, <2>3 DEF WorkInv, KnownSession
<1>8. \A s \in WireSessions : ClientInv(w0, s)'
  BY <1>3, NothingToKeep
<1> QED BY <1>1, <1>2, <1>3, <1>4, <1>6, <1>7, <1>8, SameInboxes, SocketActs

LEMMA ConnectKeeps ==
    ASSUME WireInv, NEW w0 \in Sockets, W!Connect(w0)
    PROVE  WireInv'
<1> USE DEF W!state, W!queues
<1>1. WireTypes
  BY DEF WireInv
<1>2. /\ sockets' = [sockets EXCEPT ![w0].open = TRUE, ![w0].known = TRUE]
      /\ UNCHANGED <<logged, folded, revision, queueChanged, forward, outbound, sending, outputLocks, connected, inbound>>
  BY DEF W!Connect
<1>3. PICK u, x : /\ u = [s \in WireSessions |-> [views[w0][s] EXCEPT !.current = FALSE]]
                  /\ x = [sockets[w0] EXCEPT !.open = TRUE, !.known = TRUE]
  OBVIOUS
<1>4. views' = [views EXCEPT ![w0] = u] /\ sockets' = [sockets EXCEPT ![w0] = x]
  <2>1. views' = [views EXCEPT ![w0] = u]
    BY <1>1, <1>3 DEF W!Connect, WireTypes
  <2>2. sockets' = [sockets EXCEPT ![w0] = x]
    BY <1>1, <1>2, <1>3 DEF WireTypes
  <2> QED BY <2>1, <2>2
<1>5. /\ DOMAIN x = {"open", "known", "work"} /\ x.work = sockets[w0].work
      /\ DOMAIN u = WireSessions
  BY <1>1, <1>3 DEF WireTypes
<1>6. \A s \in WireSessions : DOMAIN u[s] = ViewFields /\ ~ u[s].current
  <2> SUFFICES ASSUME NEW s \in WireSessions PROVE DOMAIN u[s] = ViewFields /\ ~ u[s].current
    OBVIOUS
  <2>1. PICK v : v = [views[w0][s] EXCEPT !.current = FALSE]
    OBVIOUS
  <2>2. u[s] = v
    BY <1>3, <2>1
  <2>3. DOMAIN v = ViewFields /\ ~ v.current
    BY <1>1, <2>1 DEF WireTypes, ViewFields
  <2> QED BY <2>2, <2>3
<1>7. /\ DOMAIN sockets' = Sockets /\ sockets'[w0] = x /\ \A w \in Sockets : w # w0 => sockets'[w] = sockets[w]
      /\ DOMAIN views' = Sockets /\ views'[w0] = u /\ \A w \in Sockets : w # w0 => views'[w] = views[w]
  BY <1>1, <1>4 DEF WireTypes
<1>8. WireTypes'
  <2>1. ASSUME NEW w \in Sockets
        PROVE  /\ DOMAIN sockets'[w] = {"open", "known", "work"} /\ DOMAIN views'[w] = WireSessions
               /\ \A s \in WireSessions : DOMAIN views'[w][s] = ViewFields
    <3>1. CASE w = w0
      BY <1>5, <1>6, <1>7, <3>1
    <3>2. CASE w # w0
      BY <1>1, <1>7, <3>2 DEF WireTypes
    <3> QED BY <3>1, <3>2
  <2> QED BY <1>1, <1>2, <1>7, <2>1 DEF WireTypes
<1>9. \A w \in Sockets : W!Work(w)' = W!Work(w)
  BY <1>5, <1>7 DEF W!Work
<1>10. InboundInv' /\ SendingInv'
  BY <1>2, <1>9 DEF WireInv, InboundInv, SendingInv
<1>11. WorkInv(w0)'
  <2>1. PICK k : k = W!Work(w0) /\ W!Work(w0)' = k
    BY <1>9
  <2>2. KnownSession(k) /\ BasingInv(w0, k)
    BY <2>1 DEF WireInv, WorkInv
  <2>3. BasingInv(w0, k)'
    BY <1>2, <2>2 DEF BasingInv
  <2> QED BY <2>1, <2>2, <2>3 DEF WorkInv, KnownSession
<1>12. \A s \in WireSessions : ClientInv(w0, s)'
  BY <1>6, <1>7, NothingToKeep
<1> QED BY <1>1, <1>2, <1>7, <1>8, <1>10, <1>11, <1>12, SameInboxes, SocketActs

LEMMA DetachAllKeeps ==
    ASSUME WireInv, NEW w0 \in Sockets, W!DetachAll(w0)
    PROVE  WireInv'
<1> USE DEF W!state, W!queues
<1>1. WireTypes
  BY DEF WireInv
<1>2. /\ ~ sockets[w0].open /\ W!Work(w0) = W!NoWork /\ sockets' = [sockets EXCEPT ![w0].known = FALSE]
      /\ connected' = [s \in WireSessions |-> connected[s] \ {w0}]
      /\ UNCHANGED <<logged, folded, revision, queueChanged, forward, outbound, sending, outputLocks, inbound, views>>
  BY DEF W!DetachAll
<1>3. PICK x : x = [sockets[w0] EXCEPT !.known = FALSE]
  OBVIOUS
<1>4. DOMAIN x = {"open", "known", "work"} /\ x.work = sockets[w0].work /\ ~ x.open
  BY <1>1, <1>2, <1>3 DEF WireTypes
<1>5. /\ DOMAIN sockets' = Sockets /\ sockets'[w0] = x /\ \A w \in Sockets : w # w0 => sockets'[w] = sockets[w]
  BY <1>1, <1>2, <1>3 DEF WireTypes
<1>6. WireTypes'
  BY <1>1, <1>2, <1>4, <1>5 DEF WireTypes
<1>7. W!Work(w0).pc \notin Basing \cup {"attach", "admitted"}
  BY <1>2 DEF W!NoWork, Basing
<1>8. \A s \in WireSessions : ClientInv(w0, s)'
  BY <1>4, <1>5, NothingToKeep
<1>9. \A w \in Sockets, s \in WireSessions : w # w0 /\ w \in connected[s] => w \in connected'[s]
  BY <1>2
<1> QED BY <1>2, <1>4, <1>5, <1>6, <1>7, <1>8, <1>9, IdleKeeps

LEMMA DetachKeeps ==
    ASSUME WireInv, NEW w0 \in Sockets, NEW s0 \in WireSessions, W!Detach(w0, s0)
    PROVE  WireInv'
<1> USE DEF W!state, W!queues
<1>1. WireTypes
  BY DEF WireInv
<1>2. /\ W!Work(w0) = W!NoWork /\ connected' = [connected EXCEPT ![s0] = @ \ {w0}]
      /\ UNCHANGED <<logged, folded, revision, queueChanged, forward, outbound, sending, outputLocks, sockets, inbound>>
  BY DEF W!Detach, W!Free
<1>3. PICK v : v = [views[w0][s0] EXCEPT !.current = FALSE]
  OBVIOUS
<1>4. DOMAIN v = ViewFields /\ ~ v.current
  BY <1>1, <1>3 DEF WireTypes, ViewFields
<1>5. views' = [views EXCEPT ![w0][s0] = v]
  <2>1. views' = [views EXCEPT ![w0][s0].current = FALSE]
    BY DEF W!Detach
  <2> QED BY <1>3, <2>1
<1>6. /\ DOMAIN views' = Sockets /\ \A w \in Sockets : DOMAIN views'[w] = WireSessions
      /\ \A w \in Sockets : w # w0 => views'[w] = views[w]
      /\ views'[w0][s0] = v /\ \A s \in WireSessions : s # s0 => views'[w0][s] = views[w0][s]
  BY <1>1, <1>5, ViewSet
<1>7. ASSUME NEW w \in Sockets, NEW s \in WireSessions PROVE DOMAIN views'[w][s] = ViewFields
  <2>1. DOMAIN views[w][s] = ViewFields
    BY <1>1 DEF WireTypes
  <2>2. CASE w = w0 /\ s = s0
    BY <1>4, <1>6, <2>2
  <2>3. CASE w # w0 \/ s # s0
    BY <1>6, <2>1, <2>3
  <2> QED BY <2>2, <2>3
<1>8. /\ DOMAIN connected' = WireSessions
      /\ \A s \in WireSessions : connected'[s] \subseteq Sockets /\ (s # s0 => connected'[s] = connected[s])
      /\ \A w \in Sockets, s \in WireSessions : w # w0 /\ w \in connected[s] => w \in connected'[s]
  BY <1>1, <1>2 DEF WireTypes
<1>9. WireTypes'
  BY <1>1, <1>2, <1>6, <1>7, <1>8 DEF WireTypes
<1>10. W!Work(w0).pc \notin Basing \cup {"attach", "admitted"}
  BY <1>2 DEF W!NoWork, Basing
<1>11. ASSUME NEW s \in WireSessions PROVE ClientInv(w0, s)'
  <2>1. CASE s = s0
    BY <1>4, <1>6, <2>1, NothingToKeep
  <2>2. CASE s # s0
    <3>1. ~ AtLast(w0, s)
      BY <1>10 DEF AtLast, Basing
    <3> QED BY <1>2, <1>6, <1>8, <2>2, <3>1, OwnViewKept
  <2> QED BY <2>1, <2>2
<1> QED BY <1>2, <1>6, <1>8, <1>9, <1>10, <1>11, IdleKeeps

\* Every step keeps the invariant.
LEMMA WireStep == ASSUME WireInv, [W!Next]_(W!vars) PROVE WireInv'
<1>1. CASE UNCHANGED W!vars
  <2>1. UNCHANGED <<logged, folded, revision, queueChanged, forward, outbound, sending, outputLocks,
                    connected, sockets, inbound, views>>
    BY <1>1 DEF W!vars, W!state, W!queues
  <2>2. W!Nobody \notin Sockets
    BY WireAssumption
  <2>3. WireTypes' /\ InboundInv' /\ SendingInv'
    BY <2>1 DEF WireInv, WireTypes, InboundInv, SendingInv, W!Work
  <2>4. WireTypes
    BY DEF WireInv
  <2> QED BY <2>1, <2>2, <2>3, <2>4, SameInboxes, SocketActs
<1>2. CASE W!Forward \/ W!Dispatch \/ W!Sent \/ W!Consume
  BY <1>2, ForwardKeeps, DispatchKeeps, SentKeeps, ConsumeKeeps
<1>3. ASSUME NEW s \in WireSessions, W!Log(s) \/ W!Fold(s) \/ W!Claim(s) \/ W!PublishQueue(s)
      PROVE  WireInv'
  BY <1>3, LogKeeps, ClaimKeeps, PublishKeeps
<1>4. ASSUME NEW w \in Sockets,
             \/ W!SendTo(w) \/ W!Connect(w) \/ W!Disconnect(w) \/ W!DetachAll(w)
             \/ W!AttachLocked(w) \/ W!Baseline(w) \/ W!BaselineFails(w) \/ W!BaselineQueue(w)
             \/ W!Subscribed(w) \/ W!Based(w) \/ W!Reply(w)
      PROVE  WireInv'
  BY <1>4, SendToKeeps, ConnectKeeps, DisconnectKeeps, DetachAllKeeps, AttachLockedKeeps, BaselineKeeps,
     BaselineFailsKeeps, BaselineQueueKeeps, SubscribedKeeps, BasedKeeps, ReplyKeeps
<1>5. ASSUME NEW w \in Sockets, NEW s \in WireSessions,
             W!Attach(w, s) \/ W!Detach(w, s) \/ W!Prompt(w, s) \/ W!Cancel(w, s) \/ W!Control(w, s)
      PROVE  WireInv'
  BY <1>5, AttachKeeps, DetachKeeps, PromptKeeps, ControlKeeps
<1> QED BY <1>1, <1>2, <1>3, <1>4, <1>5 DEF W!Next

LEMMA WireBegins == W!Init => WireInv
<1> SUFFICES ASSUME W!Init PROVE WireInv
  OBVIOUS
<1>1. \A w \in Sockets : sockets[w] = [open |-> FALSE, known |-> FALSE, work |-> W!NoWork]
  BY DEF W!Init
<1>2. \A w \in Sockets : W!Work(w).pc = "idle" /\ ~ sockets[w].open /\ DOMAIN sockets[w] = {"open", "known", "work"}
  BY <1>1 DEF W!Work, W!NoWork
<1>3. Frames(forward) = {} /\ Frames(outbound) = {} /\ Flying = {}
  BY DEF W!Init, Frames, Flying
<1>4. WireTypes
  <2>1. \A w \in Sockets, s \in WireSessions : views[w][s] = W!NewView
    BY DEF W!Init
  <2>2. DOMAIN W!NewView = ViewFields
    BY DEF W!NewView, ViewFields
  <2> QED BY <1>2, <1>3, <2>1, <2>2 DEF W!Init, WireTypes
<1>5. InboundInv /\ SendingInv
  BY DEF W!Init, InboundInv, SendingInv
<1>6. \A s \in WireSessions : PipeInv(s) /\ QueueInv(s)
  BY <1>3 DEF W!Init, PipeInv, QueueInv, InOrder, Below, NumbersUpTo, Newest
<1>7. \A w \in Sockets : WorkInv(w)
  BY <1>2 DEF WorkInv, KnownSession, BasingInv, Basing
<1>8. \A w \in Sockets, s \in WireSessions : ClientInv(w, s)
  BY <1>2 DEF ClientInv
<1> QED BY <1>4, <1>5, <1>6, <1>7, <1>8 DEF WireInv

\* When nothing is under way, nothing is owed.
LEMMA WireHolds == WireInv => W!NothingIsMissed
<1> SUFFICES ASSUME WireInv, NEW w \in Sockets, NEW s \in WireSessions,
                    sockets[w].open, views[w][s].current
             PROVE  /\ ~ views[w][s].gap
                    /\ W!Delivered(s) /\ W!Work(w) = W!NoWork =>
                          views[w][s].held = logged[s] /\ views[w][s].queue = revision[s]
  BY DEF W!NothingIsMissed
<1>1. ClientInv(w, s) /\ WireTypes
  BY DEF WireInv
<1>2. /\ ~ views[w][s].gap /\ views[w][s].held \in 0 .. logged[s] /\ logged[s] \in Nat
      /\ \A m \in 1 .. logged[s] : views[w][s].held < m => Owed(w, s, m)
      /\ AtLast(w, s) \/ OwedQueue(w, s) \/ views[w][s].queue = revision[s]
  BY <1>1, FramesAre DEF ClientInv
<1>3. ASSUME W!Delivered(s), W!Work(w) = W!NoWork
      PROVE  views[w][s].held = logged[s] /\ views[w][s].queue = revision[s]
  <2>1. FlyingTo(w) = {} /\ queueChanged[s] = 0
    BY <1>3 DEF W!Delivered, FlyingTo
  <2>2. \A f \in Frames(forward) \cup Frames(outbound) : ~ EventOf(f, s) /\ ~ QueueOf(f, s)
    BY <1>3 DEF W!Delivered, Frames, EventOf, QueueOf
  <2>3. ~ OwedQueue(w, s) /\ \A m : ~ Owed(w, s, m)
    BY <2>1, <2>2 DEF OwedQueue, HasQueue, Owed, Carried
  <2>4. ~ AtLast(w, s)
    BY <1>3 DEF AtLast, W!NoWork
  <2>5. ~ (views[w][s].held < logged[s])
    BY <1>2, <2>3
  <2> QED BY <1>2, <2>3, <2>4, <2>5
<1> QED BY <1>2, <1>3
=============================================================================
