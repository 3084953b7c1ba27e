------------------------ MODULE ConfigWatcherProofs -------------------------
(***************************************************************************)
(* Reloading leaves no watcher behind and keeps the installed watcher and  *)
(* the configuration sent last together, for every number of watchers,     *)
(* upstreams and writes, whatever the writers do.                          *)
(***************************************************************************)
EXTENDS ConfigWatcher, TLAPS

\* The states of a handler that has a watcher of its own to install.
Building == {"watch_files", "lock", "send", "install"}

\* Watchers are created in order, and a thread runs from then on.
Created ==
    /\ created \in 0..MaxWatcher
    /\ \A w \in Watcher : pc[w] = "none" <=> w > created
    /\ main = "watch" => created = 0
    /\ main = "install" => created >= 1

\* A watcher a handler, or inner, refers to exists, and a handler has none
\* before it builds one or after it has returned.  Nobody else refers to the
\* watcher a handler builds.
Referred ==
    /\ inner \in 0..created
    /\ \A w \in Watcher :
        /\ child[w] \in 0..created
        /\ child[w] # NoId <=> pc[w] \in Building
        /\ child[w] # 1
        /\ child[w] # NoId => child[w] # inner
        /\ \A x \in Watcher : child[w] # NoId /\ child[w] = child[x] => w = x

\* The mutex covers the send and the installation.
Locked ==
    \A w \in Watcher : lock = w <=> pc[w] \in {"send", "install"}

\* Files are watched before the lock is taken, and what is to be installed goes
\* with what was sent.
Complete(v, cfg) ==
    /\ pc[v] # "dead" => FilesToWatch(cfg) \subseteq DOMAIN base[v] \cup missed[v]
    /\ DOMAIN base[v] \subseteq {Config} \cup FilesToWatch(cfg)

Consistent ==
    /\ \A w \in Watcher :
        /\ pc[w] = "watch_files" => DOMAIN base[child[w]] \subseteq {Config}
        /\ pc[w] \in {"lock", "send", "install"} => Complete(child[w], good[w])
        /\ pc[w] = "install" /\ open => last = good[w]
    /\ open /\ lock = NoId /\ inner \notin {NoId, 1} => Complete(inner, last)

Shapes ==
    /\ pc \in [Watcher -> PcState] /\ stop \in [Watcher -> BOOLEAN]
    /\ child \in [Watcher -> Nat] /\ lock \in Watcher \cup {NoId}
    /\ DOMAIN base = Watcher /\ DOMAIN good = Watcher
    /\ base = [w \in Watcher |-> base[w]] /\ good = [w \in Watcher |-> good[w]]
    /\ missed \in [Watcher -> SUBSET Path]

WatchInv == Shapes /\ Created /\ Referred /\ Locked /\ Consistent /\ NoOrphanWatcher

\* Nothing is watched at first.
LEMMA WatchInit == Init => WatchInv
<1> SUFFICES ASSUME Init PROVE WatchInv
  BY Zenon
<1> USE BoundAssumption DEF Init, Watcher, NoId
<1>1. Shapes
  BY Zenon DEF Shapes, PcState
<1>2. Created /\ Referred /\ Locked /\ NoOrphanWatcher
  BY DEF Created, Referred, Locked, NoOrphanWatcher, Building
<1>3. Consistent
  BY Zenon DEF Consistent
<1> QED
  BY <1>1, <1>2, <1>3, Zenon DEF WatchInv

\* Writers, the event loop and a stutter leave the watchers alone.
LEMMA WatchOutside ==
    ASSUME WatchInv, UNCHANGED <<handlerVars, innerVars, last>>, open' => open
    PROVE  WatchInv'
<1> USE DEF handlerVars, innerVars, WatchInv
<1>1. Shapes' /\ Created' /\ Referred' /\ Locked' /\ NoOrphanWatcher'
  BY Zenon DEF Shapes, Created, Referred, Locked, NoOrphanWatcher
<1>2. Consistent'
  BY Zenon DEF Consistent, Complete
<1> QED
  BY <1>1, <1>2, Zenon

\* A step of a handler before it builds a watcher, or of a scan.
LEMMA WatchBefore ==
    ASSUME WatchInv, NEW w \in Watcher, NEW s \in PcState \ (Building \cup {"none"}),
           pc[w] \notin Building \cup {"none", "dead"},
           pc' = [pc EXCEPT ![w] = s],
           base' = [v \in Watcher |-> base'[v]], DOMAIN base' = Watcher,
           \A v \in Watcher : DOMAIN base'[v] = DOMAIN base[v],
           good' = [v \in Watcher |-> good'[v]], DOMAIN good' = Watcher,
           \A v \in Watcher : v # w => good'[v] = good[v],
           UNCHANGED <<missed, stop, child, innerVars, chanVars>>
    PROVE  WatchInv'
<1> USE DEF WatchInv, innerVars, chanVars
<1>1. \A v \in Watcher : pc'[v] = IF v = w THEN s ELSE pc[v]
  BY Zenon DEF Shapes
<1>2. Shapes'
  BY Zenon DEF Shapes
<1>3. Created'
  BY <1>1, Zenon DEF Created, Building
<1>4. Referred' /\ Locked'
  BY <1>1 DEF Referred, Locked, Building
<1>5. NoOrphanWatcher'
  BY <1>1, Zenon DEF NoOrphanWatcher
<1>6. Consistent'
  <2>1. ASSUME NEW v \in 0..created, NEW cfg, v # 0, Complete(v, cfg) PROVE Complete(v, cfg)'
    BY <1>1, <2>1, BoundAssumption DEF Complete, Watcher, Created
  <2>2. ASSUME NEW v \in Watcher, pc'[v] \in Building
        PROVE  v # w /\ pc'[v] = pc[v] /\ child[v] \in 0..created /\ child[v] # 0 /\ child[v] \in Watcher
    BY <1>1, <2>2, BoundAssumption DEF Building, Referred, NoId, Created, Watcher
  <2>3. ASSUME NEW v \in Watcher, pc'[v] \in {"lock", "send", "install"}
        PROVE  Complete(child[v], good[v])'
    <3>1. Complete(child[v], good[v]) /\ good'[v] = good[v]
      BY <2>2, <2>3, Zenon DEF Consistent, Building
    <3> QED
      BY <2>1, <2>2, <2>3, <3>1, Zenon DEF Building
  <2>4. ASSUME NEW v \in Watcher, pc'[v] = "install", open PROVE last = good'[v]
    BY <2>2, <2>4, Zenon DEF Consistent, Building
  <2>5. ASSUME NEW v \in Watcher, pc'[v] = "watch_files" PROVE DOMAIN base'[child[v]] \subseteq {Config}
    BY <2>2, <2>5, Zenon DEF Consistent, Building
  <2>6. open /\ lock = NoId /\ inner \notin {NoId, 1} => Complete(inner, last)'
    BY <2>1 DEF Consistent, Referred, NoId
  <2> QED
    BY <2>3, <2>4, <2>5, <2>6, Zenon DEF Consistent
<1> QED
  BY <1>2, <1>3, <1>4, <1>5, <1>6, Zenon

\* new creates the first watcher.
LEMMA WatchNew == ASSUME WatchInv, NewWatch PROVE WatchInv'
<1> USE BoundAssumption DEF WatchInv, NewWatch, chanVars, NoId
<1>1. created = 0 /\ 1 \in Watcher /\ created' = 1 /\ inner = 0 /\ main' = "install"
  BY DEF Created, Referred, Watcher
<1>2. /\ \A v \in Watcher : pc'[v] = IF v = 1 THEN "idle" ELSE pc[v]
      /\ \A v \in Watcher : v # 1 => pc[v] = "none"
  BY <1>1 DEF Shapes, Created, Watcher
<1>3. Shapes'
  BY Zenon DEF Shapes, PcState
<1>4. Created' /\ Referred' /\ Locked'
  BY <1>1, <1>2 DEF Created, Referred, Locked, Building, Watcher
<1>5. NoOrphanWatcher'
  BY <1>1, <1>2, Zenon DEF NoOrphanWatcher
<1>6. Consistent'
  BY <1>1, <1>2 DEF Consistent
<1> QED
  BY <1>3, <1>4, <1>5, <1>6, Zenon

\* new installs it, after or before a handler of the watcher itself has.
LEMMA WatchNewInstall == ASSUME WatchInv, NewInstall PROVE WatchInv'
<1> USE BoundAssumption DEF WatchInv, NewInstall, chanVars, NoId
<1>1. 1 \in Watcher /\ created >= 1 /\ inner' = 1 /\ main' = "done"
  BY DEF Created, Watcher
<1>2. stop' \in [Watcher -> BOOLEAN] /\ \A v \in Watcher : stop'[v] <=> stop[v] \/ (v = inner /\ v # 1)
  BY Zenon DEF StopOld, Shapes
<1>3. Shapes'
  BY <1>2, Zenon DEF Shapes
<1>4. Created' /\ Referred' /\ Locked'
  BY <1>1 DEF Created, Referred, Locked
<1>5. NoOrphanWatcher'
  BY <1>1, <1>2, Zenon DEF NoOrphanWatcher
<1>6. Consistent'
  BY <1>1, Zenon DEF Consistent, Complete
<1> QED
  BY <1>3, <1>4, <1>5, <1>6, Zenon

\* A handler creates the watcher it will install.
LEMMA WatchCreate == ASSUME WatchInv, NEW w \in Watcher, WatchConfig(w) PROVE WatchInv'
<1> USE BoundAssumption DEF WatchInv, chanVars, NoId
<1> DEFINE v == created + 1
<1>1. /\ pc[w] = "watch" /\ v \in Watcher /\ created' = v /\ pc[v] = "none" /\ v # w
      /\ UNCHANGED <<missed, left, stop, todo, good, cert, inner, lock, main, open, chan, last>>
  BY DEF WatchConfig, Created, Watcher
<1>2. /\ \A x \in Watcher : pc'[x] = IF x = v THEN "idle" ELSE IF x = w THEN "watch_files" ELSE pc[x]
      /\ pc' \in [Watcher -> PcState]
  BY <1>1, Zenon DEF WatchConfig, Shapes, PcState
<1>3. /\ \A x \in Watcher : child'[x] = IF x = w THEN v ELSE child[x]
      /\ child' \in [Watcher -> Nat]
  BY <1>1 DEF WatchConfig, Shapes, Watcher
<1>4. /\ \A x \in Watcher : x # v => base'[x] = base[x]
      /\ DOMAIN base'[v] \subseteq {Config}
  BY <1>1, Zenon DEF WatchConfig, Shapes, Baseline
<1>5. Shapes'
  <2>1. base' = [x \in Watcher |-> base'[x]] /\ DOMAIN base' = Watcher
    BY Zenon DEF WatchConfig, Shapes
  <2> QED
    BY <1>1, <1>2, <1>3, <2>1, Zenon DEF Shapes
<1>6. Created'
  BY <1>1, <1>2 DEF Created, Watcher
<1>7. Referred'
  <2>1. inner \in 0..created /\ inner' \in 0..created' /\ inner' # v /\ v # 0 /\ v \in 0..created'
    BY <1>1 DEF Referred, Created
  <2>2. v # 1
    BY <1>1 DEF Created, Watcher
  <2>3. ASSUME NEW x \in Watcher
        PROVE  child[x] \in 0..created' /\ child[x] # v /\ (child[x] # NoId <=> pc[x] \in Building)
    BY <1>1 DEF Referred, Created
  <2>4. ASSUME NEW x \in Watcher PROVE child'[x] \in 0..created' /\ child'[x] # 1
    BY <1>3, <2>1, <2>2, <2>3, Zenon DEF Referred
  <2>5. ASSUME NEW x \in Watcher PROVE child'[x] # NoId <=> pc'[x] \in Building
    BY <1>1, <1>2, <1>3, <2>1, <2>3, Zenon DEF Building
  <2>6. ASSUME NEW x \in Watcher, child'[x] # NoId PROVE child'[x] # inner'
    BY <1>1, <1>3, <2>1, <2>6, Zenon DEF Referred
  <2>7. ASSUME NEW x \in Watcher, NEW y \in Watcher, child'[x] # NoId, child'[x] = child'[y]
        PROVE  x = y
    BY <1>3, <2>3, <2>7, Zenon DEF Referred
  <2> QED
    BY <2>1, <2>4, <2>5, <2>6, <2>7, Zenon DEF Referred
<1>8. Locked'
  BY <1>1, <1>2, Zenon DEF Locked
<1>9. NoOrphanWatcher'
  BY <1>1, <1>2, <1>3 DEF NoOrphanWatcher, Referred, Building
<1>10. Consistent'
  <2>1. ASSUME NEW x \in 0..created, x # 0
        PROVE  x \in Watcher /\ x # v /\ base'[x] = base[x] /\ (pc'[x] = "dead" <=> pc[x] = "dead")
    BY <1>1, <1>2, <1>4, <2>1 DEF Created, Watcher
  <2>2. ASSUME NEW x \in Watcher, pc'[x] \in {"lock", "send", "install"}
        PROVE  pc[x] = pc'[x] /\ child'[x] = child[x] /\ child[x] \in 0..created /\ child[x] # 0
    BY <1>2, <1>3, <2>2, Zenon DEF Referred, Building
  <2>3. ASSUME NEW x \in Watcher, pc'[x] \in {"lock", "send", "install"}
        PROVE  Complete(child[x], good[x])'
    <3>1. Complete(child[x], good[x])
      BY <2>2, <2>3, Zenon DEF Consistent
    <3> QED
      BY <1>1, <2>1, <2>2, <2>3, <3>1 DEF Complete
  <2>4. open /\ lock = NoId /\ inner \notin {NoId, 1} => Complete(inner, last)'
    BY <1>1, <2>1, Zenon DEF Consistent, Complete, Referred
  <2>5. \A x \in Watcher : pc'[x] = "install" /\ open => last = good[x]
    BY <1>2, Zenon DEF Consistent
  <2>6. ASSUME NEW x \in Watcher, pc'[x] = "watch_files"
        PROVE  DOMAIN base'[child'[x]] \subseteq {Config}
    <3>1. CASE x = w
      BY <1>3, <1>4, <3>1, Zenon
    <3>2. CASE x # w
      <4>1. pc[x] = "watch_files" /\ child'[x] = child[x]
        BY <1>2, <1>3, <2>6, <3>2, Zenon
      <4>2. child[x] \in 0..created /\ child[x] # 0
        BY <4>1, Zenon DEF Referred, Building
      <4> QED
        BY <2>1, <4>1, <4>2, Zenon DEF Consistent
    <3> QED
      BY <3>1, <3>2, Zenon
  <2> QED
    BY <1>1, <2>3, <2>4, <2>5, <2>6, Zenon DEF Consistent
<1> QED
  BY <1>5, <1>6, <1>7, <1>8, <1>9, <1>10, Zenon

\* The files of a configuration are paths.
LEMMA FilesArePaths == \A cfg : FilesToWatch(cfg) \subseteq Path
BY Zenon DEF FilesToWatch, Path

\* A handler watches the files of what it has loaded, as far as they are there.
LEMMA WatchFileStep == ASSUME WatchInv, NEW w \in Watcher, WatchFiles(w) PROVE WatchInv'
<1> USE BoundAssumption DEF WatchInv, chanVars, innerVars, NoId
<1> DEFINE v == child[w]
           files == IF pc[v] = "dead" THEN {} ELSE FilesToWatch(good[w])
           seen == Baseline(files)
<1>1. /\ pc[w] = "watch_files" /\ v \in 1..created /\ v \in Watcher
      /\ UNCHANGED <<left, stop, todo, good, cert, child, inner, lock, created, main, open, chan, last>>
  BY DEF WatchFiles, Referred, Building, Created, Watcher
<1>2. /\ \A x \in Watcher : pc'[x] = IF x = w THEN "lock" ELSE pc[x]
      /\ pc' \in [Watcher -> PcState]
  BY Zenon DEF WatchFiles, Shapes, PcState
<1>3. DOMAIN seen \subseteq files /\ files \subseteq FilesToWatch(good[w]) /\ files \subseteq Path
  BY FilesArePaths, Zenon DEF Baseline
<1>4. base' = [base EXCEPT ![v] = [p \in DOMAIN base[v] \cup DOMAIN seen |->
                                     IF p \in DOMAIN base[v] THEN base[v][p] ELSE seen[p]]]
  BY Zenon DEF WatchFiles
<1>5. missed' = [missed EXCEPT ![v] = files \ DOMAIN seen]
  BY Zenon DEF WatchFiles
<1>6. pc[v] # "dead" => files = FilesToWatch(good[w])
  BY Zenon
<1> HIDE DEF seen, files, v
<1>7. /\ DOMAIN base'[v] = DOMAIN base[v] \cup DOMAIN seen
      /\ \A x \in Watcher : x # v => base'[x] = base[x]
      /\ base' = [x \in Watcher |-> base'[x]] /\ DOMAIN base' = Watcher
  <2>1. base'[v] = [p \in DOMAIN base[v] \cup DOMAIN seen |->
                      IF p \in DOMAIN base[v] THEN base[v][p] ELSE seen[p]]
    BY <1>1, <1>4, Zenon DEF Shapes
  <2>2. \A x \in Watcher : x # v => base'[x] = base[x]
    BY <1>4, Zenon DEF Shapes
  <2>3. base' = [x \in Watcher |-> base'[x]] /\ DOMAIN base' = Watcher
    <3> DEFINE added == [p \in DOMAIN base[v] \cup DOMAIN seen |->
                           IF p \in DOMAIN base[v] THEN base[v][p] ELSE seen[p]]
    <3>1. base' = [base EXCEPT ![v] = added]
      BY <1>4, Zenon
    <3> HIDE DEF added
    <3> QED
      BY <3>1, Zenon DEF Shapes
  <2> QED
    BY <2>1, <2>2, <2>3, Zenon
<1>8. /\ missed'[v] = files \ DOMAIN seen
      /\ \A x \in Watcher : x # v => missed'[x] = missed[x]
      /\ missed' \in [Watcher -> SUBSET Path]
  BY <1>1, <1>3, <1>5, Zenon DEF Shapes
<1>9. Shapes'
  BY <1>1, <1>2, <1>7, <1>8, Zenon DEF Shapes
<1>10. Created' /\ Locked' /\ NoOrphanWatcher'
  BY <1>1, <1>2, Zenon DEF Created, Locked, NoOrphanWatcher
<1>11. Referred'
  <2>1. \A x \in Watcher : pc'[x] \in Building <=> pc[x] \in Building
    BY <1>1, <1>2, Zenon DEF Building
  <2> QED
    BY <1>1, <2>1, Zenon DEF Referred
<1>12. Consistent'
  <2>1. ASSUME NEW x \in Watcher PROVE pc'[x] = "dead" <=> pc[x] = "dead"
    BY <1>1, <1>2, Zenon
  <2>2. ASSUME NEW x \in Watcher, x # w, pc[x] \in Building
        PROVE  child[x] \in Watcher /\ child[x] # v
    BY <1>1, <2>2 DEF Referred, Created, Watcher, v
  <2>3. ASSUME NEW x \in Watcher, pc'[x] \in {"lock", "send", "install"}
        PROVE  Complete(child[x], good[x])'
    <3>1. CASE x # w
      <4>1. pc[x] \in {"lock", "send", "install"} /\ child[x] \in Watcher /\ child[x] # v
        BY <1>2, <2>2, <2>3, <3>1, Zenon DEF Building
      <4>2. Complete(child[x], good[x])
        BY <4>1, Zenon DEF Consistent
      <4> QED
        BY <1>1, <1>7, <1>8, <2>1, <4>1, <4>2, Zenon DEF Complete
    <3>2. CASE x = w
      <4>1. DOMAIN base[v] \subseteq {Config}
        BY <1>1, Zenon DEF Consistent, v
      <4>2. DOMAIN base'[v] \subseteq {Config} \cup FilesToWatch(good[w])
        BY <1>3, <1>7, <4>1, Zenon
      <4>3. pc'[v] # "dead" => FilesToWatch(good[w]) \subseteq DOMAIN base'[v] \cup missed'[v]
        BY <1>1, <1>6, <1>7, <1>8, <2>1, Zenon
      <4> QED
        BY <1>1, <3>2, <4>2, <4>3, Zenon DEF Complete, v
    <3> QED
      BY <3>1, <3>2, Zenon
  <2>4. open /\ lock = NoId /\ inner \notin {NoId, 1} => Complete(inner, last)'
    <3>1. inner # NoId => inner \in Watcher /\ inner # v
      BY <1>1 DEF Referred, Created, Watcher, v
    <3> QED
      BY <1>1, <1>7, <1>8, <2>1, <3>1, Zenon DEF Consistent, Complete
  <2>5. \A x \in Watcher : pc'[x] = "install" /\ open => last = good[x]
    BY <1>2, Zenon DEF Consistent
  <2>6. ASSUME NEW x \in Watcher, pc'[x] = "watch_files"
        PROVE  DOMAIN base'[child[x]] \subseteq {Config}
    <3>1. x # w /\ pc[x] = "watch_files"
      BY <1>2, <2>6, Zenon
    <3>2. child[x] \in Watcher /\ child[x] # v
      BY <2>2, <3>1, Zenon DEF Building
    <3> QED
      BY <1>7, <3>1, <3>2, Zenon DEF Consistent
  <2> QED
    BY <1>1, <2>3, <2>4, <2>5, <2>6, Zenon DEF Consistent
<1> QED
  BY <1>9, <1>10, <1>11, <1>12, Zenon

\* A handler takes the mutex.
LEMMA WatchLock == ASSUME WatchInv, NEW w \in Watcher, Lock(w) PROVE WatchInv'
<1> USE BoundAssumption DEF WatchInv, Lock, chanVars, NoId
<1>1. \A x \in Watcher : pc'[x] = IF x = w THEN "send" ELSE pc[x]
  BY Zenon DEF Shapes
<1>2. lock' = w /\ w # 0 /\ \A x \in Watcher : x # 0
  BY DEF Watcher
<1>3. Shapes'
  BY Zenon DEF Shapes, PcState
<1>4. Created' /\ Referred' /\ Locked' /\ NoOrphanWatcher'
  BY <1>1, <1>2 DEF Created, Referred, Locked, Building, NoOrphanWatcher
<1>5. Consistent'
  BY <1>1, <1>2 DEF Consistent, Complete, Referred, Building, Created, Watcher
<1> QED
  BY <1>3, <1>4, <1>5, Zenon

\* The send is made under the mutex.
LEMMA WatchSend == ASSUME WatchInv, NEW w \in Watcher, Send(w) PROVE WatchInv'
<1> USE BoundAssumption DEF WatchInv, Send, innerVars, NoId
<1>1. \A x \in Watcher : pc'[x] = IF x = w THEN "install" ELSE pc[x]
  BY Zenon DEF Shapes
<1>2. lock = w /\ lock' = w /\ w # 0
  BY DEF Locked, Watcher
<1>3. Shapes'
  BY Zenon DEF Shapes, PcState
<1>4. Created' /\ Referred' /\ Locked' /\ NoOrphanWatcher'
  BY <1>1, <1>2 DEF Created, Referred, Locked, Building, NoOrphanWatcher
<1>5. \A x \in Watcher : x # w => pc[x] # "install"
  BY <1>2, Zenon DEF Locked
<1>6. Consistent'
  BY <1>1, <1>2, <1>5, SMTT(30) DEF Consistent, Complete, Referred, Building, Created, Watcher
<1> QED
  BY <1>3, <1>4, <1>6, Zenon

\* The watcher that was built replaces the one in inner, and the mutex is free.
LEMMA WatchInstall == ASSUME WatchInv, NEW w \in Watcher, Install(w) PROVE WatchInv'
<1> USE BoundAssumption DEF WatchInv, chanVars, NoId
<1>1. /\ pc[w] = "install" /\ lock = w /\ lock' = 0 /\ inner' = child[w]
      /\ child[w] \in 1..created /\ child[w] \in Watcher
      /\ UNCHANGED <<base, missed, left, todo, cert, created, main, open, chan, last>>
  BY DEF Install, Locked, Referred, Building, Created, Watcher
<1>2. \A x \in Watcher : pc'[x] = IF x = w THEN "idle" ELSE pc[x]
  BY Zenon DEF Install, Shapes
<1>3. \A x \in Watcher : child'[x] = IF x = w THEN 0 ELSE child[x]
  BY Zenon DEF Install, Shapes
<1>4. \A x \in Watcher : x # w => good'[x] = good[x]
  BY Zenon DEF Install, Shapes
<1>5. /\ stop' \in [Watcher -> BOOLEAN]
      /\ \A x \in Watcher : stop'[x] <=> stop[x] \/ (x = inner /\ x # child[w])
  BY Zenon DEF Install, StopOld, Shapes
<1>6. Shapes'
  BY <1>1, <1>5, Zenon DEF Install, Shapes, PcState
<1>7. Created' /\ Referred'
  BY <1>1, <1>2, <1>3 DEF Created, Referred, Building
<1>8. \A x \in Watcher : x # 0 /\ (x # w => pc[x] \notin {"send", "install"})
  BY <1>1 DEF Locked, Watcher
<1>9. Locked'
  BY <1>1, <1>2, <1>8, Zenon DEF Locked
<1>10. NoOrphanWatcher'
  <2> SUFFICES ASSUME NEW x \in Watcher, pc'[x] # "none", ~stop'[x]
               PROVE  \/ x = child[w]
                      \/ x = 1 /\ main = "install"
                      \/ \E y \in Watcher : child'[y] = x
    BY <1>1, Zenon DEF NoOrphanWatcher
  <2>1. pc[x] # "none" /\ ~stop[x] /\ (x # inner \/ x = child[w])
    BY <1>1, <1>2, <1>5, Zenon
  <2>2. ASSUME NEW y \in Watcher, child[y] = x, x # child[w] PROVE child'[y] = x
    BY <1>3, <2>2, Zenon
  <2> QED
    BY <2>1, <2>2, Zenon DEF NoOrphanWatcher
<1>11. Consistent'
  <2>1. ASSUME NEW x \in Watcher, pc'[x] \in {"lock", "send", "install"}
        PROVE  x # w /\ pc[x] = "lock" /\ Complete(child[x], good[x])'
    <3>1. x # w /\ pc[x] = pc'[x] /\ pc[x] = "lock"
      BY <1>2, <1>8, <2>1, Zenon
    <3>2. Complete(child[x], good[x]) /\ child[x] \in Watcher
      BY <3>1 DEF Consistent, Referred, Building, Created, Watcher
    <3> QED
      BY <1>1, <1>2, <1>3, <1>4, <3>1, <3>2, Zenon DEF Complete
  <2>2. Complete(child[w], good[w]) /\ (open => last = good[w])
    BY <1>1, Zenon DEF Consistent
  <2>3. open' => Complete(inner, last)'
    BY <1>1, <1>2, <2>2, Zenon DEF Complete
  <2>4. ASSUME NEW x \in Watcher, pc'[x] = "watch_files"
        PROVE  DOMAIN base'[child'[x]] \subseteq {Config}
    BY <1>1, <1>2, <1>3, <2>4, Zenon DEF Consistent
  <2> QED
    BY <1>1, <1>2, <2>1, <2>3, <2>4, Zenon DEF Consistent
<1> QED
  BY <1>6, <1>7, <1>9, <1>10, <1>11, Zenon

\* A handler reads the configuration, a certificate or a key.
LEMMA WatchLoads ==
    ASSUME WatchInv, NEW w \in Watcher,
           ParseConfig(w) \/ LoadKey(w) \/ \E u \in Tls : LoadCertificate(w, u)
    PROVE  WatchInv'
<1> DEFINE Loading == {"idle", "certificate", "key", "watch", "dead"}
<1>1. pc[w] \in {"open", "certificate", "key"} /\ UNCHANGED <<base, missed, stop, child, innerVars, chanVars>>
  BY Zenon DEF ParseConfig, LoadKey, LoadCertificate
<1>2. \A more, cfg : AfterLoad(more, cfg) \in Loading
  BY Zenon DEF AfterLoad
<1>3. \E s \in Loading : pc' = [pc EXCEPT ![w] = s]
  <2>1. ASSUME NEW u, Drop(w, u) PROVE \E s \in Loading : pc' = [pc EXCEPT ![w] = s]
    BY <1>2, <2>1, ZenonT(30) DEF Drop
  <2>2. CASE ParseConfig(w)
    BY <1>2, <2>2, SMTT(30) DEF ParseConfig
  <2>3. CASE LoadKey(w)
    BY <1>2, <2>1, <2>3, SMTT(30) DEF LoadKey
  <2>4. ASSUME NEW u \in Tls, LoadCertificate(w, u)
        PROVE  \E s \in Loading : pc' = [pc EXCEPT ![w] = s]
    BY <2>1, <2>4, Zenon DEF LoadCertificate
  <2> QED
    BY <2>2, <2>3, <2>4, Zenon
<1>4. PICK s \in Loading : pc' = [pc EXCEPT ![w] = s]
  BY <1>3, Zenon
<1>5. /\ good' = [v \in Watcher |-> good'[v]] /\ DOMAIN good' = Watcher
      /\ \A v \in Watcher : v # w => good'[v] = good[v]
  BY Zenon DEF ParseConfig, LoadKey, LoadCertificate, Drop, WatchInv, Shapes
<1>6. base' = [v \in Watcher |-> base'[v]] /\ DOMAIN base' = Watcher
  BY <1>1, Zenon DEF WatchInv, Shapes
<1>7. s \in PcState \ (Building \cup {"none"}) /\ pc[w] \notin Building \cup {"none", "dead"}
  BY <1>1, Zenon DEF PcState, Building
<1> QED
  BY <1>1, <1>4, <1>5, <1>6, <1>7, WatchBefore, Zenon

\* Every step keeps the invariant.
LEMMA WatchStep == WatchInv /\ [Next]_vars => WatchInv'
<1> SUFFICES ASSUME WatchInv, [Next]_vars PROVE WatchInv'
  BY SMTT(30)
<1>1. CASE Write \/ LoopRecv \/ LoopStop \/ UNCHANGED vars
  BY <1>1, WatchOutside, SMTT(30)
     DEF Write, WriteConfig, Lose, Rotate, RotateCert, RotateKey, Put, LoopRecv, LoopStop,
         vars, chanVars
<1>2. CASE NewStep
  BY <1>2, WatchNew, WatchNewInstall, Zenon DEF NewStep
<1>3. ASSUME NEW w \in Watcher, WatchConfig(w) \/ WatchFiles(w) \/ Lock(w) \/ Send(w) \/ Install(w)
      PROVE  WatchInv'
  BY <1>3, WatchCreate, WatchFileStep, WatchLock, WatchSend, WatchInstall, Zenon
<1>4. ASSUME NEW w \in Watcher, NEW p \in Path, NEW rest \in SUBSET Path, Detect(w, p, rest)
      PROVE  WatchInv'
  <2>1. /\ pc[w] = "idle" /\ p \in DOMAIN base[w]
        /\ base' = [base EXCEPT ![w] = [@ EXCEPT ![p] = disk[p]]]
        /\ UNCHANGED <<missed, stop, child, innerVars, chanVars, good>>
    BY <1>4, Zenon DEF Detect, Idle
  <2>2. PICK s \in {"idle", "open"} : pc' = [pc EXCEPT ![w] = s]
    BY <1>4, Zenon DEF Detect
  <2>3. /\ base' = [v \in Watcher |-> base'[v]] /\ DOMAIN base' = Watcher
        /\ \A v \in Watcher : DOMAIN base'[v] = DOMAIN base[v]
    BY <2>1, Zenon DEF WatchInv, Shapes
  <2>4. good' = [v \in Watcher |-> good'[v]] /\ DOMAIN good' = Watcher
    BY <2>1, Zenon DEF WatchInv, Shapes
  <2>5. s \in PcState \ (Building \cup {"none"}) /\ pc[w] \notin Building \cup {"none", "dead"}
    BY <2>1, <2>2, Zenon DEF PcState, Building
  <2> QED
    BY <2>1, <2>2, <2>3, <2>4, <2>5, WatchBefore, Zenon
<1>5. ASSUME NEW w \in Watcher, NEW u \in Tls,
             ParseConfig(w) \/ LoadKey(w) \/ LoadCertificate(w, u)
      PROVE  WatchInv'
  BY <1>5, WatchLoads, Zenon
<1>6. ASSUME NEW w \in Watcher, ParseConfig(w) \/ LoadKey(w) PROVE WatchInv'
  BY <1>6, WatchLoads, Zenon
<1> QED
  BY <1>1, <1>2, <1>3, <1>4, <1>5, <1>6, Zenon DEF Next, HandlerStep, Scan

\* Reloads cannot pile up polling threads.
THEOREM NoOrphans == Spec => []NoOrphanWatcher
<1>1. WatchInv => NoOrphanWatcher
  BY Zenon DEF WatchInv
<1> QED
  BY <1>1, WatchInit, WatchStep, PTL DEF Spec

\* The watcher a reload installed watches the files of what was sent last, but
\* for those that were missing, and no others.
THEOREM MatchesConfig == Spec => []WatcherMatchesConfig
<1>1. WatchInv => WatcherMatchesConfig
  BY Zenon DEF WatchInv, Consistent, Complete, WatcherMatchesConfig
<1> QED
  BY <1>1, WatchInit, WatchStep, PTL DEF Spec
-----------------------------------------------------------------------------
(***************************************************************************)
(* The types.  What a handler has loaded is of the right kind because the  *)
(* certificate it holds was read from a file that existed, and a scan      *)
(* compares only paths that its watcher watches because a watcher that is  *)
(* not yet created has no scan.                                            *)
(***************************************************************************)
Files ==
    /\ writes \in 0..MaxWrites /\ calm \in BOOLEAN
    /\ \A p \in Path : disk[p].n \in 0..writes
    /\ disk[Config].is \in (SUBSET Upstream) \cup {Absent}
    /\ \A u \in Tls : /\ disk[Cert(u)].is \in Identity \cup {Absent}
                      /\ disk[Key(u)].is \in Identity \cup {Absent}

Loaded ==
    /\ todo \in [Watcher -> SUBSET Tls]
    /\ good \in [Watcher -> SUBSET Entry]
    /\ cert = [w \in Watcher |-> cert[w]]
    /\ \A w \in Watcher : pc[w] = "key" => cert[w] \in Tls \X Identity
    /\ last \in SUBSET Entry

Scanned ==
    /\ left \in [Watcher -> SUBSET Path]
    /\ \A w \in Watcher : /\ DOMAIN base[w] \subseteq Path /\ left[w] \subseteq DOMAIN base[w]
                          /\ pc[w] = "none" => left[w] = {}

Sent ==
    main \in {"watch", "install", "done"} /\ open \in BOOLEAN /\ chan \in 0..ChanCap

\* The invariant states the types.
LEMMA TypesFollow == WatchInv /\ Files /\ Loaded /\ Scanned /\ Sent => TypeOK
<1> SUFFICES ASSUME WatchInv, Files, Loaded, Scanned, Sent PROVE TypeOK
  BY Zenon
<1>1. created \in 0..MaxWatcher /\ inner \in 0..created /\ \A w \in Watcher : child[w] \in 0..created
  BY Zenon DEF WatchInv, Created, Referred
<1>2. \A n \in 0..created : n \in Watcher \cup {NoId}
  BY <1>1, BoundAssumption DEF Watcher, NoId
<1>3. child \in [Watcher -> Watcher \cup {NoId}]
  <2>1. \A w \in Watcher : child[w] \in Watcher \cup {NoId}
    BY <1>1, <1>2, Zenon
  <2> QED
    BY <2>1, Zenon DEF WatchInv, Shapes
<1>4. inner \in Watcher \cup {NoId}
  BY <1>1, <1>2, Zenon
<1> QED
  BY <1>1, <1>3, <1>4, Zenon
     DEF TypeOK, WatchInv, Shapes, Files, Loaded, Scanned, Sent

\* The paths are all different.
LEMMA PathsDiffer ==
    /\ Config \in Path
    /\ \A u \in Tls : /\ Cert(u) \in Path /\ Key(u) \in Path
                      /\ Config # Cert(u) /\ Config # Key(u)
    /\ \A u, v \in Tls : Cert(u) # Key(v)
<1>1. \A u \in Tls : Config # Cert(u) /\ Config # Key(u)
  BY DEF Config, Cert, Key
<1>2. \A u, v \in Tls : Cert(u) # Key(v)
  BY DEF Cert, Key
<1> QED
  BY <1>1, <1>2, Zenon DEF Path

\* The initial state satisfies the invariant: every certificate and key holds
\* the same identity.
LEMMA TypesInit == Init => Files /\ Loaded /\ Scanned /\ Sent
<1> SUFFICES ASSUME Init PROVE Files /\ Loaded /\ Scanned /\ Sent
  BY Zenon
<1> USE CapacityAssumption
<1>1. PICK ups \in (SUBSET Upstream) \ {{}} : \E i \in Identity :
         disk = [p \in Path |-> [n |-> 0, is |-> IF p = Config THEN ups ELSE i]]
  BY Zenon DEF Init
<1>2. PICK i \in Identity :
         disk = [p \in Path |-> [n |-> 0, is |-> IF p = Config THEN ups ELSE i]]
  BY <1>1, Zenon
<1>3. /\ disk[Config].is = ups
      /\ \A u \in Tls : disk[Cert(u)].is = i /\ disk[Key(u)].is = i
  BY <1>2, PathsDiffer
<1>4. \A p \in Path : disk[p].n = 0
  BY <1>2
<1>5. 0 \in 0..0 /\ 0 \in 0..MaxWrites /\ 1 \in 0..ChanCap
  OBVIOUS
<1>6. Files
  BY <1>3, <1>4, <1>5, Zenon DEF Files, Init
<1>7. Target \in SUBSET Entry
  <2>1. ASSUME NEW c \in Target PROVE c \in Entry
    <3>1. CASE \E u \in disk[Config].is \cap Plain : c = <<u, NoId, NoId>>
      BY <3>1 DEF Entry, Upstream
    <3>2. CASE \E u \in Tls : c = <<u, disk[Cert(u)].is, disk[Key(u)].is>>
      <4>1. PICK u \in Tls : c = <<u, i, i>>
        BY <1>3, <3>2
      <4> QED
        BY <4>1 DEF Entry, Upstream
    <3> QED
      BY <2>1, <3>1, <3>2, Zenon DEF Target
  <2> QED
    BY <2>1, Zenon
<1>8. Loaded
  BY <1>7, Zenon DEF Loaded, Init
<1>9. Scanned
  <2>1. DOMAIN <<>> = {}
    OBVIOUS
  <2> QED
    BY <2>1, Zenon DEF Scanned, Init
<1>10. Sent
  BY <1>5, Zenon DEF Sent, Init
<1> QED
  BY <1>6, <1>8, <1>9, <1>10, Zenon

\* What writers put in the files.
LEMMA FilesPut ==
    ASSUME Files, NEW paths, NEW is, NEW gently \in BOOLEAN, Put(paths, is, gently),
           Config \in paths => is \in (SUBSET Upstream) \cup {Absent},
           \A u \in Tls : Cert(u) \in paths \/ Key(u) \in paths => is \in Identity \cup {Absent}
    PROVE  Files'
<1>1. writes' = writes + 1 /\ writes < MaxWrites /\ writes \in 0..MaxWrites
  BY Zenon DEF Put, CanWrite, Files
<1>2. writes' \in 0..MaxWrites /\ writes' \in 0..writes' /\ \A n \in 0..writes : n \in 0..writes'
  BY <1>1, CapacityAssumption
<1>3. calm' \in BOOLEAN
  <2>1. calm' = (calm /\ gently /\ Settled)
    BY Zenon DEF Put
  <2> QED
    BY <2>1, Zenon
<1>4. \A p \in Path : disk'[p] = IF p \in paths THEN [n |-> writes + 1, is |-> is] ELSE disk[p]
  BY Zenon DEF Put
<1>5. \A p \in Path : disk'[p].n = IF p \in paths THEN writes' ELSE disk[p].n
  BY <1>1, <1>4
<1>6. \A p \in Path : disk'[p].is = IF p \in paths THEN is ELSE disk[p].is
  BY <1>4
<1>7. \A p \in Path : disk'[p].n \in 0..writes'
  BY <1>2, <1>5, Zenon DEF Files
<1>8. disk'[Config].is \in (SUBSET Upstream) \cup {Absent}
  BY <1>6, PathsDiffer, Zenon DEF Files
<1>9. \A u \in Tls : /\ disk'[Cert(u)].is \in Identity \cup {Absent}
                     /\ disk'[Key(u)].is \in Identity \cup {Absent}
  BY <1>6, PathsDiffer, Zenon DEF Files
<1> QED
  BY <1>2, <1>3, <1>7, <1>8, <1>9, Zenon DEF Files

\* The files keep their types: a handler only reads them.
LEMMA FilesStep == Files /\ [Next]_vars => Files'
<1> SUFFICES ASSUME Files, [Next]_vars PROVE Files'
  BY Zenon
<1>1. CASE Write
  <2>1. ASSUME NEW ups \in SUBSET Upstream, WriteConfig(ups) PROVE Files'
    <3>1. \A u \in Tls : Cert(u) \notin {Config} /\ Key(u) \notin {Config}
      BY PathsDiffer, Zenon
    <3> QED
      BY <2>1, <3>1, FilesPut, Zenon DEF WriteConfig
  <2>2. ASSUME NEW p \in Path, Lose(p) PROVE Files'
    <3>1. Put({p}, Absent, FALSE) /\ FALSE \in BOOLEAN
      BY <2>2, Zenon DEF Lose
    <3>2. Absent \in (SUBSET Upstream) \cup {Absent} /\ Absent \in Identity \cup {Absent}
      BY Zenon
    <3> QED
      BY <3>1, <3>2, FilesPut, Zenon
  <2>3. ASSUME NEW u \in Tls, NEW i \in Identity, Rotate(u, i) \/ RotateCert(u, i) \/ RotateKey(u, i)
        PROVE  Files'
    <3>1. Config \notin {Cert(u), Key(u)} /\ Config \notin {Cert(u)} /\ Config \notin {Key(u)}
      BY PathsDiffer, Zenon
    <3>2. Watched(u) \in BOOLEAN
      BY Zenon DEF Watched
    <3> QED
      BY <2>3, <3>1, <3>2, FilesPut, Zenon DEF Rotate, RotateCert, RotateKey
  <2> QED
    BY <1>1, <2>1, <2>2, <2>3, Zenon DEF Write
<1>2. CASE UNCHANGED diskVars
  BY <1>2, Zenon DEF diskVars, Files
<1>3. CASE NewStep \/ LoopRecv \/ LoopStop \/ UNCHANGED vars
  BY <1>2, <1>3, Zenon DEF NewStep, NewWatch, NewInstall, LoopRecv, LoopStop, vars
<1>4. ASSUME NEW w \in Watcher, HandlerStep(w) PROVE Files'
  <2>1. CASE ParseConfig(w) \/ LoadKey(w) \/ \E u \in Tls : LoadCertificate(w, u)
    BY <1>2, <2>1, Zenon DEF ParseConfig, LoadKey, LoadCertificate
  <2>2. CASE WatchConfig(w) \/ WatchFiles(w) \/ Lock(w) \/ Send(w) \/ Install(w)
    BY <1>2, <2>2, Zenon DEF WatchConfig, WatchFiles, Lock, Send, Install
  <2> QED
    BY <1>4, <2>1, <2>2, Zenon DEF HandlerStep
<1>5. ASSUME NEW w \in Watcher, Scan(w) PROVE Files'
  BY <1>2, <1>5, Zenon DEF Scan, Detect
<1> QED
  BY <1>1, <1>3, <1>4, <1>5, Zenon DEF Next

\* The channel never holds more than its capacity.
LEMMA SentStep == Sent /\ [Next]_vars => Sent'
<1> SUFFICES ASSUME Sent, [Next]_vars PROVE Sent'
  BY Zenon
<1>1. CASE LoopRecv
  <2>1. chan' \in 0..ChanCap
    BY <1>1, CapacityAssumption DEF LoopRecv, Sent
  <2> QED
    BY <1>1, <2>1, Zenon DEF LoopRecv, Sent, innerVars
<1>2. CASE LoopStop
  <2>1. 0 \in 0..ChanCap
    BY CapacityAssumption
  <2> QED
    BY <1>2, <2>1, Zenon DEF LoopStop, Sent, innerVars
<1>3. ASSUME NEW w \in Watcher, Send(w) PROVE Sent'
  <2>1. chan' \in 0..ChanCap
    BY <1>3, CapacityAssumption DEF Send, CanSend, Sent
  <2> QED
    BY <1>3, <2>1, Zenon DEF Send, Sent, innerVars
<1>4. CASE NewStep
  BY <1>4, Zenon DEF NewStep, NewWatch, NewInstall, Sent, chanVars
<1>5. CASE UNCHANGED <<main, open, chan>>
  BY <1>5, Zenon DEF Sent
<1>6. CASE Write \/ UNCHANGED vars
  BY <1>5, <1>6, Zenon DEF Write, WriteConfig, Lose, Rotate, RotateCert, RotateKey, Put, vars,
     chanVars, innerVars
<1>7. ASSUME NEW w \in Watcher, HandlerStep(w) PROVE Sent'
  <2>1. CASE ParseConfig(w) \/ LoadKey(w) \/ \E u \in Tls : LoadCertificate(w, u)
    BY <1>5, <2>1, Zenon DEF ParseConfig, LoadKey, LoadCertificate, chanVars, innerVars
  <2>2. CASE WatchConfig(w) \/ WatchFiles(w) \/ Lock(w) \/ Install(w)
    BY <1>5, <2>2, Zenon DEF WatchConfig, WatchFiles, Lock, Install, chanVars, innerVars
  <2> QED
    BY <1>3, <1>7, <2>1, <2>2, Zenon DEF HandlerStep
<1>8. ASSUME NEW w \in Watcher, Scan(w) PROVE Sent'
  BY <1>5, <1>8, Zenon DEF Scan, Detect, chanVars, innerVars
<1> QED
  BY <1>1, <1>2, <1>4, <1>6, <1>7, <1>8, Zenon DEF Next

\* A step that loads nothing keeps what is loaded.
LEMMA LoadedKeep ==
    ASSUME Loaded, UNCHANGED <<todo, cert>>, good' \in [Watcher -> SUBSET Entry],
           last' \in SUBSET Entry, \A v \in Watcher : pc'[v] = "key" => pc[v] = "key"
    PROVE  Loaded'
BY Zenon DEF Loaded

\* Where a handler goes after it has loaded an upstream, or has left one out.
LEMMA LoadedNext == \A more, cfg : AfterLoad(more, cfg) # "key"
BY Zenon DEF AfterLoad

\* A handler loads upstreams of the configuration with identities of the files.
LEMMA LoadedLoads ==
    ASSUME WatchInv, Files, Loaded, NEW w \in Watcher,
           ParseConfig(w) \/ LoadKey(w) \/ \E u \in Tls : LoadCertificate(w, u)
    PROVE  Loaded'
<1>1. pc \in [Watcher -> PcState] /\ last' = last
  BY Zenon DEF WatchInv, Shapes, ParseConfig, LoadKey, LoadCertificate, chanVars
<1>2. ASSUME NEW s, pc' = [pc EXCEPT ![w] = s], s # "key"
      PROVE  \A v \in Watcher : pc'[v] = "key" => pc[v] = "key" /\ v # w
  BY <1>1, <1>2, Zenon
<1>3. ASSUME NEW s, pc' = [pc EXCEPT ![w] = s], s # "key",
             NEW t \in SUBSET Tls, todo' = [todo EXCEPT ![w] = t],
             NEW g \in SUBSET Entry, good' = [good EXCEPT ![w] = g],
             cert' = [v \in Watcher |-> cert'[v]], \A v \in Watcher : v # w => cert'[v] = cert[v]
      PROVE  Loaded'
  <2>1. todo' \in [Watcher -> SUBSET Tls] /\ good' \in [Watcher -> SUBSET Entry]
    BY <1>3, Zenon DEF Loaded
  <2> QED
    BY <1>1, <1>2, <1>3, <2>1, Zenon DEF Loaded
<1>4. cert = [v \in Watcher |-> cert[v]] /\ good = [good EXCEPT ![w] = good[w]]
  BY Zenon DEF Loaded
<1>5. todo[w] \in SUBSET Tls /\ good[w] \in SUBSET Entry
  BY Zenon DEF Loaded
<1>6. CASE ParseConfig(w)
  <2> DEFINE ups == disk[Config].is
             plain == {<<u, NoId, NoId>> : u \in ups \cap Plain}
  <2>1. CASE ups \in {Absent, {}}
    <3>1. pc' = [pc EXCEPT ![w] = "idle"] /\ UNCHANGED <<todo, good, cert>>
      BY <1>6, <2>1, Zenon DEF ParseConfig
    <3> QED
      BY <1>1, <1>2, <3>1, LoadedKeep, Zenon DEF Loaded
  <2>2. CASE ups \notin {Absent, {}}
    <3>1. /\ pc' = [pc EXCEPT ![w] = AfterLoad(ups \cap Tls, plain)]
          /\ todo' = [todo EXCEPT ![w] = ups \cap Tls]
          /\ good' = [good EXCEPT ![w] = plain]
          /\ cert' = cert
      BY <1>6, <2>2, Zenon DEF ParseConfig
    <3>2. plain \in SUBSET Entry
      <4>1. \A u \in Plain : <<u, NoId, NoId>> \in Entry
        BY DEF Entry, Upstream
      <4> QED
        BY <4>1, Zenon
    <3>3. ups \cap Tls \in SUBSET Tls
      BY Zenon
    <3> HIDE DEF ups, plain
    <3> QED
      BY <1>3, <1>4, <3>1, <3>2, <3>3, LoadedNext, Zenon
  <2> QED
    BY <2>1, <2>2, Zenon
<1>7. ASSUME NEW u, Drop(w, u), cert' = [v \in Watcher |-> cert'[v]],
             \A v \in Watcher : v # w => cert'[v] = cert[v]
      PROVE  Loaded'
  <2>1. todo[w] \ {u} \in SUBSET Tls
    BY <1>5, Zenon
  <2>2. todo' = [todo EXCEPT ![w] = todo[w] \ {u}]
    BY <1>7, Zenon DEF Drop
  <2>3. good' = [good EXCEPT ![w] = good[w]]
    BY <1>4, <1>7, Zenon DEF Drop
  <2>4. pc' = [pc EXCEPT ![w] = AfterLoad(todo[w] \ {u}, good[w])]
    BY <1>7, Zenon DEF Drop
  <2> QED
    BY <1>3, <1>5, <1>7, <2>1, <2>2, <2>3, <2>4, LoadedNext, Zenon
<1>8. ASSUME NEW u \in Tls, LoadCertificate(w, u) PROVE Loaded'
  <2> DEFINE i == disk[Cert(u)].is
  <2>1. CASE i = Absent
    <3>1. Drop(w, u) /\ cert' = cert
      BY <1>8, <2>1, Zenon DEF LoadCertificate
    <3> QED
      BY <1>4, <1>7, <3>1, Zenon
  <2>2. CASE i # Absent
    <3>1. /\ cert' = [cert EXCEPT ![w] = <<u, i>>] /\ pc' = [pc EXCEPT ![w] = "key"]
          /\ UNCHANGED <<todo, good>>
      BY <1>8, <2>2, Zenon DEF LoadCertificate
    <3>2. i \in Identity
      BY <2>2, Zenon DEF Files
    <3> HIDE DEF i
    <3>3. <<u, i>> \in Tls \X Identity
      BY <3>2
    <3>4. \A v \in Watcher : /\ cert'[v] = IF v = w THEN <<u, i>> ELSE cert[v]
                             /\ v # w => pc'[v] = pc[v]
      BY <1>1, <1>4, <3>1, Zenon
    <3>5. cert' = [v \in Watcher |-> cert'[v]]
      BY <1>4, <3>1, Zenon
    <3>6. \A v \in Watcher : pc'[v] = "key" => cert'[v] \in Tls \X Identity
      BY <3>3, <3>4, Zenon DEF Loaded
    <3> QED
      BY <1>1, <3>1, <3>5, <3>6, Zenon DEF Loaded
  <2> QED
    BY <2>1, <2>2, Zenon
<1>9. CASE LoadKey(w)
  <2>1. cert[w] \in Tls \X Identity
    BY <1>9, Zenon DEF LoadKey, Loaded
  <2> DEFINE u == cert[w][1]
             i == disk[Key(u)].is
             e == <<u, cert[w][2], i>>
  <2>2. /\ cert' = [v \in Watcher |-> cert'[v]]
        /\ \A v \in Watcher : v # w => cert'[v] = cert[v]
    BY <1>4, <1>9, Zenon DEF LoadKey
  <2>3. CASE i = Absent
    <3>1. Drop(w, u)
      BY <1>9, <2>3, Zenon DEF LoadKey
    <3> QED
      BY <1>7, <2>2, <3>1, Zenon
  <2>4. CASE i # Absent
    <3>1. /\ todo' = [todo EXCEPT ![w] = todo[w] \ {u}]
          /\ good' = [good EXCEPT ![w] = good[w] \cup {e}]
          /\ pc' = [pc EXCEPT ![w] = AfterLoad(todo'[w], good'[w])]
      BY <1>9, <2>4, Zenon DEF LoadKey
    <3>2. u \in Tls /\ cert[w][2] \in Identity
      BY <2>1
    <3>3. i \in Identity
      BY <2>4, <3>2, Zenon DEF Files
    <3>4. e \in Entry
      BY <3>2, <3>3 DEF Entry, Upstream
    <3> HIDE DEF u, i, e
    <3>5. todo[w] \ {u} \in SUBSET Tls /\ good[w] \cup {e} \in SUBSET Entry
      BY <1>5, <3>4, Zenon
    <3> QED
      BY <1>3, <2>2, <3>1, <3>5, LoadedNext, Zenon
  <2> QED
    BY <2>3, <2>4, Zenon
<1> QED
  BY <1>6, <1>8, <1>9, Zenon

\* What is loaded keeps its type.
LEMMA LoadedStep == WatchInv /\ Files /\ Loaded /\ [Next]_vars => Loaded'
<1> SUFFICES ASSUME WatchInv, Files, Loaded, [Next]_vars PROVE Loaded'
  BY Zenon
<1>1. pc \in [Watcher -> PcState] /\ good \in [Watcher -> SUBSET Entry] /\ last \in SUBSET Entry
  BY Zenon DEF WatchInv, Shapes, Loaded
<1>2. ASSUME UNCHANGED <<pc, todo, good, cert, last>> PROVE Loaded'
  BY <1>2, Zenon DEF Loaded
<1>3. CASE Write \/ LoopRecv \/ LoopStop \/ NewInstall \/ UNCHANGED vars
  BY <1>2, <1>3, Zenon DEF Write, WriteConfig, Lose, Rotate, RotateCert, RotateKey, Put, LoopRecv,
     LoopStop, NewInstall, vars, handlerVars, chanVars
<1>4. CASE NewWatch
  <2>1. \A v \in Watcher : pc'[v] = "key" => pc[v] = "key"
    BY <1>1, <1>4, Zenon DEF NewWatch
  <2> QED
    BY <1>1, <1>4, <2>1, LoadedKeep, Zenon DEF NewWatch, chanVars
<1>5. ASSUME NEW w \in Watcher, Scan(w) PROVE Loaded'
  <2>1. UNCHANGED <<todo, cert, good, last>> /\ \E s \in {"idle", "open"} : pc' = [pc EXCEPT ![w] = s]
    BY <1>5, Zenon DEF Scan, Detect, chanVars
  <2>2. \A v \in Watcher : pc'[v] = "key" => pc[v] = "key"
    BY <1>1, <2>1, Zenon
  <2> QED
    BY <1>1, <2>1, <2>2, LoadedKeep, Zenon
<1>6. ASSUME NEW w \in Watcher, WatchConfig(w) PROVE Loaded'
  <2>1. \A v \in Watcher : pc'[v] = "key" => pc[v] = "key"
    BY <1>1, <1>6, Zenon DEF WatchConfig
  <2> QED
    BY <1>1, <1>6, <2>1, LoadedKeep, Zenon DEF WatchConfig, chanVars
<1>7. ASSUME NEW w \in Watcher, WatchFiles(w) PROVE Loaded'
  <2>1. UNCHANGED <<todo, good, cert, last>> /\ pc' = [pc EXCEPT ![w] = "lock"]
    BY <1>7, Zenon DEF WatchFiles, chanVars
  <2>2. \A v \in Watcher : pc'[v] = "key" => pc[v] = "key"
    BY <1>1, <2>1, Zenon
  <2> QED
    BY <1>1, <2>1, <2>2, LoadedKeep, Zenon
<1>8. ASSUME NEW w \in Watcher, Lock(w) \/ Send(w) PROVE Loaded'
  <2>1. UNCHANGED <<todo, cert, good>> /\ \E s \in {"send", "install"} : pc' = [pc EXCEPT ![w] = s]
    BY <1>8, Zenon DEF Lock, Send
  <2>2. \A v \in Watcher : pc'[v] = "key" => pc[v] = "key"
    BY <1>1, <2>1, Zenon
  <2>3. last' \in {last, good[w]}
    BY <1>8, Zenon DEF Lock, Send, chanVars
  <2>4. last' \in SUBSET Entry
    BY <1>1, <2>3, Zenon
  <2> QED
    BY <1>1, <2>1, <2>2, <2>4, LoadedKeep, Zenon
<1>9. ASSUME NEW w \in Watcher, Install(w) PROVE Loaded'
  <2>1. /\ UNCHANGED <<todo, cert, last>> /\ pc' = [pc EXCEPT ![w] = "idle"]
        /\ good' = [good EXCEPT ![w] = {}]
    BY <1>9, Zenon DEF Install, chanVars
  <2>2. \A v \in Watcher : pc'[v] = "key" => pc[v] = "key"
    BY <1>1, <2>1, Zenon
  <2>3. {} \in SUBSET Entry
    BY Zenon
  <2>4. good' \in [Watcher -> SUBSET Entry]
    BY <1>1, <2>1, <2>3, Zenon
  <2> QED
    BY <1>1, <2>1, <2>2, <2>4, LoadedKeep, Zenon
<1> QED
  BY <1>3, <1>4, <1>5, <1>6, <1>7, <1>8, <1>9, LoadedLoads, Zenon DEF Next, NewStep, HandlerStep

\* A step that leaves the scans and what is watched alone.
LEMMA ScannedKeep ==
    ASSUME Scanned, UNCHANGED <<left, base>>,
           \A v \in Watcher : pc'[v] = "none" => pc[v] = "none"
    PROVE  Scanned'
BY Zenon DEF Scanned

\* A new watcher has no scan yet.
LEMMA ScannedCreate ==
    ASSUME WatchInv, Scanned, created < MaxWatcher, left' = left,
           base' = [base EXCEPT ![created + 1] = Baseline({Config})],
           \A v \in Watcher : pc'[v] = "none" => pc[v] = "none"
    PROVE  Scanned'
<1>1. created + 1 \in Watcher /\ created + 1 > created
  BY BoundAssumption DEF WatchInv, Created, Watcher
<1>2. pc[created + 1] = "none"
  BY <1>1, Zenon DEF WatchInv, Created
<1>3. left[created + 1] = {}
  BY <1>1, <1>2, Zenon DEF Scanned
<1>4. DOMAIN Baseline({Config}) \subseteq Path
  BY PathsDiffer, Zenon DEF Baseline
<1>5. \A v \in Watcher : base'[v] = IF v = created + 1 THEN Baseline({Config}) ELSE base[v]
  BY Zenon DEF WatchInv, Shapes
<1> QED
  BY <1>3, <1>4, <1>5, Zenon DEF Scanned

\* A scan goes on with some of the paths it has not compared yet.
LEMMA ScannedDetect ==
    ASSUME WatchInv, Scanned, NEW w \in Watcher, NEW p \in Path, NEW rest \in SUBSET Path,
           Detect(w, p, rest)
    PROVE  Scanned'
<1>1. /\ left' = [left EXCEPT ![w] = rest] /\ base' = [base EXCEPT ![w] = [@ EXCEPT ![p] = disk[p]]]
      /\ rest \subseteq (IF p \in left[w] THEN left[w] ELSE DOMAIN base[w]) \ {p}
      /\ \E s \in {"idle", "open"} : pc' = [pc EXCEPT ![w] = s]
  BY Zenon DEF Detect
<1>2. rest \subseteq DOMAIN base[w]
  BY <1>1, Zenon DEF Scanned
<1>3. \A v \in Watcher : DOMAIN base'[v] = DOMAIN base[v]
  BY <1>1, Zenon DEF WatchInv, Shapes
<1>4. left' \in [Watcher -> SUBSET Path]
  BY <1>1, Zenon DEF Scanned
<1>5. \A v \in Watcher : left'[v] = IF v = w THEN rest ELSE left[v]
  BY <1>1, Zenon DEF Scanned
<1>6. \A v \in Watcher : pc'[v] = "none" => pc[v] = "none" /\ v # w
  BY <1>1, Zenon DEF WatchInv, Shapes
<1> QED
  BY <1>2, <1>3, <1>4, <1>5, <1>6, Zenon DEF Scanned

\* Files are added to what the new watcher watches.
LEMMA ScannedFiles ==
    ASSUME WatchInv, Scanned, NEW w \in Watcher, WatchFiles(w)
    PROVE  Scanned'
<1> DEFINE v == child[w]
           files == IF pc[v] = "dead" THEN {} ELSE FilesToWatch(good[w])
           seen == Baseline(files)
           watched == DOMAIN base[v] \cup DOMAIN seen
<1>1. base' = [base EXCEPT ![v] = [p \in watched |-> IF p \in DOMAIN base[v] THEN base[v][p] ELSE seen[p]]]
  BY Zenon DEF WatchFiles
<1>2. left' = left /\ pc' = [pc EXCEPT ![w] = "lock"]
  BY Zenon DEF WatchFiles
<1>3. DOMAIN seen \subseteq Path
  BY FilesArePaths, Zenon DEF Baseline
<1> HIDE DEF seen, files
<1>4. v \in Watcher => DOMAIN base[v] \subseteq watched /\ watched \subseteq Path
  BY <1>3, Zenon DEF Scanned
<1> HIDE DEF v, watched
<1>5. \A x \in Watcher : DOMAIN base'[x] = IF x = v THEN watched ELSE DOMAIN base[x]
  BY <1>1, Zenon DEF WatchInv, Shapes
<1>6. \A x \in Watcher : pc'[x] = "none" => pc[x] = "none"
  BY <1>2, Zenon DEF WatchInv, Shapes
<1> QED
  BY <1>2, <1>4, <1>5, <1>6, Zenon DEF Scanned

\* The scans keep to what is watched.
LEMMA ScannedStep == WatchInv /\ Scanned /\ [Next]_vars => Scanned'
<1> SUFFICES ASSUME WatchInv, Scanned, [Next]_vars PROVE Scanned'
  BY Zenon
<1>1. pc \in [Watcher -> PcState]
  BY Zenon DEF WatchInv, Shapes
<1>2. CASE Write \/ LoopRecv \/ LoopStop \/ NewInstall \/ UNCHANGED vars
  <2>1. UNCHANGED <<pc, left, base>>
    BY <1>2, Zenon DEF Write, WriteConfig, Lose, Rotate, RotateCert, RotateKey, Put, LoopRecv,
       LoopStop, NewInstall, vars, handlerVars
  <2> QED
    BY <2>1, ScannedKeep, Zenon
<1>3. CASE NewWatch
  <2>1. \A v \in Watcher : pc'[v] = "none" => pc[v] = "none"
    BY <1>1, <1>3, Zenon DEF NewWatch
  <2> QED
    BY <1>3, <2>1, ScannedCreate, Zenon DEF NewWatch
<1>4. ASSUME NEW w \in Watcher, WatchConfig(w) PROVE Scanned'
  <2>1. \A v \in Watcher : pc'[v] = "none" => pc[v] = "none"
    BY <1>1, <1>4, Zenon DEF WatchConfig
  <2> QED
    BY <1>4, <2>1, ScannedCreate, Zenon DEF WatchConfig
<1>5. ASSUME NEW w \in Watcher, Lock(w) \/ Send(w) \/ Install(w) PROVE Scanned'
  <2>1. UNCHANGED <<left, base>> /\ \E s \in {"send", "install", "idle"} : pc' = [pc EXCEPT ![w] = s]
    BY <1>5, Zenon DEF Lock, Send, Install
  <2>2. \A v \in Watcher : pc'[v] = "none" => pc[v] = "none"
    BY <1>1, <2>1, Zenon
  <2> QED
    BY <2>1, <2>2, ScannedKeep, Zenon
<1>6. ASSUME NEW w \in Watcher,
             ParseConfig(w) \/ LoadKey(w) \/ \E u \in Tls : LoadCertificate(w, u)
      PROVE  Scanned'
  <2>1. UNCHANGED <<left, base, created>> /\ pc[w] \in {"open", "certificate", "key"}
    BY <1>6, Zenon DEF ParseConfig, LoadKey, LoadCertificate, innerVars
  <2>2. WatchInv'
    BY <1>6, WatchLoads, Zenon
  <2>3. \A v \in Watcher : pc'[v] = "none" => pc[v] = "none"
    BY <2>1, <2>2, Zenon DEF WatchInv, Created
  <2> QED
    BY <2>1, <2>3, ScannedKeep, Zenon
<1> QED
  BY <1>2, <1>3, <1>4, <1>5, <1>6, ScannedDetect, ScannedFiles, Zenon
     DEF Next, NewStep, HandlerStep, Scan

\* Every variable of the configuration watcher has its type: a configuration
\* holds only identities that were read from a file, a scan compares only paths
\* that are watched, and the channel is never over its capacity, for any
\* numbers of watchers, upstreams and writes and whatever the writers do.
THEOREM WatcherTypes == Spec => []TypeOK
BY WatchInit, WatchStep, TypesInit, TypesFollow, FilesStep, LoadedStep, ScannedStep, SentStep, PTL
   DEF Spec
=============================================================================
