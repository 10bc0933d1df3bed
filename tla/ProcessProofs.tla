----------------------------- MODULE ProcessProofs -----------------------------
(***************************************************************************)
(* Theorems about what a process loads and owns: the TTS process and its   *)
(* pipes, the two services that serve what a file or the environment told  *)
(* them, the runtimes on the NPU; and the one recognizer that all sessions *)
(* of the ASR service share.                                               *)
(***************************************************************************)
EXTENDS TtsLifecycle, LayaStartup, AsrStartup, NpuRuntime, AsrBackend, FunctionTheorems,
        FiniteSetTheorems, SequenceTheorems, TLAPS

-----------------------------------------------------------------------------
(* TtsLifecycle *)

LifeTypes ==
  /\ DOMAIN mask = {"service", "child"} /\ spoken \in [requests : Nat, lines : Nat]
  /\ child \in {"none", "loading", "warm", "hung", "exited"}
  /\ stderr \in Seq({"ready", "closed"})

\* A ready line, still in the pipe or read, was written by a warm process.
ReadyLineMeans ==
  /\ readyEvent \/ woken => warmed
  /\ \A i \in 1..Len(stderr) : stderr[i] = "ready" => warmed

\* Who has the handle: start() until it fails, and stop() until it lets go.
HandleRight ==
  /\ handle => appAt \in {"starting", "listening", "stop", "interrupted"}
  /\ appAt \in {"starting", "listening", "stop"} => handle
  /\ appAt \in {"start", "pinned", "startup"} => child = "none"

\* What is known to have exited has, and stop() goes on only then.
GoneIsGone ==
  /\ reaped => child = "exited"
  /\ appAt = "process_stopped" => ~Alive

LifeInv == LifeTypes /\ ReadyLineMeans /\ HandleRight /\ GoneIsGone /\ ProcessOwned

\* Steps that touch neither the process, the pipe nor the handle.
LEMMA LifeQuiet ==
  ASSUME LifeInv, UNCHANGED <<childVars, readerVars, handle, spoken, mask>>,
         \/ appAt' = "pinned" /\ appAt = "start"
         \/ appAt' \in {"startup", "failed"} /\ appAt \in {"pinned", "startup"}
         \/ appAt' = "listening" /\ appAt = "starting" /\ woken
         \/ appAt' = "stop" /\ appAt \in {"starting", "listening"}
         \/ appAt' = "process_stopped" /\ appAt = "waiting" /\ reaped
         \/ appAt' = appAt
  PROVE  LifeInv'
<1>1. LifeTypes' /\ ReadyLineMeans'
  BY DEF LifeInv, LifeTypes, ReadyLineMeans, childVars, readerVars
<1>2. HandleRight' /\ GoneIsGone'
  BY DEF LifeInv, HandleRight, GoneIsGone, childVars, readerVars, Alive
<1>3. ProcessOwned'
  BY DEF LifeInv, ReadyLineMeans, HandleRight, GoneIsGone, ProcessOwned, ReadyIsReal, NothingLeft, ServedAsMeant,
         EngineReady, childVars, readerVars, Alive
<1> QED
  BY <1>1, <1>2, <1>3 DEF LifeInv

\* The CPUs are chosen before there is a child.
LEMMA PinServiceStep == ASSUME LifeInv, PinService PROVE LifeInv'
<1>1. PICK m \in Masks : mask' = [mask EXCEPT !.service = m]
  BY DEF PinService
<1>2. appAt = "start" /\ appAt' = "pinned" /\ UNCHANGED <<failing, childVars, readerVars, handle, spoken>>
      /\ child = "none"
  BY DEF PinService, LifeInv, HandleRight
<1>3. LifeTypes' /\ ReadyLineMeans'
  BY <1>1, <1>2 DEF LifeInv, LifeTypes, ReadyLineMeans, childVars, readerVars
<1>4. HandleRight' /\ GoneIsGone'
  BY <1>2 DEF LifeInv, HandleRight, GoneIsGone, childVars, readerVars, Alive
<1>5. ProcessOwned'
  BY <1>2 DEF LifeInv, HandleRight, ReadyLineMeans, ProcessOwned, ReadyIsReal, NothingLeft, ServedAsMeant,
              EngineReady, childVars, readerVars, Alive
<1> QED
  BY <1>3, <1>4, <1>5 DEF LifeInv

\* The child has the CPUs of the service that spawns it.
LEMMA SpawnStep == ASSUME LifeInv, Spawn PROVE LifeInv'
<1>1. /\ appAt = "startup" /\ appAt' = "starting" /\ child = "none" /\ child' = "loading" /\ handle'
      /\ mask' = [mask EXCEPT !.child = mask.service]
      /\ UNCHANGED <<reaped, warmed, stderr, readyEvent, woken, spoken>>
  BY DEF Spawn, LifeInv, HandleRight
<1>2. mask'.child = mask'.service /\ DOMAIN mask' = {"service", "child"}
  BY <1>1 DEF LifeInv, LifeTypes
<1>3. LifeTypes' /\ ReadyLineMeans'
  BY <1>1, <1>2 DEF LifeInv, LifeTypes, ReadyLineMeans
<1>4. HandleRight' /\ GoneIsGone'
  BY <1>1 DEF LifeInv, HandleRight, GoneIsGone, Alive
<1>5. ProcessOwned'
  BY <1>1, <1>2 DEF LifeInv, ReadyLineMeans, ProcessOwned, ReadyIsReal, NothingLeft, ServedAsMeant, EngineReady
<1> QED
  BY <1>3, <1>4, <1>5 DEF LifeInv

\* A line more in the pipe.
LEMMA LineMore ==
  ASSUME LifeTypes, NEW l \in {"ready", "closed"}, stderr' = Append(stderr, l)
  PROVE  /\ stderr' \in Seq({"ready", "closed"})
         /\ \A i \in 1..Len(stderr') : stderr'[i] = "ready" =>
              l = "ready" \/ \E j \in 1..Len(stderr) : stderr[j] = "ready"
<1>1. stderr \in Seq({"ready", "closed"})
  BY DEF LifeTypes
<1>2. stderr' \in Seq({"ready", "closed"}) /\ Len(stderr') = Len(stderr) + 1
      /\ stderr'[Len(stderr) + 1] = l /\ \A i \in 1..Len(stderr) : stderr'[i] = stderr[i]
  BY <1>1, AppendProperties
<1>3. \A i \in 1..(Len(stderr) + 1) : i \in 1..Len(stderr) \/ i = Len(stderr) + 1
  BY <1>1, LenProperties
<1> QED
  BY <1>2, <1>3

\* What the process does by itself.
LEMMA ChildSteps == ASSUME LifeInv, ChildWarm \/ ChildHangs \/ ChildExits \/ Reap PROVE LifeInv'
<1>1. /\ UNCHANGED <<appAt, mask, readyEvent, woken, handle, spoken>> /\ appAt \notin {"start", "pinned", "startup"}
      /\ child \in {"loading", "warm", "exited"} /\ child' \in {"warm", "hung", "exited"}
      /\ child = "exited" => child' = "exited"
      /\ reaped' => child' = "exited"
      /\ warmed => warmed'
      /\ child = "exited" <=> ~Alive
  BY DEF ChildWarm, ChildHangs, ChildExits, Reap, LifeInv, HandleRight, GoneIsGone, readerVars, Alive
<1>2. stderr' \in Seq({"ready", "closed"}) /\ \A i \in 1..Len(stderr') : stderr'[i] = "ready" => warmed'
  <2>1. CASE ChildWarm
    BY <2>1, LineMore DEF ChildWarm, LifeInv
  <2>2. CASE ChildExits
    <3>1. stderr' = Append(stderr, "closed") /\ warmed' = warmed
      BY <2>2 DEF ChildExits
    <3> QED
      BY <3>1, LineMore DEF LifeInv, ReadyLineMeans
  <2>3. CASE ChildHangs \/ Reap
    BY <2>3 DEF ChildHangs, Reap, readerVars, LifeInv, LifeTypes, ReadyLineMeans
  <2> QED
    BY <2>1, <2>2, <2>3
<1>3. LifeTypes' /\ ReadyLineMeans'
  BY <1>1, <1>2 DEF LifeInv, LifeTypes, ReadyLineMeans
<1>4. HandleRight'
  BY <1>1 DEF LifeInv, HandleRight
<1>5. GoneIsGone'
  BY <1>1 DEF LifeInv, GoneIsGone, Alive
<1>6. ReadyIsReal'
  BY <1>1, <1>3, <1>4 DEF ReadyIsReal, EngineReady, ReadyLineMeans, HandleRight
<1>7. NothingLeft' /\ ServedAsMeant'
  BY <1>1 DEF LifeInv, ProcessOwned, NothingLeft, ServedAsMeant, Alive
<1> QED
  BY <1>3, <1>4, <1>5, <1>6, <1>7 DEF LifeInv, ProcessOwned

\* The reader takes the next line.
LEMMA ReadStderrStep == ASSUME LifeInv, ReadStderr PROVE LifeInv'
<1>1. /\ stderr # <<>> /\ stderr' = Tail(stderr) /\ readyEvent' = (Head(stderr) = "ready")
      /\ woken' = (woken \/ (Head(stderr) = "ready" /\ appAt = "starting"))
      /\ UNCHANGED <<appAt, mask, child, reaped, warmed, handle, spoken>>
      /\ stderr \in Seq({"ready", "closed"})
  BY DEF ReadStderr, childVars, LifeInv, LifeTypes
<1>2. Tail(stderr) \in Seq({"ready", "closed"}) /\ Len(Tail(stderr)) = Len(stderr) - 1 /\ Len(stderr) \in Nat \ {0}
      /\ Head(stderr) = stderr[1] /\ \A i \in 1..(Len(stderr) - 1) : Tail(stderr)[i] = stderr[i + 1]
  BY <1>1, HeadTailProperties, EmptySeq, LenProperties
<1>3. Head(stderr) = "ready" => warmed
  BY <1>2 DEF LifeInv, ReadyLineMeans
<1>4. \A i \in 1..Len(stderr') : stderr'[i] = "ready" => warmed
  BY <1>1, <1>2 DEF LifeInv, ReadyLineMeans
<1>5. LifeTypes'
  BY <1>1, <1>2 DEF LifeInv, LifeTypes
<1>6. ReadyLineMeans'
  <2>1. readyEvent' => warmed
    BY <1>1, <1>3
  <2>2. woken' => warmed
    BY <1>1, <1>3 DEF LifeInv, ReadyLineMeans
  <2> QED
    BY <1>1, <1>4, <2>1, <2>2 DEF ReadyLineMeans
<1>7. HandleRight' /\ GoneIsGone'
  BY <1>1 DEF LifeInv, HandleRight, GoneIsGone, Alive
<1>8. ReadyIsReal'
  BY <1>6, <1>7 DEF ReadyIsReal, EngineReady, ReadyLineMeans, HandleRight
<1>9. NothingLeft' /\ ServedAsMeant'
  BY <1>1 DEF LifeInv, ProcessOwned, NothingLeft, ServedAsMeant, Alive
<1> QED
  BY <1>5, <1>6, <1>7, <1>8, <1>9 DEF LifeInv, ProcessOwned

\* A text without a line break inside is one line.
LEMMA TakeTextStep == ASSUME LifeInv, NEW t \in SynthTexts, TakeText(t) PROVE LifeInv'
<1>1. /\ UNCHANGED <<appAt, mask, childVars, readerVars, handle>>
      /\ t.inside = 0
      /\ spoken' = [requests |-> spoken.requests + 1, lines |-> spoken.lines + 1 + t.inside]
      /\ spoken \in [requests : Nat, lines : Nat] /\ spoken.lines = spoken.requests
  BY DEF TakeText, Accepted, LifeInv, LifeTypes, ProcessOwned, ServedAsMeant
<1>2. spoken' \in [requests : Nat, lines : Nat] /\ spoken'.lines = spoken'.requests
  <2>1. spoken.requests \in Nat /\ spoken.lines \in Nat
    BY <1>1
  <2> QED
    BY <1>1, <2>1
<1>3. LifeTypes' /\ ReadyLineMeans'
  BY <1>1, <1>2 DEF LifeInv, LifeTypes, ReadyLineMeans, childVars, readerVars
<1>4. HandleRight' /\ GoneIsGone'
  BY <1>1 DEF LifeInv, HandleRight, GoneIsGone, childVars, Alive
<1>5. ProcessOwned'
  BY <1>1, <1>2 DEF LifeInv, ProcessOwned, ReadyIsReal, NothingLeft, ServedAsMeant, EngineReady, childVars, readerVars, Alive
<1> QED
  BY <1>3, <1>4, <1>5 DEF LifeInv

\* stop() lets go of the process, and kills it if it must.
LEMMA StopSteps == ASSUME LifeInv, Interrupted \/ StopBegins \/ StopKills \/ StopEnds PROVE LifeInv'
<1>1. CASE Interrupted
  <2>1. /\ appAt = "starting" /\ appAt' = "interrupted"
        /\ UNCHANGED <<mask, child, reaped, warmed, stderr, readyEvent, woken, handle, spoken>>
    BY <1>1 DEF Interrupted
  <2>2. LifeTypes' /\ ReadyLineMeans' /\ HandleRight' /\ GoneIsGone'
    BY <2>1 DEF LifeInv, LifeTypes, ReadyLineMeans, HandleRight, GoneIsGone, Alive
  <2>3. ProcessOwned'
    BY <2>1 DEF LifeInv, ProcessOwned, ReadyIsReal, NothingLeft, ServedAsMeant, EngineReady, Alive
  <2> QED
    BY <2>2, <2>3 DEF LifeInv
<1>2. CASE StopBegins
  <2>1. /\ appAt = "stop" /\ ~handle' /\ ~readyEvent' /\ appAt' \in {"waiting", "process_stopped"}
        /\ appAt' = "process_stopped" => ~handle \/ reaped
        /\ UNCHANGED <<mask, child, reaped, warmed, stderr, woken, spoken>>
    BY <1>2 DEF StopBegins
  <2>2. handle
    BY <2>1 DEF LifeInv, HandleRight
  <2>3. LifeTypes' /\ ReadyLineMeans' /\ HandleRight' /\ GoneIsGone'
    BY <2>1, <2>2 DEF LifeInv, LifeTypes, ReadyLineMeans, HandleRight, GoneIsGone, Alive
  <2>4. ProcessOwned'
    BY <2>1 DEF LifeInv, ProcessOwned, ReadyIsReal, NothingLeft, ServedAsMeant, EngineReady, Alive
  <2> QED
    BY <2>3, <2>4 DEF LifeInv
<1>3. CASE StopKills
  <2>1. /\ appAt = "waiting" /\ child' = "exited" /\ stderr' = Append(stderr, "closed") /\ Alive
        /\ UNCHANGED <<appAt, mask, reaped, warmed, readyEvent, woken, handle, spoken>>
    BY <1>3 DEF StopKills
  <2>2. stderr' \in Seq({"ready", "closed"}) /\ \A i \in 1..Len(stderr') : stderr'[i] = "ready" => warmed
    BY <2>1, LineMore DEF LifeInv, ReadyLineMeans
  <2>3. LifeTypes' /\ ReadyLineMeans' /\ HandleRight' /\ GoneIsGone'
    BY <2>1, <2>2 DEF LifeInv, LifeTypes, ReadyLineMeans, HandleRight, GoneIsGone, Alive
  <2>4. ProcessOwned'
    BY <2>1 DEF LifeInv, HandleRight, ProcessOwned, ReadyIsReal, NothingLeft, ServedAsMeant, EngineReady, Alive
  <2> QED
    BY <2>3, <2>4 DEF LifeInv
<1>4. CASE StopEnds
  <2>1. /\ appAt = "process_stopped" /\ appAt' \in {"failed", "stopped"}
        /\ UNCHANGED <<mask, childVars, stderr, readyEvent, woken, handle, spoken>>
    BY <1>4 DEF StopEnds
  <2>2. LifeTypes' /\ ReadyLineMeans' /\ HandleRight' /\ GoneIsGone'
    BY <2>1 DEF LifeInv, LifeTypes, ReadyLineMeans, HandleRight, GoneIsGone, childVars, Alive
  <2>3. ProcessOwned'
    BY <2>1 DEF LifeInv, HandleRight, GoneIsGone, ProcessOwned, ReadyIsReal, NothingLeft, ServedAsMeant, EngineReady, childVars, Alive
  <2> QED
    BY <2>2, <2>3 DEF LifeInv
<1> QED
  BY <1>1, <1>2, <1>3, <1>4

\* Before anything is spawned.
LEMMA LifeStarts == LifeInit => LifeInv
<1> SUFFICES ASSUME LifeInit PROVE LifeInv
  OBVIOUS
<1>1. LifeTypes
  BY DEF LifeInit, LifeTypes
<1>2. ReadyLineMeans /\ HandleRight /\ GoneIsGone
  BY DEF LifeInit, ReadyLineMeans, HandleRight, GoneIsGone
<1>3. ProcessOwned
  BY DEF LifeInit, ProcessOwned, ReadyIsReal, NothingLeft, ServedAsMeant, EngineReady
<1> QED
  BY <1>1, <1>2, <1>3 DEF LifeInv

\* No step breaks it.
LEMMA LifeStep == ASSUME LifeInv, [LifeNext]_lifeVars PROVE LifeInv'
<1>1. CASE UNCHANGED lifeVars
  BY <1>1, LifeQuiet DEF lifeVars
<1>2. CASE LoadSettings \/ AssetsAbsent \/ StartReturns \/ StartTimesOut \/ Shutdown \/ StopWaited
  BY <1>2, LifeQuiet DEF LoadSettings, AssetsAbsent, StartReturns, StartTimesOut, Shutdown, StopWaited
<1>3. CASE LifeNext
  BY <1>2, <1>3, PinServiceStep, SpawnStep, ChildSteps, ReadStderrStep, TakeTextStep, StopSteps DEF LifeNext
<1> QED
  BY <1>1, <1>3

(* For any CPU sets and texts, whenever the process is slow, hangs, exits or is
   told to stop: the service is ready only over a process that said so, leaves
   none behind, and serves on the cores it was given, one line per request. *)
THEOREM ServiceOwnsProcess == LifeSpec => []ProcessOwned
<1>1. LifeInv => ProcessOwned
  BY DEF LifeInv
<1> QED
  BY <1>1, LifeStarts, LifeStep, PTL DEF LifeSpec

-----------------------------------------------------------------------------
(* LayaStartup *)

\* The command and its service stay what they were told.
CallRight ==
  /\ launchAt = "called" => call.command \in {"doctor", "serve"}
  /\ DOMAIN call.flags \subseteq {"backend", "host", "model_dir"}
  /\ launchAt \in {"idle", "called", "serve", "doctor"} => engine = NoEngine
  /\ launchAt \in {"idle", "called", "serve", "doctor", "loaded"} => adapter = NoProfile
  /\ launchAt # "listening" => ~httpReply.beyond

\* What doctor, serve and the engine work with is what the files and flags say.
AsTold == SettingsExist /\ config = SettingsTold /\ call.service # Nothing

ConfigRight ==
  /\ launchAt = "serve" => AsTold
  /\ launchAt \in {"loaded", "listening"} => engine # NoEngine /\ Exposable(config)
  /\ engine # NoEngine => AsTold /\ engine.backend = config.backend /\ engine.model_dir = config.model_dir

\* The last answer was given by the settings that serve.
ReplyRight ==
  httpReply.beyond =>
    /\ config.host # "loopback"
    /\ httpReply.path # "readyz" /\ httpReply.status # 401 => config.api_key_file # "key" \/ httpReply.keyed

LaunchInv == CallRight /\ ConfigRight /\ ReplyRight /\ AdapterQualified

\* The settings are a matter of the command line, the services file and the host.
LEMMA SameTold ==
  ASSUME UNCHANGED <<document, npuHost, call>>
  PROVE  (SettingsExist' <=> SettingsExist) /\ SettingsTold' = SettingsTold
  BY DEF SettingsExist, SettingsTold, ServicesReadable, Chosen, BackendFor, Table

\* What is told is found: a field of the settings comes from the flags or from
\* the most specific of three tables that has it, or is the default.
LEMMA WhereTold ==
  ASSUME AsTold, CallRight
  PROVE  LET s == document.services[call.service]
             b == Chosen(call.flags)
         IN /\ config.backend = b
            /\ b \in DOMAIN s.backends
            /\ "model_dir" \in DOMAIN s.common \union DOMAIN s.backends[b]
            /\ "model_dir" \in DOMAIN call.flags => config.model_dir = call.flags.model_dir
            /\ "model_dir" \notin DOMAIN call.flags =>
                 config.model_dir = IF "model_dir" \in DOMAIN s.backends[b] THEN s.backends[b].model_dir
                                    ELSE s.common.model_dir
            /\ config.allow_no_auth =
                 IF "allow_no_auth" \in DOMAIN s.backends[b] THEN s.backends[b].allow_no_auth
                 ELSE IF "allow_no_auth" \in DOMAIN s.common THEN s.common.allow_no_auth
                 ELSE IF "allow_no_auth" \in DOMAIN document.defaults THEN document.defaults.allow_no_auth
                 ELSE FALSE
<1> DEFINE s == document.services[call.service]
<1> DEFINE b == Chosen(call.flags)
<1>1. ServicesReadable(document) /\ call.service \in DOMAIN document.services /\ b \in DOMAIN s.backends
  BY DEF AsTold, SettingsExist
<1>2. "model_dir" \in DOMAIN s.common \union DOMAIN s.backends[b]
  BY <1>1 DEF ServicesReadable
<1> DEFINE t == Over(s.backends[b], Over(s.common, document.defaults))
<1>3. config = Over(call.flags, Over([backend |-> b], Over(t, FieldDefaults)))
  BY DEF AsTold, SettingsTold, Table
<1>4. PICK upper, common, least : upper = s.backends[b] /\ common = s.common /\ least = document.defaults
  OBVIOUS
<1>5. t = Over(upper, Over(common, least))
  BY <1>4
<1> DEFINE shared == Over(common, least)
<1>6. DOMAIN t = DOMAIN upper \union DOMAIN common \union DOMAIN least
  <2>1. DOMAIN shared = DOMAIN common \union DOMAIN least
    BY DEF Over
  <2> HIDE DEF shared, t
  <2>2. DOMAIN Over(upper, shared) = DOMAIN upper \union DOMAIN shared
    BY DEF Over
  <2> QED
    BY <1>5, <2>1, <2>2 DEF shared
<1>7. \A k \in DOMAIN t : t[k] = IF k \in DOMAIN upper THEN upper[k]
                                 ELSE IF k \in DOMAIN common THEN common[k] ELSE least[k]
  <2>1. \A k \in DOMAIN common \union DOMAIN least :
          shared[k] = IF k \in DOMAIN common THEN common[k] ELSE least[k]
    BY DEF Over
  <2> HIDE DEF shared, t
  <2>2. DOMAIN shared = DOMAIN common \union DOMAIN least
    BY DEF Over, shared
  <2>3. \A k \in DOMAIN upper \union DOMAIN shared :
          Over(upper, shared)[k] = IF k \in DOMAIN upper THEN upper[k] ELSE shared[k]
    BY DEF Over
  <2>4. t = Over(upper, shared)
    BY <1>5 DEF shared
  <2> HIDE DEF shared
  <2> QED
    BY <1>6, <2>1, <2>2, <2>3, <2>4
<1> HIDE DEF t
<1> DEFINE told == Over(call.flags, Over([backend |-> b], Over(t, FieldDefaults)))
<1>9. \A k \in DOMAIN call.flags \union {"backend"} \union DOMAIN t \union DOMAIN FieldDefaults :
        told[k] = IF k \in DOMAIN call.flags THEN call.flags[k]
                  ELSE IF k = "backend" THEN b
                  ELSE IF k \in DOMAIN t THEN t[k] ELSE FieldDefaults[k]
  <2>1. DOMAIN [backend |-> b] = {"backend"} /\ [backend |-> b]["backend"] = b
    OBVIOUS
  <2> DEFINE under == Over(t, FieldDefaults)
  <2> DEFINE named == Over([backend |-> b], under)
  <2>2. DOMAIN under = DOMAIN t \union DOMAIN FieldDefaults
        /\ \A k \in DOMAIN under : under[k] = IF k \in DOMAIN t THEN t[k] ELSE FieldDefaults[k]
    BY DEF Over
  <2> HIDE DEF under
  <2>3. DOMAIN named = {"backend"} \union DOMAIN under
        /\ \A k \in DOMAIN named : named[k] = IF k = "backend" THEN b ELSE under[k]
    BY <2>1 DEF Over
  <2> HIDE DEF named
  <2>4. \A k \in DOMAIN call.flags \union DOMAIN named :
          Over(call.flags, named)[k] = IF k \in DOMAIN call.flags THEN call.flags[k] ELSE named[k]
    BY DEF Over
  <2>5. told = Over(call.flags, named)
    BY DEF named, under
  <2> HIDE DEF told
  <2> QED
    BY <2>2, <2>3, <2>4, <2>5
<1>10. config = told
  BY <1>3
<1> HIDE DEF told
<1>11. config.backend = b
  <2>1. "backend" \in DOMAIN call.flags => b = call.flags["backend"]
    BY DEF Chosen
  <2> QED
    BY <1>9, <1>10, <2>1
<1>12. "model_dir" \in DOMAIN call.flags => config.model_dir = call.flags.model_dir
  BY <1>9, <1>10
<1>13. "model_dir" \notin DOMAIN call.flags =>
         config.model_dir = IF "model_dir" \in DOMAIN s.backends[b] THEN s.backends[b].model_dir ELSE s.common.model_dir
  <2>1. "model_dir" \in DOMAIN upper \union DOMAIN common
    BY <1>2, <1>4
  <2>2. "model_dir" \in DOMAIN t
    BY <1>6, <2>1
  <2>3. t["model_dir"] = IF "model_dir" \in DOMAIN upper THEN upper["model_dir"] ELSE common["model_dir"]
    BY <1>7, <2>1, <2>2
  <2>4. "model_dir" \notin DOMAIN call.flags => config["model_dir"] = t["model_dir"]
    BY <1>9, <1>10, <2>2
  <2> QED
    BY <1>4, <2>3, <2>4
<1>14. "allow_no_auth" \notin DOMAIN call.flags
  BY DEF CallRight
<1>15. "allow_no_auth" \in DOMAIN FieldDefaults /\ FieldDefaults["allow_no_auth"] = FALSE
  BY DEF FieldDefaults
<1>16. config["allow_no_auth"] = IF "allow_no_auth" \in DOMAIN t THEN t["allow_no_auth"] ELSE FALSE
  <2>1. told["allow_no_auth"] = IF "allow_no_auth" \in DOMAIN t THEN t["allow_no_auth"]
                                ELSE FieldDefaults["allow_no_auth"]
    BY <1>9, <1>14, <1>15
  <2> QED
    BY <1>10, <1>15, <2>1
<1>17. config.allow_no_auth =
         IF "allow_no_auth" \in DOMAIN s.backends[b] THEN s.backends[b].allow_no_auth
         ELSE IF "allow_no_auth" \in DOMAIN s.common THEN s.common.allow_no_auth
         ELSE IF "allow_no_auth" \in DOMAIN document.defaults THEN document.defaults.allow_no_auth
         ELSE FALSE
  <2>1. "allow_no_auth" \in DOMAIN t =>
          t["allow_no_auth"] = IF "allow_no_auth" \in DOMAIN upper THEN upper["allow_no_auth"]
                               ELSE IF "allow_no_auth" \in DOMAIN common THEN common["allow_no_auth"]
                               ELSE least["allow_no_auth"]
    BY <1>7
  <2>2. "allow_no_auth" \in DOMAIN t <=>
          "allow_no_auth" \in DOMAIN upper \/ "allow_no_auth" \in DOMAIN common \/ "allow_no_auth" \in DOMAIN least
    BY <1>6
  <2> QED
    BY <1>4, <1>16, <2>1, <2>2
<1> QED
  BY <1>1, <1>2, <1>11, <1>12, <1>13, <1>17

\* The settings of a service say that no key is asked for, or the flags are
\* none of its business: a most specific table does.
LEMMA OpenIsTold ==
  ASSUME AsTold, CallRight, engine.backend = config.backend, config.allow_no_auth
  PROVE  ToldOpen
<1> DEFINE s == document.services[call.service]
<1> DEFINE b == Chosen(call.flags)
<1>1. config.backend = b /\ b \in DOMAIN s.backends
  BY WhereTold
<1>2. config.allow_no_auth =
        IF "allow_no_auth" \in DOMAIN s.backends[b] THEN s.backends[b].allow_no_auth
        ELSE IF "allow_no_auth" \in DOMAIN s.common THEN s.common.allow_no_auth
        ELSE IF "allow_no_auth" \in DOMAIN document.defaults THEN document.defaults.allow_no_auth
        ELSE FALSE
  BY WhereTold
<1>3. Layers = <<s.backends[b], s.common, document.defaults>>
  BY <1>1 DEF Layers
<1>4. Layers[1] = s.backends[b] /\ Layers[2] = s.common /\ Layers[3] = document.defaults
  BY <1>3
<1> HIDE DEF s, b
<1>5. CASE "allow_no_auth" \in DOMAIN Layers[1]
  <2>1. Layers[1].allow_no_auth
    BY <1>2, <1>4, <1>5
  <2>2. \A j \in 1..(1 - 1) : "allow_no_auth" \notin DOMAIN Layers[j]
    OBVIOUS
  <2> QED
    BY <1>5, <2>1, <2>2 DEF ToldOpen
<1>6. CASE "allow_no_auth" \notin DOMAIN Layers[1] /\ "allow_no_auth" \in DOMAIN Layers[2]
  <2>1. Layers[2].allow_no_auth
    BY <1>2, <1>4, <1>6
  <2>2. \A j \in 1..(2 - 1) : "allow_no_auth" \notin DOMAIN Layers[j]
    BY <1>6
  <2> QED
    BY <1>6, <2>1, <2>2 DEF ToldOpen
<1>7. CASE /\ "allow_no_auth" \notin DOMAIN Layers[1] /\ "allow_no_auth" \notin DOMAIN Layers[2]
           /\ "allow_no_auth" \in DOMAIN Layers[3]
  <2>1. Layers[3].allow_no_auth
    BY <1>2, <1>4, <1>7
  <2>2. \A j \in 1..(3 - 1) : "allow_no_auth" \notin DOMAIN Layers[j]
    BY <1>7
  <2> QED
    BY <1>7, <2>1, <2>2 DEF ToldOpen
<1> QED
  BY <1>2, <1>4, <1>5, <1>6, <1>7

\* The model of the engine is the one its tables or the flag name.
LEMMA ModelIsTold ==
  ASSUME LaunchInv
  PROVE  OneBackendsModel
<1> SUFFICES ASSUME engine # NoEngine
             PROVE  OneBackendsModel
  BY DEF OneBackendsModel
<1>1. AsTold /\ CallRight /\ engine.backend = config.backend /\ engine.model_dir = config.model_dir
  BY DEF LaunchInv, ConfigRight
<1> DEFINE s == document.services[call.service]
<1> DEFINE b == Chosen(call.flags)
<1>2. config.backend = b /\ b \in DOMAIN s.backends
      /\ "model_dir" \in DOMAIN s.common \union DOMAIN s.backends[b]
  BY <1>1, WhereTold
<1>3. "model_dir" \in DOMAIN call.flags => config.model_dir = call.flags.model_dir
  BY <1>1, WhereTold
<1>4. "model_dir" \notin DOMAIN call.flags =>
         config.model_dir = IF "model_dir" \in DOMAIN s.backends[b] THEN s.backends[b].model_dir ELSE s.common.model_dir
  BY <1>1, WhereTold
<1>5. Layers = <<s.backends[b], s.common, document.defaults>>
  BY <1>1, <1>2 DEF Layers
<1>6. Layers[1] = s.backends[b] /\ Layers[2] = s.common
  BY <1>5
<1> HIDE DEF s, b
<1>7. "model_dir" \notin DOMAIN call.flags =>
        engine.model_dir \in {Layers[i].model_dir : i \in {j \in 1..2 : "model_dir" \in DOMAIN Layers[j]}}
  BY <1>1, <1>2, <1>4, <1>6
<1> QED
  BY <1>1, <1>3, <1>7 DEF OneBackendsModel

\* What leaves the host leaves it for the key, because a table says so, or from
\* an empty host.
LEMMA AnswerIsTold ==
  ASSUME LaunchInv
  PROVE  AnsweredToKey
<1> SUFFICES ASSUME httpReply.beyond, httpReply.path # "readyz", httpReply.status # 401, ~httpReply.keyed,
                    config.host # "empty"
             PROVE  ToldOpen
  BY DEF AnsweredToKey
<1>1. launchAt = "listening"
  BY DEF LaunchInv, CallRight
<1>2. Exposable(config) /\ AsTold /\ engine.backend = config.backend /\ CallRight
  BY <1>1 DEF LaunchInv, ConfigRight
<1>3. config.host # "loopback" /\ config.api_key_file # "key"
  BY DEF LaunchInv, ReplyRight
<1>4. config.allow_no_auth
  BY <1>2, <1>3 DEF Exposable, IsLoopback
<1> QED
  BY <1>2, <1>4, OpenIsTold

\* It starts with nothing called.
LEMMA LaunchBegins == LaunchInit => LaunchInv
<1> SUFFICES ASSUME LaunchInit
             PROVE  LaunchInv
  OBVIOUS
<1>1. CallRight
  BY DEF LaunchInit, CallRight
<1>2. ConfigRight
  BY DEF LaunchInit, ConfigRight
<1>3. ReplyRight
  BY DEF LaunchInit, ReplyRight
<1>4. AdapterQualified
  BY DEF LaunchInit, AdapterQualified
<1> QED
  BY <1>1, <1>2, <1>3, <1>4 DEF LaunchInv

\* Steps after which call, settings, engine and adapter are the same and the
\* command is where it was, or has ended.
LEMMA LaunchEndsOrStays ==
  ASSUME LaunchInv, UNCHANGED <<document, npuHost, call, config, engine, adapter, httpReply>>,
         \/ launchAt' = launchAt
         \/ launchAt # "listening" /\ launchAt' \in {"refused", "raised", "healthy", "unhealthy"}
  PROVE  LaunchInv'
<1>1. AsTold' <=> AsTold
  BY SameTold DEF AsTold
<1>2. CallRight'
  BY DEF LaunchInv, CallRight
<1>3. ConfigRight'
  BY <1>1 DEF LaunchInv, ConfigRight, Exposable, IsLoopback
<1>4. ReplyRight'
  BY DEF LaunchInv, ReplyRight
<1>5. AdapterQualified'
  BY DEF LaunchInv, AdapterQualified, Pin
<1> QED
  BY <1>2, <1>3, <1>4, <1>5 DEF LaunchInv

\* The command line is read once, before anything is loaded.
LEMMA CallKeeps ==
  ASSUME LaunchInv, Call
  PROVE  LaunchInv'
<1>1. launchAt = "idle" /\ launchAt' = "called" /\ UNCHANGED <<config, engine, adapter, httpReply>>
  BY DEF Call
<1>2. engine = NoEngine /\ adapter = NoProfile /\ ~httpReply.beyond
  BY <1>1 DEF LaunchInv, CallRight
<1>3. PICK c \in CommandLines, command \in {"doctor", "serve"} :
        call' = [command |-> command, service |-> c.service,
                 flags |-> IF command = "serve" THEN c.flags ELSE [f \in DOMAIN c.flags \ {"host"} |-> c.flags[f]]]
  BY DEF Call
<1>4. DOMAIN call'.flags \subseteq {"backend", "host", "model_dir"}
  <2>1. DOMAIN c.flags \subseteq {"backend", "host", "model_dir"}
    BY LaunchAssumption
  <2>2. DOMAIN [f \in DOMAIN c.flags \ {"host"} |-> c.flags[f]] \subseteq DOMAIN c.flags
    OBVIOUS
  <2>3. call'.flags = IF command = "serve" THEN c.flags ELSE [f \in DOMAIN c.flags \ {"host"} |-> c.flags[f]]
    BY <1>3
  <2> QED
    BY <2>1, <2>2, <2>3
<1>5. call'.command \in {"doctor", "serve"}
  BY <1>3
<1>6. CallRight'
  BY <1>1, <1>2, <1>4, <1>5 DEF CallRight
<1>7. ConfigRight' /\ ReplyRight' /\ AdapterQualified'
  BY <1>1, <1>2 DEF ConfigRight, ReplyRight, AdapterQualified
<1> QED
  BY <1>6, <1>7 DEF LaunchInv

\* The settings are layered when nothing is loaded yet; serve needs a service.
LEMMA ReadSettingsKeeps ==
  ASSUME LaunchInv, ReadSettings
  PROVE  LaunchInv'
<1>1. launchAt = "called" /\ UNCHANGED <<document, npuHost, call, engine, adapter, httpReply>>
  BY DEF ReadSettings, LaunchHost
<1>2. engine = NoEngine /\ adapter = NoProfile /\ ~httpReply.beyond /\ call.command \in {"doctor", "serve"}
  BY <1>1 DEF LaunchInv, CallRight
<1>3. launchAt' \in {"refused", "doctor", "serve"}
  BY <1>2 DEF ReadSettings
<1>4. CallRight'
  BY <1>1, <1>2, <1>3 DEF LaunchInv, CallRight
<1>5. launchAt' = "serve" => AsTold'
  <2> SUFFICES ASSUME launchAt' = "serve"
               PROVE  AsTold'
    OBVIOUS
  <2>1. SettingsExist /\ call.service # Nothing /\ config' = SettingsTold
    BY <1>2 DEF ReadSettings
  <2> QED
    BY <1>1, <2>1, SameTold DEF AsTold
<1>6. ConfigRight'
  BY <1>1, <1>2, <1>3, <1>5 DEF ConfigRight
<1>7. ReplyRight' /\ AdapterQualified'
  BY <1>1, <1>2 DEF ReplyRight, AdapterQualified
<1> QED
  BY <1>4, <1>6, <1>7 DEF LaunchInv

\* An engine is loaded from what the settings name, and not before they may
\* be served.
LEMMA ServeLoadsKeeps ==
  ASSUME LaunchInv, ServeLoads
  PROVE  LaunchInv'
<1>1. launchAt = "serve" /\ UNCHANGED <<document, npuHost, call, config, adapter, httpReply>>
  BY DEF ServeLoads, LaunchHost
<1>2. AsTold /\ engine = NoEngine /\ adapter = NoProfile /\ ~httpReply.beyond
  BY <1>1 DEF LaunchInv, CallRight, ConfigRight
<1>3. AsTold'
  BY <1>1, <1>2, SameTold DEF AsTold
<1>4. CASE launchAt' = "loaded"
  <2>1. Exposable(config) /\ FilesOf(config.model_dir).revision # 0
        /\ engine' = [backend |-> config.backend, model_dir |-> config.model_dir,
                      revision |-> FilesOf(config.model_dir).revision]
    BY <1>4 DEF ServeLoads
  <2>2. engine'.revision # 0 /\ engine'.backend = config.backend /\ engine'.model_dir = config.model_dir
    BY <2>1
  <2>3. engine' # NoEngine
    BY <2>2 DEF NoEngine
  <2>4. CallRight'
    BY <1>1, <1>2, <1>4 DEF LaunchInv, CallRight
  <2>5. ConfigRight'
    BY <1>1, <1>3, <1>4, <2>1, <2>2, <2>3 DEF ConfigRight, Exposable, IsLoopback
  <2>6. ReplyRight' /\ AdapterQualified'
    BY <1>1, <1>2 DEF ReplyRight, AdapterQualified
  <2> QED
    BY <2>4, <2>5, <2>6 DEF LaunchInv
<1>5. CASE launchAt' # "loaded"
  <2>1. launchAt' \in {"refused", "raised"} /\ UNCHANGED engine
    BY <1>5 DEF ServeLoads
  <2> QED
    BY <1>1, <2>1, LaunchEndsOrStays
<1> QED
  BY <1>4, <1>5

\* The profile that serves is the one pinned for what was loaded.
LEMMA ServeAdapterKeeps ==
  ASSUME LaunchInv, ServeAdapter
  PROVE  LaunchInv'
<1>1. launchAt = "loaded" /\ UNCHANGED <<document, npuHost, call, config, engine, httpReply>>
  BY DEF ServeAdapter, LaunchHost
<1>2. adapter = NoProfile /\ ~httpReply.beyond
  BY <1>1 DEF LaunchInv, CallRight
<1>3. CASE launchAt' = "listening"
  <2>1. \/ UNCHANGED adapter
        \/ ProfileReads(config.model_dir, engine.revision) /\ adapter' = disk[config.model_dir].profile
    BY <1>3 DEF ServeAdapter
  <2>2. adapter' # NoProfile => adapter' = Pin(engine.revision) /\ adapter'.revision = engine.revision
    BY <1>2, <2>1 DEF ProfileReads
  <2>3. AdapterQualified'
    BY <1>1, <2>2 DEF AdapterQualified, Pin
  <2>4. AsTold' <=> AsTold
    BY <1>1, SameTold DEF AsTold
  <2>5. CallRight'
    BY <1>1, <1>2, <1>3 DEF LaunchInv, CallRight
  <2>6. ConfigRight'
    BY <1>1, <1>3, <2>4 DEF LaunchInv, ConfigRight, Exposable, IsLoopback
  <2>7. ReplyRight'
    BY <1>1, <1>2 DEF ReplyRight
  <2> QED
    BY <2>3, <2>5, <2>6, <2>7 DEF LaunchInv
<1>4. CASE launchAt' # "listening"
  <2>1. launchAt' = "refused" /\ UNCHANGED adapter
    BY <1>4 DEF ServeAdapter
  <2> QED
    BY <1>1, <2>1, LaunchEndsOrStays
<1> QED
  BY <1>3, <1>4

\* An answer beyond loopback is given only by a host that listens beyond it.
LEMMA AskKeeps ==
  ASSUME LaunchInv, NEW path, NEW beyond \in BOOLEAN, NEW keyed \in BOOLEAN, Ask(path, beyond, keyed)
  PROVE  LaunchInv'
<1>1. launchAt = "listening" /\ UNCHANGED <<document, npuHost, launchAt, call, config, engine, adapter>>
      /\ (beyond => config.host # "loopback")
  BY DEF Ask, LaunchHost
<1>2. httpReply' = [path |-> path, beyond |-> beyond, keyed |-> keyed,
               status |-> IF path # "readyz" /\ config.api_key_file = "key" /\ ~keyed THEN 401
                          ELSE IF path \in {"decide", "readyz"} /\ adapter = NoProfile THEN 503 ELSE 200]
  BY DEF Ask
<1>3. httpReply'.path = path /\ httpReply'.beyond = beyond /\ httpReply'.keyed = keyed
      /\ (path # "readyz" /\ config.api_key_file = "key" /\ ~keyed => httpReply'.status = 401)
  BY <1>2
<1>4. AsTold' <=> AsTold
  BY <1>1, SameTold DEF AsTold
<1>5. CallRight'
  BY <1>1 DEF LaunchInv, CallRight
<1>6. ConfigRight'
  BY <1>1, <1>4 DEF LaunchInv, ConfigRight, Exposable, IsLoopback
<1>7. ReplyRight'
  BY <1>1, <1>3 DEF ReplyRight
<1>8. AdapterQualified'
  BY <1>1 DEF LaunchInv, AdapterQualified, Pin
<1> QED
  BY <1>5, <1>6, <1>7, <1>8 DEF LaunchInv

\* Every step of a start keeps the invariant.
LEMMA LaunchKeeps == LaunchInv /\ [LaunchNext]_launchVars => LaunchInv'
<1> SUFFICES ASSUME LaunchInv, [LaunchNext]_launchVars
             PROVE  LaunchInv'
  OBVIOUS
<1>1. CASE Replace
  <2>1. UNCHANGED <<document, npuHost, launchAt, call, config, engine, adapter, httpReply>>
    BY <1>1 DEF Replace, LaunchHost
  <2> QED
    BY <2>1, LaunchEndsOrStays
<1>2. CASE Call
  BY <1>2, CallKeeps
<1>3. CASE ReadSettings
  BY <1>3, ReadSettingsKeeps
<1>4. CASE LaunchDoctor
  <2>1. UNCHANGED <<document, npuHost, call, config, engine, adapter, httpReply>>
        /\ launchAt = "doctor" /\ launchAt' \in {"refused", "healthy", "unhealthy"}
    BY <1>4 DEF LaunchDoctor, LaunchHost
  <2> QED
    BY <2>1, LaunchEndsOrStays
<1>5. CASE ServeLoads
  BY <1>5, ServeLoadsKeeps
<1>6. CASE ServeAdapter
  BY <1>6, ServeAdapterKeeps
<1>7. CASE \E path \in {"systemone", "decide", "readyz"}, beyond, keyed \in BOOLEAN : Ask(path, beyond, keyed)
  BY <1>7, AskKeeps
<1>8. CASE UNCHANGED launchVars
  <2>1. UNCHANGED <<document, npuHost, launchAt, call, config, engine, adapter, httpReply>>
    BY <1>8 DEF launchVars
  <2> QED
    BY <2>1, LaunchEndsOrStays
<1> QED
  BY <1>1, <1>2, <1>3, <1>4, <1>5, <1>6, <1>7, <1>8 DEF LaunchNext

\* config.py, cli.py, service.py: whatever the services file, the flags and
\* the host, and whatever is replaced on the disk meanwhile, a service that
\* answers beyond loopback asks for the key, was told not to by its most
\* specific table or was given the empty host, serves the model of its own
\* backend and only a profile made for it.
THEOREM ServesAsTold == LaunchSpec => []LaunchedAsTold
<1>1. LaunchInv => LaunchedAsTold
  BY ModelIsTold, AnswerIsTold DEF LaunchInv, LaunchedAsTold
<1> QED
  BY <1>1, LaunchBegins, LaunchKeeps, PTL DEF LaunchSpec

-----------------------------------------------------------------------------
(* AsrStartup *)

StartTypes ==
  /\ settings \in [slots : Int, queued : Int, connections : Int, threads : Int,
                   backend : {"auto", "mock", "rknn"}, enabled : SUBSET Parts]
  /\ loading \in Seq([does : {"verify", "load"}, part : Parts])

\* The CPUs are those of the list from the pinning on.
CpusRight ==
  /\ cpus.may # {} /\ cpus.may \subseteq Online
  /\ asrAt # "raised" /\ cpus.list # <<>> => cpus.may \subseteq Seen(cpus.list)

\* Once the settings are read they are accepted, again after every override.
SettingsRight ==
  /\ asrAt \in {"env", "command", "told", "verified", "loading", "serving"} => Accepts(settings)
  /\ asrAt \in {"env", "command", "told", "verified", "loading", "serving"} =>
       settings.threads \in Told \/ settings.threads <= Cardinality(cpus.may)
  /\ asrAt \in {"env", "command", "told", "verified", "loading", "serving"} => "asr" \in settings.enabled

\* What is still to load is verified, or will be before it is loaded; what is
\* asked for is loaded, or will be.
LoadingRight ==
  /\ loaded \subseteq verified
  /\ asrAt \in {"start", "pinned", "env", "command", "told", "verified"} => loaded = {}
  /\ asrAt = "loading" =>
       /\ settings.backend = "auto"
       /\ loading # <<>> /\ loading[Len(loading)].does = "load"
       /\ \A i \in DOMAIN loading : loading[i].does = "load" =>
            loading[i].part \in verified \/ \E j \in 1..(i - 1) : loading[j] = Step("verify", loading[i].part)
       /\ settings.enabled = loaded \union {loading[i].part : i \in {k \in DOMAIN loading : loading[k].does = "load"}}
  /\ asrAt = "serving" =>
       loaded = IF settings.backend = "mock" THEN {} ELSE settings.enabled

\* What is verified is intact; what doctor said is what the files are.
ReportRight ==
  /\ verified \subseteq intact
  /\ asrAt \in {"start", "pinned", "env"} => report = "none"
  /\ report = "ok" => asrAt # "refused" /\ settings.backend # "rknn" /\ settings.enabled \subseteq intact
  /\ report = "bad" => ~(settings.enabled \subseteq intact)
  /\ asrAt = "loading" => \A i \in DOMAIN loading : loading[i].part \in settings.enabled

StartInv == StartTypes /\ CpusRight /\ SettingsRight /\ LoadingRight /\ ReportRight

\* A tuple of 1 and one of 1, joined.
LEMMA Join11 ==
  ASSUME NEW a, NEW b
  PROVE  <<a>> \o <<b>> = <<a, b>>
<1> DEFINE S == {a, b}
<1>1. <<a>> \in Seq(S) /\ <<b>> \in Seq(S)
  OBVIOUS
<1>2. <<a>> \o <<b>> \in Seq(S) /\ <<a, b>> \in Seq(S) /\ Len(<<a>> \o <<b>>) = 2 /\ Len(<<a, b>>) = 2
  BY <1>1
<1>3. /\ (<<a>> \o <<b>>)[1] = <<a, b>>[1]
      /\ (<<a>> \o <<b>>)[2] = <<a, b>>[2]
  BY <1>1
<1>4. \A i \in 1..2 : (<<a>> \o <<b>>)[i] = <<a, b>>[i]
  BY <1>3
<1> QED
  BY <1>2, <1>4, SeqEqual

\* A tuple of 1 and one of 2, joined.
LEMMA Join12 ==
  ASSUME NEW a, NEW b, NEW c
  PROVE  <<a>> \o <<b, c>> = <<a, b, c>>
<1> DEFINE S == {a, b, c}
<1>1. <<a>> \in Seq(S) /\ <<b, c>> \in Seq(S)
  OBVIOUS
<1>2. <<a>> \o <<b, c>> \in Seq(S) /\ <<a, b, c>> \in Seq(S) /\ Len(<<a>> \o <<b, c>>) = 3 /\ Len(<<a, b, c>>) = 3
  BY <1>1
<1>3. /\ (<<a>> \o <<b, c>>)[1] = <<a, b, c>>[1]
      /\ (<<a>> \o <<b, c>>)[2] = <<a, b, c>>[2]
      /\ (<<a>> \o <<b, c>>)[3] = <<a, b, c>>[3]
  BY <1>1
<1>4. \A i \in 1..3 : (<<a>> \o <<b, c>>)[i] = <<a, b, c>>[i]
  BY <1>3
<1> QED
  BY <1>2, <1>4, SeqEqual

\* A tuple of 3 and one of 1, joined.
LEMMA Join31 ==
  ASSUME NEW a, NEW b, NEW c, NEW d
  PROVE  <<a, b, c>> \o <<d>> = <<a, b, c, d>>
<1> DEFINE S == {a, b, c, d}
<1>1. <<a, b, c>> \in Seq(S) /\ <<d>> \in Seq(S)
  OBVIOUS
<1>2. <<a, b, c>> \o <<d>> \in Seq(S) /\ <<a, b, c, d>> \in Seq(S) /\ Len(<<a, b, c>> \o <<d>>) = 4 /\ Len(<<a, b, c, d>>) = 4
  BY <1>1
<1>3. /\ (<<a, b, c>> \o <<d>>)[1] = <<a, b, c, d>>[1]
      /\ (<<a, b, c>> \o <<d>>)[2] = <<a, b, c, d>>[2]
      /\ (<<a, b, c>> \o <<d>>)[3] = <<a, b, c, d>>[3]
      /\ (<<a, b, c>> \o <<d>>)[4] = <<a, b, c, d>>[4]
  BY <1>1
<1>4. \A i \in 1..4 : (<<a, b, c>> \o <<d>>)[i] = <<a, b, c, d>>[i]
  BY <1>3
<1> QED
  BY <1>2, <1>4, SeqEqual

\* A tuple of 3 and one of 2, joined.
LEMMA Join32 ==
  ASSUME NEW a, NEW b, NEW c, NEW d, NEW e
  PROVE  <<a, b, c>> \o <<d, e>> = <<a, b, c, d, e>>
<1> DEFINE S == {a, b, c, d, e}
<1>1. <<a, b, c>> \in Seq(S) /\ <<d, e>> \in Seq(S)
  OBVIOUS
<1>2. <<a, b, c>> \o <<d, e>> \in Seq(S) /\ <<a, b, c, d, e>> \in Seq(S) /\ Len(<<a, b, c>> \o <<d, e>>) = 5 /\ Len(<<a, b, c, d, e>>) = 5
  BY <1>1
<1>3. /\ (<<a, b, c>> \o <<d, e>>)[1] = <<a, b, c, d, e>>[1]
      /\ (<<a, b, c>> \o <<d, e>>)[2] = <<a, b, c, d, e>>[2]
      /\ (<<a, b, c>> \o <<d, e>>)[3] = <<a, b, c, d, e>>[3]
      /\ (<<a, b, c>> \o <<d, e>>)[4] = <<a, b, c, d, e>>[4]
      /\ (<<a, b, c>> \o <<d, e>>)[5] = <<a, b, c, d, e>>[5]
  BY <1>1
<1>4. \A i \in 1..5 : (<<a, b, c>> \o <<d, e>>)[i] = <<a, b, c, d, e>>[i]
  BY <1>3
<1> QED
  BY <1>2, <1>4, SeqEqual

\* A tuple of 5 and one of 1, joined.
LEMMA Join51 ==
  ASSUME NEW a, NEW b, NEW c, NEW d, NEW e, NEW f
  PROVE  <<a, b, c, d, e>> \o <<f>> = <<a, b, c, d, e, f>>
<1> DEFINE S == {a, b, c, d, e, f}
<1>1. <<a, b, c, d, e>> \in Seq(S) /\ <<f>> \in Seq(S)
  OBVIOUS
<1>2. <<a, b, c, d, e>> \o <<f>> \in Seq(S) /\ <<a, b, c, d, e, f>> \in Seq(S) /\ Len(<<a, b, c, d, e>> \o <<f>>) = 6 /\ Len(<<a, b, c, d, e, f>>) = 6
  BY <1>1
<1>3. /\ (<<a, b, c, d, e>> \o <<f>>)[1] = <<a, b, c, d, e, f>>[1]
      /\ (<<a, b, c, d, e>> \o <<f>>)[2] = <<a, b, c, d, e, f>>[2]
      /\ (<<a, b, c, d, e>> \o <<f>>)[3] = <<a, b, c, d, e, f>>[3]
      /\ (<<a, b, c, d, e>> \o <<f>>)[4] = <<a, b, c, d, e, f>>[4]
      /\ (<<a, b, c, d, e>> \o <<f>>)[5] = <<a, b, c, d, e, f>>[5]
      /\ (<<a, b, c, d, e>> \o <<f>>)[6] = <<a, b, c, d, e, f>>[6]
  BY <1>1
<1>4. \A i \in 1..6 : (<<a, b, c, d, e>> \o <<f>>)[i] = <<a, b, c, d, e, f>>[i]
  BY <1>3
<1> QED
  BY <1>2, <1>4, SeqEqual

\* A plan loads what is asked for, each part after it was verified.
PlanRight(plan, enabled) ==
  /\ plan \in Seq([does : {"verify", "load"}, part : Parts])
  /\ plan # <<>> /\ plan[Len(plan)].does = "load"
  /\ \A i \in DOMAIN plan : plan[i].part \in enabled
  /\ \A i \in DOMAIN plan : plan[i].does = "load" => \E j \in 1..(i - 1) : plan[j] = Step("verify", plan[i].part)
  /\ \A p \in enabled : \E i \in DOMAIN plan : plan[i].does = "load" /\ plan[i].part = p

\* The plan of _load_backend() is right, whichever passes are wanted.
LEMMA LoadPlanRight ==
  ASSUME settings.enabled \subseteq Parts, "asr" \in settings.enabled
  PROVE  PlanRight(LoadPlan, settings.enabled)
<1> DEFINE V(p) == Step("verify", p)
<1> DEFINE L(p) == Step("load", p)
<1>0. /\ \A p \in Parts : /\ V(p) \in [does : {"verify", "load"}, part : Parts]
                          /\ L(p) \in [does : {"verify", "load"}, part : Parts]
      /\ \A p : V(p).part = p /\ L(p).part = p /\ V(p).does = "verify" /\ L(p).does = "load"
  BY DEF Step
<1>1. CASE "offline" \in settings.enabled /\ "punctuation" \in settings.enabled
  <2> DEFINE plan == <<V("asr"), V("offline"), L("offline"), V("punctuation"), L("punctuation"), L("asr")>>
  <2>0. Steps("offline") = <<V("offline"), L("offline")>>
        /\ Steps("punctuation") = <<V("punctuation"), L("punctuation")>>
    BY <1>1 DEF Steps
  <2>1. LoadPlan = plan
    <3>1. LoadPlan = <<V("asr")>> \o <<V("offline"), L("offline")>> \o <<V("punctuation"), L("punctuation")>> \o <<L("asr")>>
      BY <2>0 DEF LoadPlan
    <3> HIDE DEF V, L
    <3>2. <<V("asr")>> \o <<V("offline"), L("offline")>> = <<V("asr"), V("offline"), L("offline")>>
      BY Join12
    <3>3. <<V("asr"), V("offline"), L("offline")>> \o <<V("punctuation"), L("punctuation")>> = <<V("asr"), V("offline"), L("offline"), V("punctuation"), L("punctuation")>>
      BY Join32
    <3>4. <<V("asr"), V("offline"), L("offline"), V("punctuation"), L("punctuation")>> \o <<L("asr")>> = <<V("asr"), V("offline"), L("offline"), V("punctuation"), L("punctuation"), L("asr")>>
      BY Join51
    <3> QED
      BY <3>1, <3>2, <3>3, <3>4
  <2>2. settings.enabled = {"asr", "offline", "punctuation"}
    BY <1>1 DEF Parts
  <2>3. Len(plan) = 6 /\ DOMAIN plan = 1..6
        /\ plan[1] = V("asr") /\ plan[2] = V("offline") /\ plan[3] = L("offline")
        /\ plan[4] = V("punctuation") /\ plan[5] = L("punctuation") /\ plan[6] = L("asr")
    OBVIOUS
  <2>4. plan \in Seq([does : {"verify", "load"}, part : Parts]) /\ plan # <<>>
    BY <1>0 DEF Parts
  <2> HIDE DEF plan, V, L
  <2>5. plan[Len(plan)].does = "load"
    BY <1>0, <2>3
  <2>6. \A i \in DOMAIN plan : plan[i].part \in {"asr", "offline", "punctuation"}
    BY <1>0, <2>3
  <2>7. \A i \in DOMAIN plan : plan[i].does = "load" => \E j \in 1..(i - 1) : plan[j] = V(plan[i].part)
    BY <1>0, <2>3
  <2>8. \A p \in {"asr", "offline", "punctuation"} : \E i \in DOMAIN plan : plan[i].does = "load" /\ plan[i].part = p
    BY <1>0, <2>3
  <2>9. PlanRight(plan, {"asr", "offline", "punctuation"})
    BY <2>4, <2>5, <2>6, <2>7, <2>8 DEF PlanRight, V
  <2> QED
    BY <2>1, <2>2, <2>9
<1>2. CASE "offline" \in settings.enabled /\ "punctuation" \notin settings.enabled
  <2> DEFINE plan == <<V("asr"), V("offline"), L("offline"), L("asr")>>
  <2>0. Steps("offline") = <<V("offline"), L("offline")>>
        /\ Steps("punctuation") = <<>>
    BY <1>2 DEF Steps
  <2>1. LoadPlan = plan
    <3>1. LoadPlan = <<V("asr")>> \o <<V("offline"), L("offline")>> \o <<>> \o <<L("asr")>>
      BY <2>0 DEF LoadPlan
    <3> HIDE DEF V, L
    <3>2. <<V("asr")>> \o <<V("offline"), L("offline")>> = <<V("asr"), V("offline"), L("offline")>>
      BY Join12
    <3>3. <<V("asr"), V("offline"), L("offline")>> \o <<>> = <<V("asr"), V("offline"), L("offline")>>
      OBVIOUS
    <3>4. <<V("asr"), V("offline"), L("offline")>> \o <<L("asr")>> = <<V("asr"), V("offline"), L("offline"), L("asr")>>
      BY Join31
    <3> QED
      BY <3>1, <3>2, <3>3, <3>4
  <2>2. settings.enabled = {"asr", "offline"}
    BY <1>2 DEF Parts
  <2>3. Len(plan) = 4 /\ DOMAIN plan = 1..4
        /\ plan[1] = V("asr") /\ plan[2] = V("offline") /\ plan[3] = L("offline")
        /\ plan[4] = L("asr")
    OBVIOUS
  <2>4. plan \in Seq([does : {"verify", "load"}, part : Parts]) /\ plan # <<>>
    BY <1>0 DEF Parts
  <2> HIDE DEF plan, V, L
  <2>5. plan[Len(plan)].does = "load"
    BY <1>0, <2>3
  <2>6. \A i \in DOMAIN plan : plan[i].part \in {"asr", "offline"}
    BY <1>0, <2>3
  <2>7. \A i \in DOMAIN plan : plan[i].does = "load" => \E j \in 1..(i - 1) : plan[j] = V(plan[i].part)
    BY <1>0, <2>3
  <2>8. \A p \in {"asr", "offline"} : \E i \in DOMAIN plan : plan[i].does = "load" /\ plan[i].part = p
    BY <1>0, <2>3
  <2>9. PlanRight(plan, {"asr", "offline"})
    BY <2>4, <2>5, <2>6, <2>7, <2>8 DEF PlanRight, V
  <2> QED
    BY <2>1, <2>2, <2>9
<1>3. CASE "offline" \notin settings.enabled /\ "punctuation" \in settings.enabled
  <2> DEFINE plan == <<V("asr"), V("punctuation"), L("punctuation"), L("asr")>>
  <2>0. Steps("offline") = <<>>
        /\ Steps("punctuation") = <<V("punctuation"), L("punctuation")>>
    BY <1>3 DEF Steps
  <2>1. LoadPlan = plan
    <3>1. LoadPlan = <<V("asr")>> \o <<>> \o <<V("punctuation"), L("punctuation")>> \o <<L("asr")>>
      BY <2>0 DEF LoadPlan
    <3> HIDE DEF V, L
    <3>2. <<V("asr")>> \o <<>> = <<V("asr")>>
      OBVIOUS
    <3>3. <<V("asr")>> \o <<V("punctuation"), L("punctuation")>> = <<V("asr"), V("punctuation"), L("punctuation")>>
      BY Join12
    <3>4. <<V("asr"), V("punctuation"), L("punctuation")>> \o <<L("asr")>> = <<V("asr"), V("punctuation"), L("punctuation"), L("asr")>>
      BY Join31
    <3> QED
      BY <3>1, <3>2, <3>3, <3>4
  <2>2. settings.enabled = {"asr", "punctuation"}
    BY <1>3 DEF Parts
  <2>3. Len(plan) = 4 /\ DOMAIN plan = 1..4
        /\ plan[1] = V("asr") /\ plan[2] = V("punctuation") /\ plan[3] = L("punctuation")
        /\ plan[4] = L("asr")
    OBVIOUS
  <2>4. plan \in Seq([does : {"verify", "load"}, part : Parts]) /\ plan # <<>>
    BY <1>0 DEF Parts
  <2> HIDE DEF plan, V, L
  <2>5. plan[Len(plan)].does = "load"
    BY <1>0, <2>3
  <2>6. \A i \in DOMAIN plan : plan[i].part \in {"asr", "punctuation"}
    BY <1>0, <2>3
  <2>7. \A i \in DOMAIN plan : plan[i].does = "load" => \E j \in 1..(i - 1) : plan[j] = V(plan[i].part)
    BY <1>0, <2>3
  <2>8. \A p \in {"asr", "punctuation"} : \E i \in DOMAIN plan : plan[i].does = "load" /\ plan[i].part = p
    BY <1>0, <2>3
  <2>9. PlanRight(plan, {"asr", "punctuation"})
    BY <2>4, <2>5, <2>6, <2>7, <2>8 DEF PlanRight, V
  <2> QED
    BY <2>1, <2>2, <2>9
<1>4. CASE "offline" \notin settings.enabled /\ "punctuation" \notin settings.enabled
  <2> DEFINE plan == <<V("asr"), L("asr")>>
  <2>0. Steps("offline") = <<>>
        /\ Steps("punctuation") = <<>>
    BY <1>4 DEF Steps
  <2>1. LoadPlan = plan
    <3>1. LoadPlan = <<V("asr")>> \o <<>> \o <<>> \o <<L("asr")>>
      BY <2>0 DEF LoadPlan
    <3> HIDE DEF V, L
    <3>2. <<V("asr")>> \o <<>> = <<V("asr")>>
      OBVIOUS
    <3>3. <<V("asr")>> \o <<L("asr")>> = <<V("asr"), L("asr")>>
      BY Join11
    <3> QED
      BY <3>1, <3>2, <3>3
  <2>2. settings.enabled = {"asr"}
    BY <1>4 DEF Parts
  <2>3. Len(plan) = 2 /\ DOMAIN plan = 1..2
        /\ plan[1] = V("asr") /\ plan[2] = L("asr")
    OBVIOUS
  <2>4. plan \in Seq([does : {"verify", "load"}, part : Parts]) /\ plan # <<>>
    BY <1>0 DEF Parts
  <2> HIDE DEF plan, V, L
  <2>5. plan[Len(plan)].does = "load"
    BY <1>0, <2>3
  <2>6. \A i \in DOMAIN plan : plan[i].part \in {"asr"}
    BY <1>0, <2>3
  <2>7. \A i \in DOMAIN plan : plan[i].does = "load" => \E j \in 1..(i - 1) : plan[j] = V(plan[i].part)
    BY <1>0, <2>3
  <2>8. \A p \in {"asr"} : \E i \in DOMAIN plan : plan[i].does = "load" /\ plan[i].part = p
    BY <1>0, <2>3
  <2>9. PlanRight(plan, {"asr"})
    BY <2>4, <2>5, <2>6, <2>7, <2>8 DEF PlanRight, V
  <2> QED
    BY <2>1, <2>2, <2>9
<1> QED
  BY <1>1, <1>2, <1>3, <1>4

\* Of the CPUs left to a service at least one is there to count on.
LEMMA DefaultFits ==
  ASSUME CpusRight
  PROVE  DefaultThreads \in Int /\ DefaultThreads <= Cardinality(cpus.may)
<1> DEFINE n == Cardinality(cpus.may)
<1>1. IsFiniteSet(cpus.may) /\ n \in Nat /\ n # 0
  BY StartAssumption, FS_Subset, FS_CardinalityType, FS_EmptySet DEF CpusRight
<1> HIDE DEF n
<1>2. Min({4, n}) \in {4, n} /\ Min({4, n}) <= n
  <2>1. \E x \in {4, n} : \A y \in {4, n} : x <= y
    BY <1>1
  <2> QED
    BY <2>1 DEF Min
<1> DEFINE m == Min({4, n})
<1>3. m \in Int /\ m <= n /\ 1 <= n
  BY <1>1, <1>2
<1> HIDE DEF m
<1>4. Max({1, m}) \in {1, m}
  <2>1. \E x \in {1, m} : \A y \in {1, m} : x >= y
    BY <1>3
  <2> QED
    BY <2>1 DEF Max
<1>5. DefaultThreads = Max({1, m})
  BY DEF DefaultThreads, m, n
<1> QED
  BY <1>3, <1>4, <1>5 DEF n

\* Nothing is read or loaded before the start.
LEMMA StartBegins == StartInit => StartInv
<1> SUFFICES ASSUME StartInit
             PROVE  StartInv
  OBVIOUS
<1>1. StartTypes
  <2>1. settings = [slots |-> 0, queued |-> 0, connections |-> 0, threads |-> 0, backend |-> "auto", enabled |-> {}]
        /\ loading = <<>>
    BY DEF StartInit, NoSettings
  <2> QED
    BY <2>1 DEF StartTypes
<1>2. CpusRight
  BY StartAssumption DEF StartInit, CpusRight
<1>3. SettingsRight /\ LoadingRight /\ ReportRight
  BY DEF StartInit, SettingsRight, LoadingRight, ReportRight
<1> QED
  BY <1>1, <1>2, <1>3 DEF StartInv

\* Pinning: the CPUs are those of the list that this host has, or main() ends.
LEMMA PinKeeps ==
  ASSUME StartInv, PinUnset \/ PinCpus
  PROVE  StartInv'
<1>1. asrAt = "start" /\ asrAt' \in {"pinned", "raised"} /\ UNCHANGED <<settings, intact, verified, loaded, report>>
      /\ (loading' = loading \/ loading' = <<>>)
  BY DEF PinUnset, PinCpus, Ends, StartUnchanged
<1>2. StartTypes'
  <2>1. CASE loading' = loading
    BY <1>1, <2>1 DEF StartInv, StartTypes
  <2>2. CASE loading' = <<>>
    BY <1>1, <2>2 DEF StartInv, StartTypes
  <2> QED
    BY <1>1, <2>1, <2>2
<1>3. CpusRight'
  <2>1. CASE PinUnset
    BY <2>1 DEF PinUnset, StartInv, CpusRight
  <2>2. CASE PinCpus
    <3>1. PICK list \in CpuLists :
            LET may == ParseCpuList(list) \intersect Online
            IN /\ cpus' = [list |-> list, may |-> IF may = {} THEN cpus.may ELSE may]
               /\ Ends(IF may = {} THEN "raised" ELSE "pinned")
      BY <2>2 DEF PinCpus
    <3> DEFINE may == ParseCpuList(list) \intersect Online
    <3>2. may \subseteq Seen(list)
      BY DEF ParseCpuList, Seen
    <3>3. cpus'.list = list /\ cpus'.may = IF may = {} THEN cpus.may ELSE may
      BY <3>1
    <3>4. may = {} => asrAt' = "raised"
      BY <3>1 DEF Ends
    <3>5. may \subseteq Online
      OBVIOUS
    <3>6. cpus.may # {} /\ cpus.may \subseteq Online
      BY DEF StartInv, CpusRight
    <3> HIDE DEF may
    <3>7. cpus'.may # {} /\ cpus'.may \subseteq Online
      BY <3>3, <3>5, <3>6
    <3>8. asrAt' # "raised" => cpus'.may \subseteq Seen(cpus'.list)
      BY <3>2, <3>3, <3>4
    <3>9. Seen(cpus.list)' = Seen(cpus'.list)
      BY DEF Seen
    <3> QED
      BY <3>7, <3>8, <3>9 DEF CpusRight
  <2> QED
    BY <2>1, <2>2
<1>4. SettingsRight' /\ ReportRight'
  BY <1>1 DEF StartInv, SettingsRight, ReportRight
<1>5. LoadingRight'
  BY <1>1 DEF StartInv, LoadingRight
<1> QED
  BY <1>2, <1>3, <1>4, <1>5 DEF StartInv

\* Reading the environment: what is refused ends main().
LEMMA FromEnvKeeps ==
  ASSUME StartInv, FromEnv
  PROVE  StartInv'
<1>1. asrAt = "pinned" /\ asrAt' \in {"env", "raised"} /\ UNCHANGED <<cpus, intact, verified, loaded, report>> /\ loading' = <<>>
  BY DEF FromEnv, Ends, StartUnchanged
<1>2. PICK l \in Limits, told \in Told, backend \in {"auto", "mock", "rknn"}, more \in SUBSET {"offline", "punctuation"} :
       /\ settings' = [slots |-> l.slots, queued |-> l.queued, connections |-> l.connections,
                       threads |-> IF told = 0 THEN DefaultThreads ELSE told,
                       backend |-> backend, enabled |-> {"asr"} \union more]
       /\ Ends(IF Accepts(l) THEN "env" ELSE "raised")
  BY DEF FromEnv
<1>3. DefaultThreads \in Int /\ DefaultThreads <= Cardinality(cpus.may)
  BY DefaultFits DEF StartInv
<1>4. l.slots \in Int /\ l.queued \in Int /\ l.connections \in Int /\ told \in Int
  BY StartAssumption
<1>5. {"asr"} \union more \subseteq Parts
  BY DEF Parts
<1>6. StartTypes'
  BY <1>1, <1>2, <1>3, <1>4, <1>5 DEF StartTypes
<1>7. settings'.slots = l.slots /\ settings'.queued = l.queued /\ settings'.connections = l.connections
      /\ (settings'.threads = told \/ settings'.threads = DefaultThreads) /\ "asr" \in settings'.enabled
  BY <1>2
<1>8. asrAt' = "env" => Accepts(l)
  BY <1>2 DEF Ends
<1>9. SettingsRight'
  BY <1>1, <1>3, <1>7, <1>8 DEF SettingsRight, Accepts
<1>10. CpusRight'
  BY <1>1 DEF StartInv, CpusRight, Seen, CpusOf
<1>11. LoadingRight' /\ ReportRight'
  BY <1>1 DEF StartInv, LoadingRight, ReportRight
<1> QED
  BY <1>6, <1>9, <1>10, <1>11 DEF StartInv

\* An argument in place of a setting: the limits are looked at again.
LEMMA OverrideKeeps ==
  ASSUME StartInv, Override
  PROVE  StartInv'
<1>1. asrAt = "env" /\ asrAt' \in {"command", "raised"} /\ UNCHANGED <<cpus, intact, verified, loaded, report>> /\ loading' = <<>>
  BY DEF Override, Ends, StartUnchanged
<1> DEFINE T == [slots : Int, queued : Int, connections : Int, threads : Int,
                 backend : {"auto", "mock", "rknn"}, enabled : SUBSET Parts]
<1>2. settings \in T
  BY DEF StartInv, StartTypes
<1>3. \A l \in Limits : l.slots \in Int /\ l.queued \in Int /\ l.connections \in Int
  BY StartAssumption
<1>4. /\ settings' \in {settings} \union {[settings EXCEPT !.slots = l.slots] : l \in Limits}
              \union {[settings EXCEPT !.queued = l.queued] : l \in Limits}
              \union {[settings EXCEPT !.connections = l.connections] : l \in Limits}
              \union {[settings EXCEPT !.backend = b] : b \in {"auto", "mock", "rknn"}}
              \union {[settings EXCEPT !.enabled = @ \ {p}] : p \in {"offline", "punctuation"}}
      /\ Ends(IF Accepts(settings') THEN "command" ELSE "raised")
  BY DEF Override
<1>5. /\ settings' \in T /\ settings'.threads = settings.threads
      /\ ("asr" \in settings.enabled => "asr" \in settings'.enabled)
  <2>1. CASE settings' = settings
    BY <1>2, <2>1
  <2>2. CASE settings' \in {[settings EXCEPT !.slots = l.slots] : l \in Limits}
    BY <1>2, <1>3, <2>2
  <2>3. CASE settings' \in {[settings EXCEPT !.queued = l.queued] : l \in Limits}
    BY <1>2, <1>3, <2>3
  <2>4. CASE settings' \in {[settings EXCEPT !.connections = l.connections] : l \in Limits}
    BY <1>2, <1>3, <2>4
  <2>5. CASE settings' \in {[settings EXCEPT !.backend = b] : b \in {"auto", "mock", "rknn"}}
    BY <1>2, <2>5
  <2>6. CASE settings' \in {[settings EXCEPT !.enabled = @ \ {p}] : p \in {"offline", "punctuation"}}
    BY <1>2, <2>6
  <2> QED
    BY <1>4, <2>1, <2>2, <2>3, <2>4, <2>5, <2>6
<1>6. StartTypes'
  BY <1>1, <1>5 DEF StartTypes
<1>7. asrAt' = "command" => Accepts(settings')
  BY <1>4 DEF Ends
<1>8. Accepts(settings)' <=> Accepts(settings')
  BY DEF Accepts
<1>9. SettingsRight'
  BY <1>1, <1>5, <1>7, <1>8 DEF StartInv, SettingsRight
<1>10. CpusRight'
  BY <1>1 DEF StartInv, CpusRight, Seen, CpusOf
<1>11. LoadingRight' /\ ReportRight'
  BY <1>1 DEF StartInv, LoadingRight, ReportRight
<1> QED
  BY <1>6, <1>9, <1>10, <1>11 DEF StartInv

\* doctor, verify and serve change nothing that was read.
LEMMA CommandKeeps ==
  ASSUME StartInv, Doctor \/ Verify \/ Serve
  PROVE  StartInv'
<1>1. asrAt = "command" /\ UNCHANGED <<cpus, settings, intact, verified, loaded>>
      /\ asrAt' \in {"refused", "told", "verified", "serving", "loading"}
  BY DEF Doctor, Verify, Serve, Ends, StartUnchanged
<1>2. "asr" \in settings.enabled /\ settings.enabled \subseteq Parts
      /\ settings.backend \in {"auto", "mock", "rknn"} /\ loaded = {}
  BY <1>1 DEF StartInv, StartTypes, SettingsRight, LoadingRight
<1>3. PlanRight(LoadPlan, settings.enabled)
  BY <1>2, LoadPlanRight
<1>4. /\ asrAt' = "loading" => loading' = LoadPlan /\ settings.backend = "auto"
      /\ asrAt' # "loading" => loading' = <<>>
  <2>1. CASE Doctor \/ Verify
    BY <2>1 DEF Doctor, Verify, Ends
  <2>2. CASE Serve
    BY <2>2 DEF Serve, Ends
  <2> QED
    BY <2>1, <2>2
<1>5. StartTypes'
  <2>1. CASE asrAt' = "loading"
    BY <1>1, <1>3, <1>4, <2>1 DEF StartInv, StartTypes, PlanRight
  <2>2. CASE asrAt' # "loading"
    BY <1>1, <1>4, <2>2 DEF StartInv, StartTypes
  <2> QED
    BY <2>1, <2>2
<1>6. CpusRight' /\ SettingsRight'
  BY <1>1 DEF StartInv, CpusRight, SettingsRight, Accepts, Seen, CpusOf
<1>7. ReportRight'
  <2>1. report = "ok" => settings.backend # "rknn" /\ settings.enabled \subseteq intact
    BY DEF StartInv, ReportRight
  <2>2. report = "bad" => ~(settings.enabled \subseteq intact)
    BY DEF StartInv, ReportRight
  <2>3. report' = "ok" => asrAt' # "refused" /\ settings.backend # "rknn" /\ settings.enabled \subseteq intact
    <3>1. CASE Doctor
      BY <2>1, <3>1 DEF Doctor, Ends, Resolves
    <3>2. CASE Verify
      BY <2>1, <3>2 DEF Verify, Ends
    <3>3. CASE Serve
      BY <2>1, <3>3 DEF Serve, Ends, Resolves
    <3> QED
      BY <3>1, <3>2, <3>3
  <2>4. report' = "bad" => ~(settings.enabled \subseteq intact)
    <3>1. CASE Doctor
      BY <2>2, <3>1 DEF Doctor
    <3>2. CASE Verify \/ Serve
      BY <2>2, <3>2 DEF Verify, Serve
    <3> QED
      BY <3>1, <3>2
  <2>5. verified \subseteq intact
    BY DEF StartInv, ReportRight
  <2>6. asrAt' = "loading" => \A i \in DOMAIN loading' : loading'[i].part \in settings.enabled
    BY <1>3, <1>4 DEF PlanRight
  <2> QED
    BY <1>1, <2>3, <2>4, <2>5, <2>6 DEF ReportRight
<1>8. asrAt' = "serving" => settings.backend = "mock"
  BY DEF Doctor, Verify, Serve, Ends
<1>9. LoadingRight'
  <2>1. loaded \subseteq verified /\ loaded' = loaded /\ verified' = verified
    BY <1>1 DEF StartInv, LoadingRight
  <2>2. asrAt' = "loading" =>
       /\ settings'.backend = "auto"
       /\ loading' # <<>> /\ loading'[Len(loading')].does = "load"
       /\ \A i \in DOMAIN loading' : loading'[i].does = "load" =>
            loading'[i].part \in verified' \/ \E j \in 1..(i - 1) : loading'[j] = Step("verify", loading'[i].part)
    <3>1. LoadPlan # <<>> /\ LoadPlan[Len(LoadPlan)].does = "load"
      BY <1>3 DEF PlanRight
    <3>2. \A i \in DOMAIN LoadPlan : LoadPlan[i].does = "load" =>
            \E j \in 1..(i - 1) : LoadPlan[j] = Step("verify", LoadPlan[i].part)
      BY <1>3 DEF PlanRight
    <3> SUFFICES ASSUME asrAt' = "loading"
                 PROVE  /\ settings'.backend = "auto"
                        /\ loading' # <<>> /\ loading'[Len(loading')].does = "load"
                        /\ \A i \in DOMAIN loading' : loading'[i].does = "load" =>
                              \E j \in 1..(i - 1) : loading'[j] = Step("verify", loading'[i].part)
      OBVIOUS
    <3>3. loading' = LoadPlan /\ settings' = settings /\ settings.backend = "auto"
      BY <1>1, <1>4
    <3>4. loading' # <<>> /\ loading'[Len(loading')].does = "load"
      BY <3>1, <3>3
    <3>5. \A i \in DOMAIN loading' : loading'[i].does = "load" =>
            \E j \in 1..(i - 1) : loading'[j] = Step("verify", loading'[i].part)
      BY <3>2, <3>3
    <3> QED
      BY <3>3, <3>4, <3>5
  <2>3. asrAt' = "loading" =>
       settings'.enabled = loaded' \union {loading'[i].part : i \in {k \in DOMAIN loading' : loading'[k].does = "load"}}
    <3> DEFINE found == {LoadPlan[i].part : i \in {k \in DOMAIN LoadPlan : LoadPlan[k].does = "load"}}
    <3>1. settings.enabled \subseteq found
      BY <1>3 DEF PlanRight
    <3>2. found \subseteq settings.enabled
      BY <1>3 DEF PlanRight
    <3>3. settings.enabled = loaded \union found
      BY <1>2, <3>1, <3>2
    <3> QED
      BY <1>1, <1>4, <3>3
  <2>4. asrAt' = "serving" => loaded' = IF settings'.backend = "mock" THEN {} ELSE settings'.enabled
    BY <1>1, <1>2, <1>8
  <2>5. loaded' = {}
    BY <1>1, <1>2
  <2> QED
    BY <2>1, <2>2, <2>3, <2>4, <2>5 DEF LoadingRight
<1> QED
  BY <1>5, <1>6, <1>7, <1>9 DEF StartInv

\* The next command starts from what was read.
LEMMA NextCommandKeeps ==
  ASSUME StartInv, NextCommand
  PROVE  StartInv'
<1>1. asrAt \in {"told", "verified"} /\ asrAt' = "command"
      /\ UNCHANGED <<cpus, settings, intact, verified, loaded, loading, report>>
  BY DEF NextCommand, StartUnchanged
<1>2. StartTypes' /\ ReportRight'
  BY <1>1 DEF StartInv, StartTypes, ReportRight
<1>3. CpusRight'
  BY <1>1 DEF StartInv, CpusRight, Seen, CpusOf
<1>4. SettingsRight' /\ LoadingRight'
  BY <1>1 DEF StartInv, SettingsRight, LoadingRight, Accepts
<1> QED
  BY <1>2, <1>3, <1>4 DEF StartInv

\* What is left of a plan.
LEMMA RestOfPlan ==
  ASSUME NEW S, NEW s \in Seq(S), s # <<>>
  PROVE  /\ Tail(s) \in Seq(S) /\ Len(s) \in Nat /\ Len(s) >= 1 /\ Len(Tail(s)) = Len(s) - 1
         /\ Head(s) = s[1] /\ \A i \in DOMAIN Tail(s) : i + 1 \in DOMAIN s /\ Tail(s)[i] = s[i + 1]
         /\ \A i \in DOMAIN s : i # 1 => i - 1 \in DOMAIN Tail(s) /\ Tail(s)[i - 1] = s[i]
         /\ DOMAIN s = 1..Len(s) /\ DOMAIN Tail(s) = 1..(Len(s) - 1)
<1>1. Tail(s) \in Seq(S) /\ Len(s) \in Nat /\ Len(s) >= 1 /\ Len(Tail(s)) = Len(s) - 1 /\ Head(s) = s[1]
  OBVIOUS
<1>2. DOMAIN s = 1..Len(s) /\ DOMAIN Tail(s) = 1..(Len(s) - 1)
  BY <1>1
<1>3. \A i \in 1..(Len(s) - 1) : Tail(s)[i] = s[i + 1]
  OBVIOUS
<1>4. \A i \in DOMAIN Tail(s) : i + 1 \in DOMAIN s /\ Tail(s)[i] = s[i + 1]
  BY <1>1, <1>2, <1>3
<1>5. \A i \in DOMAIN s : i # 1 => i - 1 \in DOMAIN Tail(s) /\ Tail(s)[i - 1] = s[i]
  <2> SUFFICES ASSUME NEW i \in DOMAIN s, i # 1
               PROVE  i - 1 \in DOMAIN Tail(s) /\ Tail(s)[i - 1] = s[i]
    OBVIOUS
  <2>1. i \in 1..Len(s) /\ i - 1 \in 1..(Len(s) - 1) /\ (i - 1) + 1 = i
    BY <1>1, <1>2
  <2> QED
    BY <1>2, <1>3, <2>1
<1> QED
  BY <1>1, <1>2, <1>4, <1>5

\* A part that is verified may be loaded from then on.
LEMMA VerifyNextKeeps ==
  ASSUME StartInv, VerifyNext
  PROVE  StartInv'
<1> DEFINE S == [does : {"verify", "load"}, part : Parts]
<1> DEFINE h == Head(loading)
<1>1. asrAt = "loading" /\ h.does = "verify" /\ UNCHANGED <<cpus, settings, intact, loaded, report>>
  BY DEF VerifyNext
<1>2. loading \in Seq(S) /\ loading # <<>> /\ loading[Len(loading)].does = "load" /\ loaded \subseteq verified
  BY <1>1 DEF StartInv, StartTypes, LoadingRight
<1>3. /\ settings.backend = "auto"
      /\ \A i \in DOMAIN loading : loading[i].does = "load" =>
           loading[i].part \in verified \/ \E j \in 1..(i - 1) : loading[j] = Step("verify", loading[i].part)
      /\ settings.enabled = loaded \union {loading[i].part : i \in {k \in DOMAIN loading : loading[k].does = "load"}}
  BY <1>1 DEF StartInv, LoadingRight
<1>4. CASE h.part \in intact
  <2>1. verified' = verified \union {h.part} /\ loading' = Tail(loading) /\ asrAt' = "loading"
    BY <1>1, <1>4 DEF VerifyNext
  <2> DEFINE t == Tail(loading)
  <2>2. /\ t \in Seq(S) /\ Len(loading) \in Nat /\ Len(loading) >= 1 /\ Len(t) = Len(loading) - 1
        /\ h = loading[1] /\ DOMAIN loading = 1..Len(loading) /\ DOMAIN t = 1..(Len(loading) - 1)
    BY <1>2, RestOfPlan
  <2>3. /\ \A i \in DOMAIN t : i + 1 \in DOMAIN loading /\ t[i] = loading[i + 1]
        /\ \A i \in DOMAIN loading : i # 1 => i - 1 \in DOMAIN t /\ t[i - 1] = loading[i]
    BY <1>2, RestOfPlan
  <2> HIDE DEF t, h
  <2>4. Len(loading) # 1
    BY <1>1, <1>2, <2>2
  <2>5. t # <<>> /\ t[Len(t)].does = "load"
    BY <1>2, <2>2, <2>3, <2>4
  <2>6. \A i \in DOMAIN t : t[i].does = "load" =>
           t[i].part \in verified \union {h.part} \/ \E j \in 1..(i - 1) : t[j] = Step("verify", t[i].part)
    <3> SUFFICES ASSUME NEW i \in DOMAIN t, t[i].does = "load", t[i].part \notin verified \union {h.part}
                 PROVE  \E j \in 1..(i - 1) : t[j] = Step("verify", t[i].part)
      OBVIOUS
    <3>1. i \in Int /\ i + 1 \in DOMAIN loading /\ t[i] = loading[i + 1]
      BY <2>2, <2>3
    <3>2. PICK j \in 1..i : loading[j] = Step("verify", t[i].part)
      BY <1>3, <3>1
    <3>3. j # 1
      BY <2>2, <3>2 DEF Step
    <3>4. j \in DOMAIN loading /\ j - 1 \in DOMAIN t /\ t[j - 1] = loading[j] /\ j - 1 \in 1..(i - 1)
      BY <2>2, <2>3, <3>1, <3>3
    <3> QED
      BY <3>2, <3>4
  <2>7. {t[i].part : i \in {k \in DOMAIN t : t[k].does = "load"}}
        = {loading[i].part : i \in {k \in DOMAIN loading : loading[k].does = "load"}}
    <3>1. \A i \in DOMAIN loading : loading[i].does = "load" => i # 1
      BY <1>1, <2>2
    <3> QED
      BY <2>3, <3>1
  <2>8. StartTypes'
    BY <1>1, <2>1, <2>2 DEF StartInv, StartTypes, t
  <2>9. LoadingRight'
    BY <1>1, <1>2, <1>3, <2>1, <2>5, <2>6, <2>7 DEF LoadingRight, t
  <2>10. CpusRight' /\ SettingsRight'
    BY <1>1, <2>1 DEF StartInv, CpusRight, SettingsRight, Accepts, Seen, CpusOf
  <2>11. ReportRight'
    <3>1. \A i \in DOMAIN loading : loading[i].part \in settings.enabled
      BY <1>1 DEF StartInv, ReportRight
    <3>2. \A i \in DOMAIN t : t[i].part \in settings.enabled
      BY <2>3, <3>1
    <3> QED
      BY <1>1, <1>4, <2>1, <3>2 DEF StartInv, ReportRight, t
  <2> QED
    BY <2>8, <2>9, <2>10, <2>11 DEF StartInv
<1>5. CASE h.part \notin intact
  <2>1. verified' = verified /\ loading' = <<>> /\ asrAt' = "refused"
    BY <1>1, <1>5 DEF VerifyNext, Ends
  <2>2. StartTypes' /\ CpusRight' /\ SettingsRight' /\ LoadingRight'
    BY <1>1, <1>2, <2>1 DEF StartInv, StartTypes, CpusRight, SettingsRight, LoadingRight, Seen, CpusOf
  <2>3. report # "ok"
    <3>1. \A i \in DOMAIN loading : loading[i].part \in settings.enabled
      BY <1>1 DEF StartInv, ReportRight
    <3>2. h.part \in settings.enabled
      BY <1>2, <3>1, RestOfPlan
    <3> QED
      BY <1>5, <3>2 DEF StartInv, ReportRight
  <2>4. ReportRight'
    BY <1>1, <2>1, <2>3 DEF StartInv, ReportRight
  <2> QED
    BY <2>2, <2>4 DEF StartInv
<1> QED
  BY <1>4, <1>5

\* What is loaded was verified; with the last step everything is.
LEMMA LoadNextKeeps ==
  ASSUME StartInv, LoadNext
  PROVE  StartInv'
<1> DEFINE S == [does : {"verify", "load"}, part : Parts]
<1> DEFINE h == Head(loading)
<1> DEFINE t == Tail(loading)
<1>1. asrAt = "loading" /\ h.does = "load" /\ UNCHANGED <<cpus, settings, intact, verified, report>>
      /\ loaded' = loaded \union {h.part} /\ loading' = t /\ asrAt' = IF t = <<>> THEN "serving" ELSE "loading"
  BY DEF LoadNext
<1>2. loading \in Seq(S) /\ loading # <<>> /\ loading[Len(loading)].does = "load" /\ loaded \subseteq verified
  BY <1>1 DEF StartInv, StartTypes, LoadingRight
<1>3. /\ settings.backend = "auto"
      /\ \A i \in DOMAIN loading : loading[i].does = "load" =>
           loading[i].part \in verified \/ \E j \in 1..(i - 1) : loading[j] = Step("verify", loading[i].part)
      /\ settings.enabled = loaded \union {loading[i].part : i \in {k \in DOMAIN loading : loading[k].does = "load"}}
  BY <1>1 DEF StartInv, LoadingRight
<1>4. /\ t \in Seq(S) /\ Len(loading) \in Nat /\ Len(loading) >= 1 /\ Len(t) = Len(loading) - 1
      /\ h = loading[1] /\ DOMAIN loading = 1..Len(loading) /\ DOMAIN t = 1..(Len(loading) - 1)
  BY <1>2, RestOfPlan
<1>5. /\ \A i \in DOMAIN t : i + 1 \in DOMAIN loading /\ t[i] = loading[i + 1]
      /\ \A i \in DOMAIN loading : i # 1 => i - 1 \in DOMAIN t /\ t[i - 1] = loading[i]
  BY <1>2, RestOfPlan
<1> HIDE DEF t, h
<1>6. h.part \in verified
  BY <1>1, <1>3, <1>4
<1>7. settings.enabled = (loaded \union {h.part}) \union {t[i].part : i \in {k \in DOMAIN t : t[k].does = "load"}}
  <2> DEFINE before == {loading[i].part : i \in {k \in DOMAIN loading : loading[k].does = "load"}}
  <2> DEFINE after == {t[i].part : i \in {k \in DOMAIN t : t[k].does = "load"}}
  <2>1. after \subseteq before
    BY <1>5
  <2>2. h.part \in before
    BY <1>1, <1>4
  <2>3. before \subseteq {h.part} \union after
    BY <1>4, <1>5
  <2>4. settings.enabled = loaded \union before
    BY <1>3
  <2> HIDE DEF before, after
  <2>5. settings.enabled = (loaded \union {h.part}) \union after
    BY <2>1, <2>2, <2>3, <2>4
  <2> QED
    BY <2>5 DEF after
<1>8. \A i \in DOMAIN t : t[i].does = "load" =>
         t[i].part \in verified \/ \E j \in 1..(i - 1) : t[j] = Step("verify", t[i].part)
  <2> SUFFICES ASSUME NEW i \in DOMAIN t, t[i].does = "load", t[i].part \notin verified
               PROVE  \E j \in 1..(i - 1) : t[j] = Step("verify", t[i].part)
    OBVIOUS
  <2>1. i \in Int /\ i + 1 \in DOMAIN loading /\ t[i] = loading[i + 1]
    BY <1>4, <1>5
  <2>2. PICK j \in 1..i : loading[j] = Step("verify", t[i].part)
    BY <1>3, <2>1
  <2>3. j # 1
    BY <1>1, <1>4, <2>2 DEF Step
  <2>4. j \in DOMAIN loading /\ j - 1 \in DOMAIN t /\ t[j - 1] = loading[j] /\ j - 1 \in 1..(i - 1)
    BY <1>4, <1>5, <2>1, <2>3
  <2> QED
    BY <2>2, <2>4
<1>9. t # <<>> => t[Len(t)].does = "load"
  <2>1. t # <<>> => Len(t) # 0
    BY <1>4, EmptySeq
  <2>2. Len(loading) # 1 => Len(t) \in DOMAIN t /\ t[Len(t)] = loading[Len(loading)]
    BY <1>4, <1>5
  <2> QED
    BY <1>2, <1>4, <2>1, <2>2
<1>10. t = <<>> => {t[i].part : i \in {k \in DOMAIN t : t[k].does = "load"}} = {}
  OBVIOUS
<1>11. StartTypes'
  BY <1>1, <1>4 DEF StartInv, StartTypes
<1>12. LoadingRight'
  <2>1. loaded' \subseteq verified' /\ asrAt' \in {"serving", "loading"} /\ settings'.backend = "auto"
    BY <1>1, <1>2, <1>3, <1>6
  <2>2. CASE t = <<>>
    <3>1. asrAt' = "serving" /\ loaded' = settings'.enabled
      BY <1>1, <1>7, <1>10, <2>2
    <3> QED
      BY <2>1, <3>1 DEF LoadingRight
  <2>3. CASE t # <<>>
    <3>1. asrAt' = "loading" /\ loading' # <<>> /\ loading'[Len(loading')].does = "load"
      BY <1>1, <1>9, <2>3
    <3>2. \A i \in DOMAIN loading' : loading'[i].does = "load" =>
            loading'[i].part \in verified' \/ \E j \in 1..(i - 1) : loading'[j] = Step("verify", loading'[i].part)
      BY <1>1, <1>8
    <3>3. settings'.enabled
          = loaded' \union {loading'[i].part : i \in {k \in DOMAIN loading' : loading'[k].does = "load"}}
      BY <1>1, <1>7
    <3> QED
      BY <2>1, <3>1, <3>2, <3>3 DEF LoadingRight
  <2> QED
    BY <2>2, <2>3
<1>13. CpusRight' /\ SettingsRight'
  BY <1>1 DEF StartInv, CpusRight, SettingsRight, Accepts, Seen, CpusOf
<1>14. ReportRight'
  <2>1. \A i \in DOMAIN loading : loading[i].part \in settings.enabled
    BY <1>1 DEF StartInv, ReportRight
  <2>2. \A i \in DOMAIN t : t[i].part \in settings.enabled
    BY <1>5, <2>1
  <2> QED
    BY <1>1, <2>2 DEF StartInv, ReportRight
<1> QED
  BY <1>11, <1>12, <1>13, <1>14 DEF StartInv

\* A loader that raises leaves what was loaded, and no plan.
LEMMA LoadFailsKeeps ==
  ASSUME StartInv, LoadFails
  PROVE  StartInv'
<1>1. asrAt = "loading" /\ asrAt' = "failed" /\ loading' = <<>>
      /\ UNCHANGED <<cpus, settings, intact, verified, loaded, report>>
  BY DEF LoadFails, Ends, StartUnchanged
<1>2. StartTypes' /\ LoadingRight' /\ ReportRight'
  BY <1>1 DEF StartInv, StartTypes, LoadingRight, ReportRight
<1>3. CpusRight' /\ SettingsRight'
  BY <1>1 DEF StartInv, CpusRight, SettingsRight, Accepts, Seen, CpusOf
<1> QED
  BY <1>2, <1>3 DEF StartInv

\* Every step of main() keeps the invariant.
LEMMA StartKeeps == StartInv /\ [StartNext]_startVars => StartInv'
<1> SUFFICES ASSUME StartInv, [StartNext]_startVars
             PROVE  StartInv'
  OBVIOUS
<1>1. CASE UNCHANGED startVars
  <2>1. UNCHANGED <<asrAt, cpus, settings, intact, verified, loaded, loading, report>>
    BY <1>1 DEF startVars
  <2>2. StartTypes' /\ CpusRight'
    BY <2>1 DEF StartInv, StartTypes, CpusRight, Seen, CpusOf
  <2>3. SettingsRight' /\ LoadingRight'
    BY <2>1 DEF StartInv, SettingsRight, LoadingRight, Accepts
  <2>4. ReportRight'
    BY <2>1 DEF StartInv, ReportRight
  <2> QED
    BY <2>2, <2>3, <2>4 DEF StartInv
<1> QED
  BY <1>1, PinKeeps, FromEnvKeeps, OverrideKeeps, CommandKeeps, NextCommandKeeps, VerifyNextKeeps,
     LoadNextKeeps, LoadFailsKeeps DEF StartNext

\* cli.py, config.py, artifacts.py: with any host, allocation, environment and
\* arguments, whatever artifacts are damaged and whichever loader raises, the
\* ASR service that serves has accepted limits, runs on CPUs of its list, has
\* loaded all it was asked for and nothing unverified; what doctor called ok is
\* not refused for its files or its backend, and what it called not ok serves
\* at most behind the mock.
THEOREM AsrStartsRight == StartSpec => [](ServesAsConfigured /\ DoctorTellsOfFiles)
<1>1. StartInv => ServesAsConfigured
  BY DEF StartInv, CpusRight, SettingsRight, LoadingRight, ServesAsConfigured
<1>2. StartInv => DoctorTellsOfFiles
  BY DEF StartInv, LoadingRight, ReportRight, DoctorTellsOfFiles
<1> QED
  BY <1>1, <1>2, StartBegins, StartKeeps, PTL DEF StartSpec

-----------------------------------------------------------------------------
(* NpuRuntime *)

NpuContexts == [at : {v.at : v \in places}, core : NpuCores, bucket : compiled, dup : BOOLEAN]

NpuTypes ==
  /\ IsFiniteSet(compiled)
  /\ rt \in Seq(NpuContexts) /\ alive \subseteq NpuContexts
  /\ hand = NoContext \/ hand \in NpuContexts
  /\ toLoad \subseteq places
  /\ \A v \in places : v.core \in NpuCores /\ v.bucket \in compiled
  /\ npuAt \in {"refused", "loading", "unwinding", "failed", "ready", "abandoned"}
  /\ hand # NoContext => npuAt = "loading"

\* A context is told by its visit: no two visits are at one place of the loops,
\* the one in hand is of a visit no other context is of, and so is the next.
VisitsRight ==
  /\ \A v, w \in places : v.at = w.at => v = w
  /\ \A x \in alive, v \in toLoad : x.at # v.at
  /\ hand # NoContext =>
       /\ \A x \in alive : x.at = hand.at => x = hand
       /\ hand \notin Held /\ hand \in alive
       /\ \E v \in places : v.at = hand.at /\ OneKey(v, hand)

\* What _rt holds is alive; what it has lost is at a place visited twice.
AliveRight ==
  /\ Held \subseteq alive
  /\ \A x \in alive : x \in Held \/ x = hand \/ \E v \in places : v.at # x.at /\ OneKey(v, x)
  /\ npuAt \in {"failed", "refused"} => rt = <<>>
  /\ npuAt = "refused" => alive = {}

\* _rt has one context of a place, the original of a bucket before the others
\* of it; every duplicate it holds has an original, and no bucket has two.
OriginalsFirst ==
  /\ \A i, j \in DOMAIN rt : OneKey(rt[i], rt[j]) => i = j
  /\ \A i, j \in DOMAIN rt : ~rt[j].dup /\ rt[i].bucket = rt[j].bucket => j <= i
  /\ \A i \in DOMAIN rt : rt[i].dup => \E y \in alive : ~y.dup /\ y.bucket = rt[i].bucket
  /\ \A x, y \in alive : ~x.dup /\ ~y.dup /\ x.bucket = y.bucket => x = y
  /\ hand # NoContext =>
       IF hand.dup THEN \E y \in alive : ~y.dup /\ y.bucket = hand.bucket
       ELSE \A j \in DOMAIN rt : rt[j].bucket # hand.bucket

\* Every bucket has a context, or has still to be visited; and until something
\* fails a bucket that has one has one in _rt.
AllPlaced ==
  /\ npuAt \in {"loading", "ready", "abandoned"} =>
       /\ compiled \subseteq Placed(toLoad) \union {x.bucket : x \in alive}
       /\ \A x \in alive : x = hand \/ First(x.bucket)
  /\ npuAt \in {"ready", "abandoned"} => toLoad = {} /\ hand = NoContext

NpuInv == NpuTypes /\ VisitsRight /\ AliveRight /\ OriginalsFirst /\ AllPlaced

\* NoContext is no context.
LEMMA NoContextIsNone == NoContext \notin NpuContexts
BY DEF NoContext, NpuContexts, NpuCores

\* The sequence with one more context.
LEMMA OneMore ==
  ASSUME NEW S, NEW s \in Seq(S), NEW x \in S
  PROVE  /\ Append(s, x) \in Seq(S) /\ Len(s) \in Nat /\ DOMAIN s = 1..Len(s)
         /\ DOMAIN Append(s, x) = DOMAIN s \union {Len(s) + 1}
         /\ \A i \in DOMAIN s : Append(s, x)[i] = s[i] /\ i # Len(s) + 1 /\ i < Len(s) + 1
         /\ Append(s, x)[Len(s) + 1] = x
  OBVIOUS

\* The sequence without its last context.
LEMMA OneLess ==
  ASSUME NEW S, NEW s \in Seq(S), s # <<>>
  PROVE  /\ Front(s) \in Seq(S) /\ Len(s) \in DOMAIN s /\ Last(s) = s[Len(s)]
         /\ DOMAIN s = DOMAIN Front(s) \union {Len(s)}
         /\ \A i \in DOMAIN Front(s) : Front(s)[i] = s[i] /\ i # Len(s) /\ i < Len(s)
<1>1. Len(s) \in Nat /\ Len(s) >= 1 /\ DOMAIN s = 1..Len(s)
  OBVIOUS
<1>2. Front(s) = SubSeq(s, 1, Len(s) - 1) /\ Last(s) = s[Len(s)]
  BY DEF Front, Last
<1>3. SubSeq(s, 1, Len(s) - 1) \in Seq(S) /\ DOMAIN SubSeq(s, 1, Len(s) - 1) = 1..(Len(s) - 1)
      /\ \A i \in 1..(Len(s) - 1) : SubSeq(s, 1, Len(s) - 1)[i] = s[i]
  BY <1>1
<1> QED
  BY <1>1, <1>2, <1>3

\* The sequence with one context in the place of another.
LEMMA OneOther ==
  ASSUME NEW S, NEW s \in Seq(S), NEW x \in S, NEW j \in DOMAIN s
  PROVE  /\ [s EXCEPT ![j] = x] \in Seq(S) /\ DOMAIN [s EXCEPT ![j] = x] = DOMAIN s
         /\ [s EXCEPT ![j] = x][j] = x
         /\ \A i \in DOMAIN s : i # j => [s EXCEPT ![j] = x][i] = s[i]
  OBVIOUS

\* Nothing is loaded, and all that is to be loaded has its place.
LEMMA NpuBegins == NpuInit => NpuInv
<1> SUFFICES ASSUME NpuInit
             PROVE  NpuInv
  OBVIOUS
<1>1. compiled \in CompiledSets /\ rt = <<>> /\ hand = NoContext /\ alive = {}
  BY DEF NpuInit
<1>2. PICK text \in PlacementTexts :
       LET parts == IF text = <<>> THEN DefaultParts ELSE text
           bad == \E i \in DOMAIN text : BadPart(text[i])
           visits == IF bad THEN {} ELSE Visits(parts, compiled)
       IN  /\ places = visits /\ toLoad = visits
           /\ npuAt = IF bad \/ compiled = {} \/ compiled # Placed(visits)
                      THEN "refused" ELSE "loading"
  BY DEF NpuInit
<1> DEFINE parts == IF text = <<>> THEN DefaultParts ELSE text
<1> DEFINE bad == \E i \in DOMAIN text : BadPart(text[i])
<1>3. npuAt \in {"refused", "loading"} /\ (npuAt = "loading" => compiled = Placed(toLoad)) /\ toLoad = places
  BY <1>2
<1>4. /\ \A v \in places : v.core \in NpuCores /\ v.bucket \in compiled
      /\ \A v, w \in places : v.at = w.at => v = w
  <2>1. CASE bad
    BY <1>2, <2>1
  <2>2. CASE ~bad
    <3>1. \A i \in DOMAIN parts : parts[i].core \in NpuCores
      BY <2>2, NpuAssumption DEF BadPart, NpuCores
    <3>2. places = Visits(parts, compiled)
      BY <1>2, <2>2
    <3> HIDE DEF parts
    <3>3. \A v \in Visits(parts, compiled) : v.core \in NpuCores /\ v.bucket \in compiled
      BY <3>1 DEF Visits
    <3>4. \A v \in Visits(parts, compiled) : \E i, k :
            v = [at |-> <<i, k>>, core |-> parts[i].core, bucket |-> LastPart(parts, parts[i].core)[k]]
      BY DEF Visits
    <3>5. ASSUME NEW v \in Visits(parts, compiled), NEW w \in Visits(parts, compiled), v.at = w.at
          PROVE  v = w
      <4>1. PICK i, k : v = [at |-> <<i, k>>, core |-> parts[i].core, bucket |-> LastPart(parts, parts[i].core)[k]]
        BY <3>4
      <4>2. PICK m, n : w = [at |-> <<m, n>>, core |-> parts[m].core, bucket |-> LastPart(parts, parts[m].core)[n]]
        BY <3>4
      <4>3. <<i, k>> = <<m, n>>
        BY <3>5, <4>1, <4>2
      <4>4. i = m /\ k = n
        BY <4>3
      <4> QED
        BY <4>1, <4>2, <4>4
    <3> QED
      BY <3>2, <3>3, <3>5
  <2> QED
    BY <2>1, <2>2
<1>5. NpuTypes
  BY <1>1, <1>3, <1>4, NpuAssumption DEF NpuTypes
<1>6. AliveRight /\ OriginalsFirst /\ VisitsRight
  BY <1>1, <1>3, <1>4 DEF AliveRight, OriginalsFirst, VisitsRight, Held
<1>7. AllPlaced
  BY <1>1, <1>3 DEF AllPlaced
<1> QED
  BY <1>5, <1>6, <1>7 DEF NpuInv

\* A context is made for the next place: an original if its bucket has none,
\* a duplicate if it has one.
LEMMA TakeKeeps ==
  ASSUME NpuInv, NEW v \in toLoad, NEW dup \in BOOLEAN, dup <=> First(v.bucket), Take(v, dup)
  PROVE  NpuInv'
<1>1. npuAt = "loading" /\ hand = NoContext /\ npuAt' = npuAt /\ rt' = rt /\ compiled' = compiled /\ places' = places
      /\ hand' = [at |-> v.at, core |-> v.core, bucket |-> v.bucket, dup |-> dup] /\ alive' = alive \union {hand'}
      /\ toLoad' = toLoad \ {v}
  BY DEF Take
<1>2. v \in places /\ v.core \in NpuCores /\ v.bucket \in compiled /\ toLoad \subseteq places
  BY DEF NpuInv, NpuTypes
<1>3. /\ hand' \in NpuContexts /\ hand'.bucket = v.bucket /\ hand'.dup = dup /\ hand'.core = v.core /\ hand'.at = v.at
      /\ NpuContexts' = NpuContexts /\ Held' = Held /\ NoContext' = NoContext
  BY <1>1, <1>2 DEF NpuContexts, Held
<1>4. hand' # NoContext
  BY <1>3, NoContextIsNone
<1>5. NpuTypes'
  BY <1>1, <1>2, <1>3 DEF NpuInv, NpuTypes
<1>6. Held \subseteq alive /\ \A x \in alive : x.at # v.at
  BY DEF NpuInv, AliveRight, VisitsRight
<1>7. VisitsRight'
  <2>1. \A a, b \in places : a.at = b.at => a = b
    BY DEF NpuInv, VisitsRight
  <2>2. \A x \in alive', w \in toLoad' : x.at # w.at
    <3> SUFFICES ASSUME NEW x \in alive', NEW w \in toLoad', x.at = w.at
                 PROVE  FALSE
      OBVIOUS
    <3>1. w \in toLoad /\ w # v /\ w \in places
      BY <1>1, <1>2
    <3>2. CASE x \in alive
      BY <3>1, <3>2 DEF NpuInv, VisitsRight
    <3>3. CASE x = hand'
      BY <1>2, <1>3, <2>1, <3>1, <3>3
    <3> QED
      BY <1>1, <3>2, <3>3
  <2>3. \A x \in alive' : x.at = hand'.at => x = hand'
    BY <1>1, <1>3, <1>6
  <2>4. hand' \notin Held' /\ hand' \in alive'
    BY <1>1, <1>3, <1>6
  <2>5. \E w \in places' : w.at = hand'.at /\ OneKey(w, hand')
    BY <1>1, <1>2, <1>3 DEF OneKey
  <2>6. \E w \in places' : w.at = hand'.at /\ OneKey(w, hand)'
    BY <2>5 DEF OneKey
  <2> QED
    BY <1>1, <2>1, <2>2, <2>3, <2>4, <2>6 DEF VisitsRight
<1>8. AliveRight'
  <2>1. \A x \in alive : x \in Held \/ \E w \in places : w.at # x.at /\ OneKey(w, x)
    BY <1>1, NoContextIsNone DEF NpuInv, NpuTypes, AliveRight
  <2> QED
    BY <1>1, <1>3, <1>6, <2>1 DEF AliveRight, OneKey
<1>9. dup => \E y \in alive : ~y.dup /\ y.bucket = v.bucket
  <2> SUFFICES ASSUME dup
               PROVE  \E y \in alive : ~y.dup /\ y.bucket = v.bucket
    OBVIOUS
  <2>1. PICK i \in DOMAIN rt : rt[i].bucket = v.bucket
    BY DEF First
  <2>2. rt[i] \in alive
    BY <1>6 DEF Held
  <2>3. rt[i].dup => \E y \in alive : ~y.dup /\ y.bucket = rt[i].bucket
    BY DEF NpuInv, OriginalsFirst
  <2> QED
    BY <2>1, <2>2, <2>3
<1>10. ~dup => (\A j \in DOMAIN rt : rt[j].bucket # v.bucket) /\ \A x \in alive : x.bucket # v.bucket
  <2>1. \A x \in alive : First(x.bucket)
    BY <1>1, NoContextIsNone DEF NpuInv, NpuTypes, AllPlaced
  <2> QED
    BY <2>1 DEF First
<1>11. OriginalsFirst'
  <2>1. /\ \A i, j \in DOMAIN rt : OneKey(rt[i], rt[j]) => i = j
        /\ \A i, j \in DOMAIN rt : ~rt[j].dup /\ rt[i].bucket = rt[j].bucket => j <= i
        /\ \A i \in DOMAIN rt : rt[i].dup => \E y \in alive : ~y.dup /\ y.bucket = rt[i].bucket
        /\ \A x, y \in alive : ~x.dup /\ ~y.dup /\ x.bucket = y.bucket => x = y
    BY DEF NpuInv, OriginalsFirst
  <2>2. \A x, y \in alive' : ~x.dup /\ ~y.dup /\ x.bucket = y.bucket => x = y
    BY <1>1, <1>3, <1>10, <2>1
  <2>3. IF hand'.dup THEN \E y \in alive' : ~y.dup /\ y.bucket = hand'.bucket
        ELSE \A j \in DOMAIN rt' : rt'[j].bucket # hand'.bucket
    BY <1>1, <1>3, <1>9, <1>10
  <2>4. \A i \in DOMAIN rt' : rt'[i].dup => \E y \in alive' : ~y.dup /\ y.bucket = rt'[i].bucket
    BY <1>1, <2>1
  <2>5. \A i, j \in DOMAIN rt' : OneKey(rt[i], rt[j])' => i = j
    BY <1>1, <2>1 DEF OneKey
  <2> QED
    BY <1>1, <2>1, <2>2, <2>3, <2>4, <2>5 DEF OriginalsFirst
<1>12. AllPlaced'
  <2>1. compiled \subseteq Placed(toLoad) \union {x.bucket : x \in alive}
    BY <1>1 DEF NpuInv, AllPlaced
  <2>2. Placed(toLoad) \subseteq Placed(toLoad \ {v}) \union {v.bucket}
    BY DEF Placed
  <2>3. v.bucket \in {x.bucket : x \in alive'} /\ {x.bucket : x \in alive} \subseteq {x.bucket : x \in alive'}
    BY <1>1, <1>3
  <2>4. Placed(toLoad)' = Placed(toLoad \ {v})
    BY <1>1 DEF Placed
  <2>5. compiled' \subseteq Placed(toLoad)' \union {x.bucket : x \in alive'}
    BY <1>1, <2>1, <2>2, <2>3, <2>4
  <2>6. \A x \in alive' : x = hand' \/ First(x.bucket)'
    <3>1. \A x \in alive : First(x.bucket)
      BY <1>1, NoContextIsNone DEF NpuInv, NpuTypes, AllPlaced
    <3> QED
      BY <1>1, <3>1 DEF First
  <2> QED
    BY <1>1, <2>5, <2>6 DEF AllPlaced
<1> QED
  BY <1>5, <1>7, <1>8, <1>11, <1>12 DEF NpuInv

\* The context in hand goes into _rt, behind the others or over the one that
\* was at its place, which is alive and lost from here on.
LEMMA ConfigureKeeps ==
  ASSUME NpuInv, Configure
  PROVE  NpuInv'
<1>1. npuAt = "loading" /\ hand # NoContext /\ hand' = NoContext /\ UNCHANGED <<compiled, places, toLoad, alive, npuAt>>
      /\ NpuContexts' = NpuContexts
  BY DEF Configure, NpuContexts
<1>2. hand \in NpuContexts /\ rt \in Seq(NpuContexts)
  BY <1>1 DEF NpuInv, NpuTypes
<1>3. /\ hand \in alive /\ hand \notin Held /\ Held \subseteq alive
      /\ \A x \in alive : x.at = hand.at => x = hand
      /\ \E v \in places : v.at = hand.at /\ OneKey(v, hand)
  BY <1>1 DEF NpuInv, VisitsRight, AliveRight
<1>4. /\ \A i, j \in DOMAIN rt : OneKey(rt[i], rt[j]) => i = j
      /\ \A i, j \in DOMAIN rt : ~rt[j].dup /\ rt[i].bucket = rt[j].bucket => j <= i
      /\ \A i \in DOMAIN rt : rt[i].dup => \E y \in alive : ~y.dup /\ y.bucket = rt[i].bucket
      /\ \A x, y \in alive : ~x.dup /\ ~y.dup /\ x.bucket = y.bucket => x = y
      /\ hand.dup => \E y \in alive : ~y.dup /\ y.bucket = hand.bucket
      /\ ~hand.dup => \A j \in DOMAIN rt : rt[j].bucket # hand.bucket
  BY <1>1 DEF NpuInv, OriginalsFirst
<1>5. /\ \A x \in alive : x \in Held \/ x = hand \/ \E v \in places : v.at # x.at /\ OneKey(v, x)
      /\ compiled \subseteq Placed(toLoad) \union {x.bucket : x \in alive}
      /\ \A x \in alive : x = hand \/ \E i \in DOMAIN rt : rt[i].bucket = x.bucket
  BY <1>1 DEF NpuInv, AliveRight, AllPlaced, First
<1>6. DOMAIN rt = 1..Len(rt) /\ Len(rt) \in Nat
  BY <1>2
<1>7. SUFFICES /\ rt' \in Seq(NpuContexts)
               /\ Held' \subseteq alive
               /\ \A x \in alive : x \in Held' \/ \E v \in places : v.at # x.at /\ OneKey(v, x)
               /\ \A i, j \in DOMAIN rt' : OneKey(rt'[i], rt'[j]) => i = j
               /\ \A i, j \in DOMAIN rt' : ~rt'[j].dup /\ rt'[i].bucket = rt'[j].bucket => j <= i
               /\ \A i \in DOMAIN rt' : rt'[i].dup => \E y \in alive : ~y.dup /\ y.bucket = rt'[i].bucket
               /\ \A x \in alive : \E i \in DOMAIN rt' : rt'[i].bucket = x.bucket
  <2>1. NpuTypes'
    BY <1>1, <1>7 DEF NpuInv, NpuTypes
  <2>2. VisitsRight'
    BY <1>1 DEF NpuInv, VisitsRight
  <2>3. AliveRight'
    <3>1. \A x \in alive : (\E v \in places : v.at # x.at /\ OneKey(v, x)) => \E v \in places' : v.at # x.at /\ OneKey(v, x)'
      BY <1>1 DEF OneKey
    <3>2. \A x \in alive' : x \in Held' \/ \E v \in places' : v.at # x.at /\ OneKey(v, x)'
      BY <1>1, <1>7, <3>1
    <3> QED
      BY <1>1, <1>7, <3>2 DEF AliveRight, OneKey
  <2>4. OriginalsFirst'
    BY <1>1, <1>4, <1>7 DEF OriginalsFirst, OneKey
  <2>5. AllPlaced'
    BY <1>1, <1>5, <1>7 DEF AllPlaced, First, Placed
  <2> QED
    BY <2>1, <2>2, <2>3, <2>4, <2>5 DEF NpuInv
<1>8. CASE (\A j \in DOMAIN rt : ~OneKey(rt[j], hand)) /\ rt' = Append(rt, hand)
  <2> DEFINE n == Len(rt) + 1
  <2>1. /\ rt' \in Seq(NpuContexts)
        /\ DOMAIN rt' = DOMAIN rt \union {n} /\ rt'[n] = hand
        /\ \A i \in DOMAIN rt : rt'[i] = rt[i] /\ i # n /\ i < n
    BY <1>2, <1>8, OneMore
  <2> HIDE DEF n
  <2>2. Held' = Held \union {hand}
    BY <2>1 DEF Held
  <2>3. \A i, j \in DOMAIN rt' : OneKey(rt'[i], rt'[j]) => i = j
    BY <1>4, <1>8, <2>1 DEF OneKey
  <2>4. \A i, j \in DOMAIN rt' : ~rt'[j].dup /\ rt'[i].bucket = rt'[j].bucket => j <= i
    <3>1. n \in Int /\ DOMAIN rt \subseteq Int
      BY <1>6, <2>1 DEF n
    <3> QED
      BY <1>4, <2>1, <3>1
  <2>5. \A i \in DOMAIN rt' : rt'[i].dup => \E y \in alive : ~y.dup /\ y.bucket = rt'[i].bucket
    BY <1>4, <2>1
  <2>6. \A x \in alive : \E i \in DOMAIN rt' : rt'[i].bucket = x.bucket
    BY <1>5, <2>1
  <2> QED
    BY <1>3, <1>5, <2>1, <2>2, <2>3, <2>4, <2>5, <2>6
<1>9. CASE \E j \in DOMAIN rt : OneKey(rt[j], hand) /\ rt' = [rt EXCEPT ![j] = hand]
  <2>1. PICK j \in DOMAIN rt : OneKey(rt[j], hand) /\ rt' = [rt EXCEPT ![j] = hand]
    BY <1>9
  <2>2. /\ rt' \in Seq(NpuContexts) /\ DOMAIN rt' = DOMAIN rt /\ rt'[j] = hand
        /\ \A i \in DOMAIN rt : i # j => rt'[i] = rt[i]
    BY <1>2, <2>1, OneOther
  <2>3. rt[j].bucket = hand.bucket /\ rt[j].core = hand.core /\ hand.dup
    BY <1>4, <2>1 DEF OneKey
  <2>4. Held' \subseteq alive
    BY <1>3, <2>2 DEF Held
  <2>5. Held \subseteq Held' \union {rt[j]} /\ hand \in Held'
    BY <2>2 DEF Held
  <2>6. \E v \in places : v.at # rt[j].at /\ OneKey(v, rt[j])
    <3>1. PICK v \in places : v.at = hand.at /\ OneKey(v, hand)
      BY <1>3
    <3>2. rt[j] # hand /\ rt[j] \in alive
      BY <1>3 DEF Held
    <3>3. v.at # rt[j].at
      BY <1>3, <3>1, <3>2
    <3> QED
      BY <2>3, <3>1, <3>3 DEF OneKey
  <2>7. \A x \in alive : x \in Held' \/ \E v \in places : v.at # x.at /\ OneKey(v, x)
    BY <1>5, <2>5, <2>6
  <2>8. \A i \in DOMAIN rt : rt'[i].bucket = rt[i].bucket /\ rt'[i].core = rt[i].core /\ (~rt'[i].dup => ~rt[i].dup)
    BY <2>2, <2>3
  <2>9. \A i, k \in DOMAIN rt' : OneKey(rt'[i], rt'[k]) => i = k
    BY <1>4, <2>2, <2>8 DEF OneKey
  <2>10. \A i, k \in DOMAIN rt' : ~rt'[k].dup /\ rt'[i].bucket = rt'[k].bucket => k <= i
    BY <1>4, <2>2, <2>8
  <2>11. \A i \in DOMAIN rt' : rt'[i].dup => \E y \in alive : ~y.dup /\ y.bucket = rt'[i].bucket
    BY <1>4, <2>2
  <2>12. \A x \in alive : \E i \in DOMAIN rt' : rt'[i].bucket = x.bucket
    BY <1>5, <2>2, <2>8
  <2> QED
    BY <2>2, <2>4, <2>7, <2>9, <2>10, <2>11, <2>12
<1> QED
  BY <1>8, <1>9 DEF Configure

\* A failure: the context in hand, if there is one, is closed.
LEMMA FailureKeeps ==
  ASSUME NpuInv, CreateFails \/ ConfigureFails
  PROVE  NpuInv'
<1>1. npuAt = "loading" /\ npuAt' = "unwinding" /\ hand' = NoContext /\ UNCHANGED <<compiled, places, toLoad, rt>>
      /\ NpuContexts' = NpuContexts /\ Held' = Held
  BY DEF CreateFails, ConfigureFails, NpuContexts, Held
<1>2. alive' = alive \ {hand}
  BY NoContextIsNone DEF CreateFails, ConfigureFails, NpuInv, NpuTypes
<1>3. hand \notin Held
  <2>1. CASE hand = NoContext
    BY <2>1, NoContextIsNone DEF NpuInv, NpuTypes, AliveRight
  <2> QED
    BY <2>1 DEF NpuInv, VisitsRight
<1>4. NpuTypes'
  BY <1>1, <1>2 DEF NpuInv, NpuTypes
<1>5. VisitsRight'
  BY <1>1, <1>2 DEF NpuInv, VisitsRight
<1>6. AliveRight'
  <2>1. \A x \in alive' : x \in Held \/ \E v \in places : v.at # x.at /\ OneKey(v, x)
    BY <1>2 DEF NpuInv, AliveRight
  <2>2. Held \subseteq alive'
    BY <1>2, <1>3 DEF NpuInv, AliveRight
  <2> QED
    BY <1>1, <2>1, <2>2 DEF AliveRight, OneKey
<1>7. OriginalsFirst'
  <2>1. \A i \in DOMAIN rt : rt[i].dup => \E y \in alive' : ~y.dup /\ y.bucket = rt[i].bucket
    <3> SUFFICES ASSUME NEW i \in DOMAIN rt, rt[i].dup
                 PROVE  \E y \in alive' : ~y.dup /\ y.bucket = rt[i].bucket
      OBVIOUS
    <3>1. PICK y \in alive : ~y.dup /\ y.bucket = rt[i].bucket
      BY DEF NpuInv, OriginalsFirst
    <3>2. y # hand
      <4>1. CASE hand = NoContext
        BY <4>1, NoContextIsNone DEF NpuInv, NpuTypes
      <4>2. CASE hand # NoContext
        BY <3>1, <4>2 DEF NpuInv, OriginalsFirst
      <4> QED
        BY <4>1, <4>2
    <3> QED
      BY <1>2, <3>1, <3>2
  <2> QED
    BY <1>1, <1>2, <2>1 DEF NpuInv, OriginalsFirst, OneKey
<1>8. AllPlaced'
  BY <1>1 DEF AllPlaced
<1> QED
  BY <1>4, <1>5, <1>6, <1>7, <1>8 DEF NpuInv

\* The last of _rt is closed: no original that somebody in _rt still needs.
LEMMA UnwindKeeps ==
  ASSUME NpuInv, Unwind
  PROVE  NpuInv'
<1>1. /\ npuAt = "unwinding" /\ hand = NoContext /\ UNCHANGED <<compiled, places, toLoad, hand>>
      /\ rt \in Seq(NpuContexts) /\ NpuContexts' = NpuContexts
  BY DEF Unwind, NpuInv, NpuTypes, NpuContexts
<1>2. /\ Held \subseteq alive
      /\ \A x \in alive : x \in Held \/ \E v \in places : v.at # x.at /\ OneKey(v, x)
  BY <1>1, NoContextIsNone DEF NpuInv, NpuTypes, AliveRight
<1>3. CASE rt = <<>>
  <2>1. npuAt' = "failed" /\ UNCHANGED <<rt, alive>> /\ Held' = Held
    BY <1>3 DEF Unwind, Held
  <2>2. NpuTypes' /\ VisitsRight' /\ AllPlaced'
    BY <1>1, <2>1 DEF NpuInv, NpuTypes, VisitsRight, AllPlaced
  <2>3. AliveRight'
    BY <1>1, <1>2, <1>3, <2>1 DEF AliveRight, OneKey
  <2>4. OriginalsFirst'
    BY <1>1, <2>1 DEF NpuInv, OriginalsFirst, OneKey
  <2> QED
    BY <2>2, <2>3, <2>4 DEF NpuInv
<1>4. CASE rt # <<>>
  <2>1. rt' = Front(rt) /\ alive' = alive \ {Last(rt)} /\ npuAt' = npuAt
    BY <1>4 DEF Unwind
  <2> DEFINE n == Len(rt)
  <2>2. /\ rt' \in Seq(NpuContexts) /\ n \in DOMAIN rt /\ Last(rt) = rt[n]
        /\ DOMAIN rt = DOMAIN rt' \union {n}
        /\ \A i \in DOMAIN rt' : rt'[i] = rt[i] /\ i # n /\ i < n
    BY <1>1, <1>4, <2>1, OneLess
  <2> HIDE DEF n
  <2>3. /\ \A i, j \in DOMAIN rt : OneKey(rt[i], rt[j]) => i = j
        /\ \A i, j \in DOMAIN rt : ~rt[j].dup /\ rt[i].bucket = rt[j].bucket => j <= i
        /\ \A i \in DOMAIN rt : rt[i].dup => \E y \in alive : ~y.dup /\ y.bucket = rt[i].bucket
        /\ \A x, y \in alive : ~x.dup /\ ~y.dup /\ x.bucket = y.bucket => x = y
    BY DEF NpuInv, OriginalsFirst
  <2>4. Held' \subseteq alive' /\ Held \subseteq Held' \union {rt[n]}
    <3>1. \A i \in DOMAIN rt' : rt[i] # rt[n]
      BY <2>2, <2>3 DEF OneKey
    <3> QED
      BY <1>2, <2>1, <2>2, <3>1 DEF Held
  <2>5. \A i \in DOMAIN rt' : rt'[i].dup => \E y \in alive' : ~y.dup /\ y.bucket = rt'[i].bucket
    <3> SUFFICES ASSUME NEW i \in DOMAIN rt', rt'[i].dup
                 PROVE  \E y \in alive' : ~y.dup /\ y.bucket = rt'[i].bucket
      OBVIOUS
    <3>1. i \in DOMAIN rt /\ rt'[i] = rt[i] /\ i < n /\ rt[i].dup
      BY <2>2
    <3>2. PICK y \in alive : ~y.dup /\ y.bucket = rt[i].bucket
      BY <2>3, <3>1
    <3>3. y # rt[n]
      <4>1. i \in Int /\ n \in Int
        BY <1>1, <2>2, <3>1
      <4> QED
        BY <2>2, <2>3, <3>1, <3>2, <4>1
    <3> QED
      BY <2>1, <2>2, <3>1, <3>2, <3>3
  <2>6. OriginalsFirst'
    <3>1. \A i, j \in DOMAIN rt' : OneKey(rt[i], rt[j])' => i = j
      BY <2>2, <2>3 DEF OneKey
    <3>2. \A i, j \in DOMAIN rt' : ~rt'[j].dup /\ rt'[i].bucket = rt'[j].bucket => j <= i
      BY <2>2, <2>3
    <3>3. \A x, y \in alive' : ~x.dup /\ ~y.dup /\ x.bucket = y.bucket => x = y
      BY <2>1, <2>3
    <3> QED
      BY <1>1, <2>5, <3>1, <3>2, <3>3 DEF OriginalsFirst
  <2>7. AliveRight'
    <3>1. \A x \in alive' : x \in Held' \/ \E v \in places : v.at # x.at /\ OneKey(v, x)
      BY <1>2, <2>1, <2>2, <2>4
    <3> QED
      BY <1>1, <2>1, <2>4, <3>1 DEF AliveRight, OneKey
  <2>8. NpuTypes' /\ VisitsRight'
    BY <1>1, <2>1, <2>2 DEF NpuInv, NpuTypes, VisitsRight
  <2>9. AllPlaced'
    BY <1>1, <2>1 DEF AllPlaced
  <2> QED
    BY <2>6, <2>7, <2>8, <2>9 DEF NpuInv
<1> QED
  BY <1>3, <1>4

\* Every step keeps the invariant.
LEMMA NpuKeeps == NpuInv /\ [NpuNext]_npuVars => NpuInv'
<1> SUFFICES ASSUME NpuInv, [NpuNext]_npuVars
             PROVE  NpuInv'
  OBVIOUS
<1>1. CASE InitContext
  BY <1>1, TakeKeeps DEF InitContext
<1>2. CASE DupContext
  BY <1>2, TakeKeeps DEF DupContext
<1>3. CASE LoadHeads \/ UNCHANGED npuVars
  <2>1. /\ UNCHANGED <<compiled, places, toLoad, rt, hand, alive>>
        /\ \/ npuAt' = npuAt
           \/ /\ npuAt = "loading" /\ npuAt' \in {"ready", "abandoned"}
              /\ hand = NoContext /\ toLoad = {}
    BY <1>3 DEF LoadHeads, npuVars
  <2>2. NpuContexts' = NpuContexts /\ Held' = Held
    BY <2>1 DEF NpuContexts, Held
  <2>3. NpuTypes'
    BY <2>1, <2>2 DEF NpuInv, NpuTypes
  <2>4. VisitsRight' /\ AliveRight'
    BY <2>1, <2>2 DEF NpuInv, VisitsRight, AliveRight, OneKey
  <2>5. OriginalsFirst' /\ AllPlaced'
    BY <2>1 DEF NpuInv, OriginalsFirst, AllPlaced, Placed, First, OneKey
  <2> QED
    BY <2>3, <2>4, <2>5 DEF NpuInv
<1> QED
  BY <1>1, <1>2, <1>3, ConfigureKeeps, FailureKeeps, UnwindKeeps DEF NpuNext

\* Once all is loaded: one original of every bucket, and no other.
LEMMA OriginalsCounted ==
  ASSUME NpuInv, npuAt \in {"ready", "abandoned"}
  PROVE  {x.bucket : x \in alive} = compiled /\ Cardinality(FirstCopies) = Cardinality(compiled)
<1>1. toLoad = {} /\ hand = NoContext /\ alive \subseteq NpuContexts /\ IsFiniteSet(compiled) /\ Held \subseteq alive
  BY DEF NpuInv, NpuTypes, AliveRight, AllPlaced
<1>2. {x.bucket : x \in alive} = compiled
  <2>1. compiled \subseteq {x.bucket : x \in alive}
    BY <1>1 DEF NpuInv, AllPlaced, Placed
  <2>2. {x.bucket : x \in alive} \subseteq compiled
    BY <1>1 DEF NpuContexts
  <2> QED
    BY <2>1, <2>2
<1>3. \A L \in compiled : \E x \in FirstCopies : x.bucket = L
  <2> SUFFICES ASSUME NEW L \in compiled
               PROVE  \E x \in FirstCopies : x.bucket = L
    OBVIOUS
  <2>1. PICK z \in alive : z.bucket = L
    BY <1>2
  <2>2. First(L)
    BY <1>1, <2>1, NoContextIsNone DEF NpuInv, AllPlaced
  <2>3. PICK i \in DOMAIN rt : rt[i].bucket = L
    BY <2>2 DEF First
  <2>4. rt[i] \in alive
    BY <1>1 DEF Held
  <2>5. rt[i].dup => \E y \in alive : ~y.dup /\ y.bucket = L
    BY <2>3 DEF NpuInv, OriginalsFirst
  <2> QED
    BY <2>3, <2>4, <2>5 DEF FirstCopies
<1>4. \A x, y \in FirstCopies : x.bucket = y.bucket => x = y
  BY DEF NpuInv, OriginalsFirst, FirstCopies
<1>5. \A x \in FirstCopies : x.bucket \in compiled
  BY <1>2 DEF FirstCopies
<1> DEFINE f == [L \in compiled |-> CHOOSE x \in FirstCopies : x.bucket = L]
<1>6. \A L \in compiled : f[L] \in FirstCopies /\ f[L].bucket = L
  BY <1>3
<1>7. \A x \in FirstCopies : f[x.bucket] = x
  BY <1>4, <1>5, <1>6
<1>8. f \in [compiled -> FirstCopies]
  BY <1>6
<1> HIDE DEF f
<1>9. f \in Bijection(compiled, FirstCopies)
  <2>1. \A a, b \in compiled : f[a] = f[b] => a = b
    BY <1>6
  <2>2. \A t \in FirstCopies : \E s \in compiled : f[s] = t
    BY <1>5, <1>7
  <2> QED
    BY <1>8, <2>1, <2>2, Fun_IsBij
<1>10. ExistsBijection(compiled, FirstCopies)
  BY <1>9 DEF ExistsBijection
<1>11. Cardinality(FirstCopies) = Cardinality(compiled)
  BY <1>1, <1>10, FS_Bijection
<1> QED
  BY <1>2, <1>11

\* backends.py, rknn_runtime.py: for any files and placement, repeated buckets
\* included, and whichever call fails: no duplicate in use loses its weights; a
\* load the runtime fails leaves nothing alive but what a repeated bucket pushed
\* out of _rt; and after the loops every bucket is loaded, its weights once,
\* whether or not the heads can be read then.
THEOREM NpuLoadsOrGivesBack == NpuSpec => []NpuLoadSound
<1>1. ASSUME NpuInv
      PROVE  NpuLoadSound
  <2>0. alive \subseteq Held \union {hand} \union Replaced /\ NoContext \notin alive
    <3>1. \A x \in alive : x \in Held \/ x = hand \/ x \in Replaced
      BY <1>1 DEF NpuInv, AliveRight, Replaced, OneKey
    <3> QED
      BY <1>1, <3>1, NoContextIsNone DEF NpuInv, NpuTypes, AliveRight
  <2>1. WeightsUnderDuplicates
    <3> SUFFICES ASSUME NEW x \in alive, x \notin Replaced, x.dup
                 PROVE  \E y \in alive : ~y.dup /\ y.bucket = x.bucket
      BY DEF WeightsUnderDuplicates, FirstCopies
    <3>1. CASE x \in Held
      BY <1>1, <3>1 DEF NpuInv, OriginalsFirst, Held
    <3>2. CASE x = hand
      BY <1>1, <2>0, <3>2 DEF NpuInv, OriginalsFirst
    <3> QED
      BY <2>0, <3>1, <3>2
  <2>2. npuAt = "refused" => alive = {}
    BY <1>1 DEF NpuInv, AliveRight
  <2>3. Replaced \subseteq alive
    BY DEF Replaced
  <2>4. npuAt = "failed" => alive = Replaced
    <3>1. npuAt = "failed" => Held = {} /\ hand = NoContext
      BY <1>1 DEF NpuInv, NpuTypes, AliveRight, Held
    <3> QED
      BY <2>0, <2>3, <3>1
  <2>5. npuAt \in {"ready", "abandoned"} => alive = Held \union Replaced
    <3>1. npuAt \in {"ready", "abandoned"} => hand = NoContext
      BY <1>1 DEF NpuInv, AllPlaced
    <3>2. Held \subseteq alive
      BY <1>1 DEF NpuInv, AliveRight
    <3> QED
      BY <2>0, <2>3, <3>1, <3>2
  <2> QED
    BY <1>1, <2>1, <2>2, <2>4, <2>5, OriginalsCounted DEF NpuLoadSound, LoadedOrGivenBack
<1> QED
  BY <1>1, NpuBegins, NpuKeeps, PTL DEF NpuSpec

-----------------------------------------------------------------------------
(* AsrBackend: who holds the lock *)

\* The lock is held exactly by the thread inside it, and the model has that
\* thread's frontend between the two assignments of infer().
LockInv ==
  /\ \A s \in Sessions : job[s] \in {"model", "leave", "offline"} <=> mutex = s
  /\ frontend = IF mutex # Free /\ job[mutex] \in {"model", "leave"} THEN mutex ELSE Free
  /\ \A s \in Sessions : job[s] \in {"model", "leave"} => previous[s] = Free

\* What every frontend has heard, and what is still to be heard.
HeardInv ==
  /\ \A s \in Sessions : own[s] = s
  /\ \A f \in Sessions \union {Free}, s \in Sessions : f # s => heard[f][s] = 0
  /\ \A s \in Sessions \ raised : heard[s][s] = audio[s] - pending[s] - chunk[s]

\* The places of a call that still has something to pass on.
CallInv ==
  /\ \A s \in raised : job[s] \in {"leave", "failed"}
  /\ \A s \in Sessions :
       job[s] \notin {"infer", "model", "failed"} => chunk[s] = 0 \/ s \in raised
  /\ \A s \in final : pending[s] = 0 /\ job[s] \notin {"none", "idle"}
  /\ \A s \in Sessions :
       job[s] \in {"second", "offline", "punctuate", "restoring", "done"} => s \in final
  /\ \A s \in Sessions :
       job[s] \in {"punctuate", "restoring", "done"} => answer[s].units = audio[s]

BackendInv == BackendTypeOK /\ LockInv /\ HeardInv /\ CallInv

\* It holds of idle sessions over an unused model.
LEMMA BackendBegins == BackendInit => BackendInv
BY BackendAssumption, SMT DEF BackendInit, BackendInv, BackendTypeOK, LockInv, HeardInv, CallInv,
   Places, NoAnswer, Unheard

(* What any step of a session keeps, one action at a time. *)
LEMMA StepInv == ASSUME BackendInv, NEW s \in Sessions, SessionStep(s)
                 PROVE  BackendInv'
<1> USE BackendAssumption DEF BackendInv, Goes, sharedVars
<1>1. CASE NewSession(s)
  <2>1. BackendTypeOK'
    BY <1>1, SMT DEF NewSession, BackendTypeOK, LockInv, HeardInv, CallInv, Places
  <2>2. LockInv'
    BY <1>1, SMT DEF NewSession, BackendTypeOK, LockInv, HeardInv, Places
  <2>3. HeardInv'
    BY <1>1, SMT DEF NewSession, BackendTypeOK, LockInv, HeardInv, CallInv, Places
  <2>4. CallInv'
    BY <1>1, SMT DEF NewSession, BackendTypeOK, LockInv, HeardInv, CallInv, Places
  <2>5. QED BY <2>1, <2>2, <2>3, <2>4
<1>2. CASE Discard(s)
  <2>1. BackendTypeOK'
    BY <1>2, SMT DEF Discard, BackendTypeOK, LockInv, HeardInv, CallInv, Places, Unheard, NoAnswer
  <2>2. LockInv'
    BY <1>2, SMT DEF Discard, BackendTypeOK, LockInv, HeardInv, Places, Unheard, NoAnswer
  <2>3. HeardInv'
    BY <1>2, SMT DEF Discard, BackendTypeOK, LockInv, HeardInv, CallInv, Places, Unheard, NoAnswer
  <2>4. CallInv'
    BY <1>2, SMT DEF Discard, BackendTypeOK, LockInv, HeardInv, CallInv, Places, Unheard, NoAnswer
  <2>5. QED BY <2>1, <2>2, <2>3, <2>4
<1>3. ASSUME NEW n \in 1..MaxAudio, FeedPcm16(s, n) PROVE BackendInv'
  <2>1. CASE pending[s] + n >= ChunkSize
    <3>1. BackendTypeOK'
      BY <1>3, <2>1, SMT DEF FeedPcm16, TakeChunk, BackendTypeOK, LockInv, HeardInv, CallInv, Places
    <3>2. LockInv'
      BY <1>3, <2>1, SMT DEF FeedPcm16, TakeChunk, BackendTypeOK, LockInv, HeardInv, Places
    <3>3. HeardInv'
      <4>1. chunk[s] = 0 \/ s \in raised
        BY <1>3, SMT DEF FeedPcm16, CallInv
      <4>2. ASSUME NEW t \in Sessions \ raised
            PROVE  heard[t][t] = audio'[t] - pending'[t] - chunk'[t]
        <5>1. heard[t][t] = audio[t] - pending[t] - chunk[t] BY DEF HeardInv
        <5>2. /\ audio[t] \in Nat /\ pending[t] \in Nat /\ chunk[t] \in Nat
                /\ audio[s] \in Nat /\ pending[s] \in Nat /\ chunk[s] \in Nat
          BY DEF BackendTypeOK
        <5>3. CASE t = s
          BY <1>3, <2>1, <4>1, <5>1, <5>2, <5>3, SMT DEF FeedPcm16, TakeChunk, BackendTypeOK
        <5>4. CASE t # s
          BY <1>3, <2>1, <5>1, <5>2, <5>4, SMT DEF FeedPcm16, TakeChunk, BackendTypeOK
        <5>5. QED BY <5>3, <5>4
      <4>3. QED BY <1>3, <2>1, <4>2 DEF FeedPcm16, TakeChunk, HeardInv
    <3>4. CallInv'
      BY <1>3, <2>1, SMT DEF FeedPcm16, TakeChunk, BackendTypeOK, CallInv, LockInv, HeardInv, Places
    <3>5. QED BY <3>1, <3>2, <3>3, <3>4
  <2>2. CASE ~(pending[s] + n >= ChunkSize)
    <3>1. BackendTypeOK'
      BY <1>3, <2>2, SMT DEF FeedPcm16, TakeChunk, BackendTypeOK, LockInv, HeardInv, CallInv, Places
    <3>2. LockInv'
      BY <1>3, <2>2, SMT DEF FeedPcm16, TakeChunk, BackendTypeOK, LockInv, HeardInv, Places
    <3>3. HeardInv'
      <4>1. chunk[s] = 0 \/ s \in raised
        BY <1>3, SMT DEF FeedPcm16, CallInv
      <4>2. ASSUME NEW t \in Sessions \ raised
            PROVE  heard[t][t] = audio'[t] - pending'[t] - chunk'[t]
        <5>1. heard[t][t] = audio[t] - pending[t] - chunk[t] BY DEF HeardInv
        <5>2. /\ audio[t] \in Nat /\ pending[t] \in Nat /\ chunk[t] \in Nat
                /\ audio[s] \in Nat /\ pending[s] \in Nat /\ chunk[s] \in Nat
          BY DEF BackendTypeOK
        <5>3. CASE t = s
          BY <1>3, <2>2, <4>1, <5>1, <5>2, <5>3, SMT DEF FeedPcm16, TakeChunk, BackendTypeOK
        <5>4. CASE t # s
          BY <1>3, <2>2, <5>1, <5>2, <5>4, SMT DEF FeedPcm16, TakeChunk, BackendTypeOK
        <5>5. QED BY <5>3, <5>4
      <4>3. QED BY <1>3, <2>2, <4>2 DEF FeedPcm16, TakeChunk, HeardInv
    <3>4. CallInv'
      BY <1>3, <2>2, SMT DEF FeedPcm16, TakeChunk, BackendTypeOK, CallInv, LockInv, HeardInv, Places
    <3>5. QED BY <3>1, <3>2, <3>3, <3>4
  <2>3. QED BY <2>1, <2>2
<1>4. CASE Finish(s)
  <2>1. BackendTypeOK'
    BY <1>4, SMT DEF Finish, BackendTypeOK, LockInv, HeardInv, CallInv, Places
  <2>2. LockInv'
    BY <1>4, SMT DEF Finish, BackendTypeOK, LockInv, HeardInv, Places
  <2>3. HeardInv'
    <3>1. chunk[s] = 0 \/ s \in raised
      BY <1>4, SMT DEF Finish, CallInv
    <3>2. ASSUME NEW t \in Sessions \ raised
          PROVE  heard[t][t] = audio'[t] - pending'[t] - chunk'[t]
      <4>1. heard[t][t] = audio[t] - pending[t] - chunk[t] BY DEF HeardInv
      <4>2. /\ audio[t] \in Nat /\ pending[t] \in Nat /\ chunk[t] \in Nat
              /\ audio[s] \in Nat /\ pending[s] \in Nat /\ chunk[s] \in Nat
        BY DEF BackendTypeOK
      <4>3. CASE t = s
        BY <1>4, <3>1, <4>1, <4>2, <4>3, SMT DEF Finish, BackendTypeOK
      <4>4. CASE t # s
        BY <1>4, <4>1, <4>2, <4>4, SMT DEF Finish, BackendTypeOK
      <4>5. QED BY <4>3, <4>4
    <3>3. QED BY <1>4, <3>2 DEF Finish, HeardInv
  <2>4. CallInv'
    BY <1>4, SMT DEF Finish, BackendTypeOK, CallInv, LockInv, HeardInv, Places
  <2>5. QED BY <2>1, <2>2, <2>3, <2>4
<1>5. CASE EnterInfer(s)
  <2>1. BackendTypeOK'
    BY <1>5, SMT DEF EnterInfer, BackendTypeOK, LockInv, HeardInv, CallInv, Places
  <2>2. LockInv'
    BY <1>5, SMT DEF EnterInfer, BackendTypeOK, LockInv, HeardInv, Places
  <2>3. HeardInv'
    BY <1>5, SMT DEF EnterInfer, BackendTypeOK, LockInv, HeardInv, CallInv, Places
  <2>4. CallInv'
    BY <1>5, SMT DEF EnterInfer, BackendTypeOK, LockInv, HeardInv, CallInv, Places
  <2>5. QED BY <2>1, <2>2, <2>3, <2>4
<1>6. CASE RunModel(s)
  <2>1. BackendTypeOK'
    BY <1>6, SMT DEF RunModel, BackendTypeOK, LockInv, HeardInv, CallInv, Places
  <2>2. LockInv'
    BY <1>6, SMT DEF RunModel, BackendTypeOK, LockInv, HeardInv, Places
  <2>3. HeardInv'
    BY <1>6, SMT DEF RunModel, BackendTypeOK, LockInv, HeardInv, CallInv, Places
  <2>4. CallInv'
    BY <1>6, SMT DEF RunModel, BackendTypeOK, LockInv, HeardInv, CallInv, Places
  <2>5. QED BY <2>1, <2>2, <2>3, <2>4
<1>7. CASE ModelRaises(s)
  <2>1. BackendTypeOK'
    BY <1>7, SMT DEF ModelRaises, BackendTypeOK, LockInv, HeardInv, CallInv, Places
  <2>2. LockInv'
    BY <1>7, SMT DEF ModelRaises, BackendTypeOK, LockInv, HeardInv, Places
  <2>3. HeardInv'
    BY <1>7, SMT DEF ModelRaises, BackendTypeOK, LockInv, HeardInv, CallInv, Places
  <2>4. CallInv'
    BY <1>7, SMT DEF ModelRaises, BackendTypeOK, LockInv, HeardInv, CallInv, Places
  <2>5. QED BY <2>1, <2>2, <2>3, <2>4
<1>8. CASE LeaveInfer(s)
  <2>1. /\ job[s] = "leave" /\ mutex = s /\ frontend = s /\ own[s] = s /\ previous[s] = Free
        /\ s \notin raised => chunk[s] = 0
    BY <1>8, SMT DEF LeaveInfer, LockInv, HeardInv, CallInv
  <2>2. /\ own' = own /\ frontend' = Free /\ mutex' = Free
        /\ UNCHANGED <<punctuating, previous, heard, final, raised, audio, answer>>
    BY <1>8, <2>1, SMT DEF LeaveInfer, BackendTypeOK
  <2>3. ASSUME s \in raised, job' = [job EXCEPT ![s] = "failed"], UNCHANGED <<pending, chunk>>
        PROVE  BackendInv'
    <3>1. BackendTypeOK' BY <2>1, <2>2, <2>3, SMT DEF BackendTypeOK, Places
    <3>2. LockInv' BY <2>1, <2>2, <2>3, SMT DEF BackendTypeOK, LockInv, Places
    <3>3. HeardInv' BY <2>1, <2>2, <2>3, SMT DEF BackendTypeOK, HeardInv
    <3>4. CallInv' BY <2>1, <2>2, <2>3, SMT DEF BackendTypeOK, CallInv, Places
    <3>5. QED BY <3>1, <3>2, <3>3, <3>4
  <2>4. ASSUME s \notin raised, s \in final, job' = [job EXCEPT ![s] = "second"], UNCHANGED <<pending, chunk>>
        PROVE  BackendInv'
    <3>1. BackendTypeOK' BY <2>1, <2>2, <2>4, SMT DEF BackendTypeOK, Places
    <3>2. LockInv' BY <2>1, <2>2, <2>4, SMT DEF BackendTypeOK, LockInv, Places
    <3>3. HeardInv' BY <2>1, <2>2, <2>4, SMT DEF BackendTypeOK, HeardInv
    <3>4. CallInv' BY <2>1, <2>2, <2>4, SMT DEF BackendTypeOK, CallInv, Places
    <3>5. QED BY <3>1, <3>2, <3>3, <3>4
  <2>5. ASSUME s \notin raised, s \notin final, pending[s] >= ChunkSize, job' = [job EXCEPT ![s] = "infer"], 
               pending' = [pending EXCEPT ![s] = @ - ChunkSize],
               chunk' = [chunk EXCEPT ![s] = ChunkSize]
        PROVE  BackendInv'
    <3>1. BackendTypeOK' BY <2>1, <2>2, <2>5, SMT DEF BackendTypeOK, Places
    <3>2. LockInv' BY <2>1, <2>2, <2>5, SMT DEF BackendTypeOK, LockInv, Places
    <3>3. HeardInv' BY <2>1, <2>2, <2>5, SMT DEF BackendTypeOK, HeardInv
    <3>4. CallInv' BY <2>1, <2>2, <2>5, SMT DEF BackendTypeOK, CallInv, Places
    <3>5. QED BY <3>1, <3>2, <3>3, <3>4
  <2>6. ASSUME s \notin raised, s \notin final, job' = [job EXCEPT ![s] = "idle"], 
               pending' = [pending EXCEPT ![s] = @ - 0],
               chunk' = [chunk EXCEPT ![s] = 0]
        PROVE  BackendInv'
    <3>1. BackendTypeOK' BY <2>1, <2>2, <2>6, SMT DEF BackendTypeOK, Places
    <3>2. LockInv' BY <2>1, <2>2, <2>6, SMT DEF BackendTypeOK, LockInv, Places
    <3>3. HeardInv' BY <2>1, <2>2, <2>6, SMT DEF BackendTypeOK, HeardInv
    <3>4. CallInv' BY <2>1, <2>2, <2>6, SMT DEF BackendTypeOK, CallInv, Places
    <3>5. QED BY <3>1, <3>2, <3>3, <3>4
  <2>7. CASE s \in raised BY <1>8, <2>3, <2>7 DEF LeaveInfer, Continues
  <2>8. CASE s \notin raised /\ s \in final BY <1>8, <2>4, <2>8 DEF LeaveInfer, Continues
  <2>9. CASE s \notin raised /\ s \notin final
    <3>1. CASE pending[s] >= ChunkSize
      BY <1>8, <2>5, <2>9, <3>1, SMT DEF LeaveInfer, Continues, TakeChunk, BackendTypeOK
    <3>2. CASE ~(pending[s] >= ChunkSize)
      BY <1>8, <2>6, <2>9, <3>2, SMT DEF LeaveInfer, Continues, TakeChunk, BackendTypeOK
    <3>3. QED BY <3>1, <3>2
  <2>10. QED BY <2>7, <2>8, <2>9
<1>9. CASE NoSecondPass(s)
  <2>1. BackendTypeOK'
    BY <1>9, SMT DEF NoSecondPass, Text, BackendTypeOK, LockInv, HeardInv, CallInv, Places
  <2>2. LockInv'
    BY <1>9, SMT DEF NoSecondPass, Text, BackendTypeOK, LockInv, HeardInv, Places
  <2>3. HeardInv'
    BY <1>9, SMT DEF NoSecondPass, Text, BackendTypeOK, LockInv, HeardInv, CallInv, Places
  <2>6. heard[own[s]][s] = audio[s]
    <3>1. s \in final /\ s \notin raised /\ own[s] = s /\ pending[s] = 0 /\ chunk[s] = 0
      BY <1>9, SMT DEF NoSecondPass, HeardInv, CallInv
    <3>2. heard[s][s] = audio[s] - pending[s] - chunk[s] /\ audio[s] \in Nat
      BY <3>1 DEF HeardInv, BackendTypeOK
    <3>3. QED BY <3>1, <3>2, SMT
  <2>4. CallInv'
    BY <1>9, <2>6, SMT DEF NoSecondPass, Text, BackendTypeOK, LockInv, HeardInv, CallInv, Places
  <2>5. QED BY <2>1, <2>2, <2>3, <2>4
<1>10. CASE RecognizeOffline(s)
  <2>1. BackendTypeOK'
    BY <1>10, SMT DEF RecognizeOffline, BackendTypeOK, LockInv, HeardInv, CallInv, Places
  <2>2. LockInv'
    BY <1>10, SMT DEF RecognizeOffline, BackendTypeOK, LockInv, HeardInv, Places
  <2>3. HeardInv'
    BY <1>10, SMT DEF RecognizeOffline, BackendTypeOK, LockInv, HeardInv, CallInv, Places
  <2>4. CallInv'
    BY <1>10, SMT DEF RecognizeOffline, BackendTypeOK, LockInv, HeardInv, CallInv, Places
  <2>5. QED BY <2>1, <2>2, <2>3, <2>4
<1>11. CASE OfflineEnds(s)
  <2>1. CASE job' = [job EXCEPT ![s] = "failed"] /\ UNCHANGED answer
    <3>1. BackendTypeOK'
      BY <1>11, <2>1, SMT DEF OfflineEnds, Text, BackendTypeOK, LockInv, HeardInv, CallInv, Places
    <3>2. LockInv'
      BY <1>11, <2>1, SMT DEF OfflineEnds, Text, BackendTypeOK, LockInv, HeardInv, Places
    <3>3. HeardInv'
      BY <1>11, <2>1, SMT DEF OfflineEnds, Text, BackendTypeOK, HeardInv, LockInv, CallInv, Places
    <3>4. CallInv'
      BY <1>11, <2>1, SMT DEF OfflineEnds, Text, BackendTypeOK, CallInv, LockInv, HeardInv, Places
    <3>5. QED BY <3>1, <3>2, <3>3, <3>4
  <2>2. ASSUME job' = [job EXCEPT ![s] = "punctuate"],
               NEW pass \in {"offline", "streaming"},
               answer' = [answer EXCEPT ![s] = [pass |-> pass, units |-> audio[s]]]
        PROVE  BackendInv'
    <3>1. BackendTypeOK'
      BY <1>11, <2>2, SMT DEF OfflineEnds, Text, BackendTypeOK, LockInv, HeardInv, CallInv, Places
    <3>2. LockInv'
      BY <1>11, <2>2, SMT DEF OfflineEnds, Text, BackendTypeOK, LockInv, HeardInv, Places
    <3>3. HeardInv'
      BY <1>11, <2>2, SMT DEF OfflineEnds, Text, BackendTypeOK, HeardInv, LockInv, CallInv, Places
    <3>4. CallInv'
      BY <1>11, <2>2, SMT DEF OfflineEnds, Text, BackendTypeOK, CallInv, LockInv, HeardInv, Places
    <3>5. QED BY <3>1, <3>2, <3>3, <3>4
  <2>3. heard[own[s]][s] = audio[s]
    <3>1. s \in final /\ s \notin raised /\ own[s] = s /\ pending[s] = 0 /\ chunk[s] = 0
      BY <1>11, SMT DEF OfflineEnds, HeardInv, CallInv
    <3>2. heard[s][s] = audio[s] - pending[s] - chunk[s] /\ audio[s] \in Nat
      BY <3>1 DEF HeardInv, BackendTypeOK
    <3>3. QED BY <3>1, <3>2, SMT
  <2>4. QED BY <1>11, <2>1, <2>2, <2>3 DEF OfflineEnds, Text
<1>12. CASE NotPunctuated(s)
  <2>1. BackendTypeOK'
    BY <1>12, SMT DEF NotPunctuated, BackendTypeOK, LockInv, HeardInv, CallInv, Places
  <2>2. LockInv'
    BY <1>12, SMT DEF NotPunctuated, BackendTypeOK, LockInv, HeardInv, Places
  <2>3. HeardInv'
    BY <1>12, SMT DEF NotPunctuated, BackendTypeOK, LockInv, HeardInv, CallInv, Places
  <2>4. CallInv'
    BY <1>12, SMT DEF NotPunctuated, BackendTypeOK, LockInv, HeardInv, CallInv, Places
  <2>5. QED BY <2>1, <2>2, <2>3, <2>4
<1>13. CASE Restore(s)
  <2>1. BackendTypeOK'
    BY <1>13, SMT DEF Restore, BackendTypeOK, LockInv, HeardInv, CallInv, Places
  <2>2. LockInv'
    BY <1>13, SMT DEF Restore, BackendTypeOK, LockInv, HeardInv, Places
  <2>3. HeardInv'
    BY <1>13, SMT DEF Restore, BackendTypeOK, LockInv, HeardInv, CallInv, Places
  <2>4. CallInv'
    BY <1>13, SMT DEF Restore, BackendTypeOK, LockInv, HeardInv, CallInv, Places
  <2>5. QED BY <2>1, <2>2, <2>3, <2>4
<1>14. CASE Restored(s)
  <2>1. CASE job' = [job EXCEPT ![s] = "done"]
    <3>1. BackendTypeOK'
      BY <1>14, <2>1, SMT DEF Restored, BackendTypeOK, LockInv, HeardInv, CallInv, Places
    <3>2. LockInv'
      BY <1>14, <2>1, SMT DEF Restored, BackendTypeOK, LockInv, HeardInv, Places
    <3>3. HeardInv'
      BY <1>14, <2>1, SMT DEF Restored, BackendTypeOK, HeardInv, LockInv, CallInv, Places
    <3>4. CallInv'
      BY <1>14, <2>1, SMT DEF Restored, BackendTypeOK, CallInv, LockInv, HeardInv, Places
    <3>5. QED BY <3>1, <3>2, <3>3, <3>4
  <2>2. CASE job' = [job EXCEPT ![s] = "failed"]
    <3>1. BackendTypeOK'
      BY <1>14, <2>2, SMT DEF Restored, BackendTypeOK, LockInv, HeardInv, CallInv, Places
    <3>2. LockInv'
      BY <1>14, <2>2, SMT DEF Restored, BackendTypeOK, LockInv, HeardInv, Places
    <3>3. HeardInv'
      BY <1>14, <2>2, SMT DEF Restored, BackendTypeOK, HeardInv, LockInv, CallInv, Places
    <3>4. CallInv'
      BY <1>14, <2>2, SMT DEF Restored, BackendTypeOK, CallInv, LockInv, HeardInv, Places
    <3>5. QED BY <3>1, <3>2, <3>3, <3>4
  <2>3. QED BY <1>14, <2>1, <2>2 DEF Restored
<1>15. QED BY <1>1, <1>2, <1>3, <1>4, <1>5, <1>6, <1>7, <1>8, <1>9, <1>10, <1>11, <1>12, <1>13, <1>14 DEF SessionStep

\* It is about these variables only.
LEMMA StutterInv == ASSUME BackendInv, UNCHANGED backendVars PROVE BackendInv'
BY DEF BackendInv, backendVars, BackendTypeOK, LockInv, HeardInv, CallInv

(* The locks, the audio heard and the calls of every session, as above. *)
THEOREM BackendInvariant == BackendSpec => []BackendInv
<1>1. BackendInv /\ [BackendNext]_backendVars => BackendInv'
  BY StepInv, StutterInv DEF BackendNext
<1>2. QED BY <1>1, BackendBegins, PTL DEF BackendSpec

(* For every number of sessions, every chunk size and every configuration,
   streaming state is isolated: see Isolated. *)
THEOREM SessionsIsolated == BackendSpec => []Isolated
<1>1. BackendInv => Isolated
  BY BackendAssumption, SMT DEF BackendInv, BackendTypeOK, LockInv, HeardInv, Isolated
<1>2. QED BY <1>1, BackendInvariant, PTL

(* ... and no final text leaves audio out: see FinalHearsAll. *)
THEOREM FinalIsWhole == BackendSpec => []FinalHearsAll
<1>1. BackendInv => FinalHearsAll
  BY DEF BackendInv, CallInv, FinalHearsAll
<1>2. QED BY <1>1, BackendInvariant, PTL

=============================================================================
