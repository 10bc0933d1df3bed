---------------------------- MODULE LayaStartup ----------------------------
(* From the services file to a listening LAYA service: a service's settings   *)
(* are layered out of its tables, the flags win, doctor and serve check them  *)
(* and the model directory, and the middleware asks for the key they name.    *)
(* Another installation may replace files of a directory at any moment.       *)
(* Sources: config.py, cli.py, engine.py (load_engine), participation.py      *)
(* (the profile), service.py (create_app, the middleware, readiness).         *)
EXTENDS Integers, FiniteSets

CONSTANTS
  Documents,   \* the services files somebody may have written
  Disks,       \* what may lie in a model directory
  Pinned,      \* the profile a revision's manifest pins by its digest, or NoProfile
  CommandLines,  \* the services and flags of a command line
  MaxReplaced  \* files replaced while a command runs

\* No flag names a key or allows to go without one.
ASSUME LaunchAssumption ==
  \A c \in CommandLines : DOMAIN c.flags \subseteq {"backend", "host", "model_dir"}

VARIABLES
  launchAt,    (* where the command is, or how it ended                     *)
  document,    (* the services file                                         *)
  npuHost,     (* "rknpu2" is among the host's capabilities                 *)
  installed,   (* the runtimes installed                                    *)
  disk,        (* model directory -> its files                              *)
  call,        (* the command, its service and its flags                    *)
  config,      (* Settings, as a function of its fields                     *)
  engine,      (* the engine loaded: backend, directory, revision           *)
  adapter,     (* the participation profile that serves, or NoProfile       *)
  httpReply,   (* the last HTTP answer                                      *)
  replaced

launchVars == <<launchAt, document, npuHost, installed, disk, call, config, engine, adapter, httpReply, replaced>>

NoProfile == [version |-> 0, task |-> FALSE, revision |-> 0, fits |-> FALSE]
Nothing == "nothing"
NoEngine == [backend |-> "none", model_dir |-> "none", revision |-> 0]
Dirs == DOMAIN disk

-----------------------------------------------------------------------------
(* config.py *)

\* load_services(): keys it knows, values of their types, and for every
\* backend a model_dir of its own or of its service.
ServicesReadable(doc) ==
  /\ ~doc.flawed
  /\ \A s \in DOMAIN doc.services : \A b \in DOMAIN doc.services[s].backends :
       "model_dir" \in DOMAIN doc.services[s].common \union DOMAIN doc.services[s].backends[b]

BackendFor(npu) == IF npu THEN "rknn" ELSE "torch"

\* Mutant: the backend of the host, whatever the command line says.
ChosenOfHost(flags) == BackendFor(npuHost)

Chosen(flags) == IF "backend" \in DOMAIN flags THEN flags.backend ELSE BackendFor(npuHost)

\* One table on top of another.
Over(f, g) == [k \in DOMAIN f \union DOMAIN g |-> IF k \in DOMAIN f THEN f[k] ELSE g[k]]

Table(service, backend) ==
  LET s == document.services[service] IN Over(s.backends[backend], Over(s.common, document.defaults))

FieldDefaults ==
  [backend |-> "torch", model_dir |-> "default", host |-> "loopback", api_key_file |-> "none",
   allow_no_auth |-> FALSE, participation |-> FALSE]

\* for_service(), or a bare Settings with a model directory; a key file that
\* is absent or empty is an error.
SettingsExist ==
  \/ call.service = Nothing /\ "model_dir" \in DOMAIN call.flags
  \/ /\ call.service # Nothing /\ ServicesReadable(document)
     /\ call.service \in DOMAIN document.services
     /\ Chosen(call.flags) \in DOMAIN document.services[call.service].backends
     /\ LET table == Table(call.service, Chosen(call.flags))
        IN "api_key_file" \in DOMAIN table => table.api_key_file = "key"

\* with_overrides()
SettingsTold ==
  LET rest == IF call.service = Nothing THEN FieldDefaults
              ELSE Over([backend |-> Chosen(call.flags)], Over(Table(call.service, Chosen(call.flags)), FieldDefaults))
  IN Over(call.flags, rest)

\* is_loopback(): a host is localhost or a loopback address ("loopback"), any
\* other name or address, or the empty string, which counts as loopback too.
IsLoopback(host) == host \in {"loopback", "empty"}

\* validate_exposure()
Exposable(s) == s.api_key_file = "key" \/ s.allow_no_auth \/ IsLoopback(s.host)

-----------------------------------------------------------------------------
(* The model directory *)

\* verify_torch() and verify_onnx() without checksums, and what the backend
\* opens: a file cut short fails there.
Loadable(backend, d) ==
  /\ "tokenizer" \in disk[d].have
  /\ backend = "torch" => "weights" \in disk[d].have
  /\ backend = "onnx" => "onnx" \in disk[d].have
  /\ backend = "rknn" => "npu" \in disk[d].have

Opens(backend, d) == (CASE backend = "torch" -> "weights" [] backend = "onnx" -> "onnx" [] OTHER -> "npu") \in disk[d].intact

\* read_participation_profile(): the file the manifest pins, of this task,
\* this format and this revision.
Pin(revision) == IF revision \in DOMAIN Pinned THEN Pinned[revision] ELSE NoProfile

ProfileReads(d, revision) ==
  /\ Pin(revision) # NoProfile
  /\ disk[d].profile = Pin(revision)
  /\ disk[d].profile.version \in {1, 2}
  /\ disk[d].profile.task /\ disk[d].profile.revision = revision

\* The constructors behind it have their own checks: candidates, questions
\* and the confidence.
AdapterAccepts(profile) == profile.fits

-----------------------------------------------------------------------------
LaunchInit ==
  /\ launchAt = "idle" /\ replaced = 0
  /\ document \in Documents /\ npuHost \in BOOLEAN /\ installed \in SUBSET {"torch", "onnx"}
  /\ disk \in Disks
  /\ call = [command |-> Nothing, service |-> Nothing, flags |-> <<>>]
  /\ config = FieldDefaults /\ engine = NoEngine /\ adapter = NoProfile
  /\ httpReply = [path |-> Nothing, beyond |-> FALSE, keyed |-> FALSE, status |-> 0]

LaunchHost == UNCHANGED <<document, npuHost, installed>>

\* An installation that runs beside the command replaces one file.  Bound: as
\* long as the command has yet to read the directory.
Replace ==
  /\ replaced < MaxReplaced /\ launchAt \in {"called", "doctor", "serve", "loaded"}
  /\ replaced' = replaced + 1
  /\ \E other \in Disks, d \in Dirs, field \in {"revision", "profile"} :
       /\ other[d][field] # disk[d][field]
       /\ disk' = [disk EXCEPT ![d][field] = other[d][field]]
  /\ UNCHANGED <<launchAt, call, config, engine, adapter, httpReply>> /\ LaunchHost

Call ==
  /\ launchAt = "idle" /\ launchAt' = "called"
  /\ \E c \in CommandLines, command \in {"doctor", "serve"} :
       call' = [command |-> command, service |-> c.service,
                flags |-> IF command = "serve" THEN c.flags ELSE [f \in DOMAIN c.flags \ {"host"} |-> c.flags[f]]]
  /\ UNCHANGED <<disk, config, engine, adapter, httpReply, replaced>> /\ LaunchHost

\* _settings(); serve wants a service.
ReadSettings ==
  /\ launchAt = "called"
  /\ IF SettingsExist /\ (call.command = "serve" => call.service # Nothing)
     THEN launchAt' = call.command /\ config' = SettingsTold
     ELSE launchAt' = "refused" /\ UNCHANGED config
  /\ UNCHANGED <<disk, call, engine, adapter, httpReply, replaced>> /\ LaunchHost

FilesOf(d) == IF d \in Dirs THEN disk[d] ELSE [revision |-> 0, have |-> {}, intact |-> {}, profile |-> NoProfile]

\* cmd_doctor(): nothing about the files of the backend rknn.
LaunchDoctor ==
  /\ launchAt = "doctor"
  /\ LET files == FilesOf(config.model_dir)
         healthy ==
           /\ config.backend = "torch" => {"tokenizer", "weights"} \subseteq files.intact /\ "torch" \in installed
           /\ config.backend = "onnx" => "onnx" \in files.intact /\ "onnx" \in installed
           /\ Exposable(config)
           /\ config.participation => ProfileReads(config.model_dir, files.revision)
     IN launchAt' = IF files.revision = 0 THEN "refused" ELSE IF healthy THEN "healthy" ELSE "unhealthy"
  /\ UNCHANGED <<disk, call, config, engine, adapter, httpReply, replaced>> /\ LaunchHost

\* cmd_serve(): validate_exposure(), require_model(), load_engine().
ServeLoads ==
  /\ launchAt = "serve"
  /\ LET files == FilesOf(config.model_dir)
     IN IF ~Exposable(config) \/ files.revision = 0 THEN launchAt' = "refused" /\ UNCHANGED engine
        ELSE IF ~Loadable(config.backend, config.model_dir) THEN launchAt' = "refused" /\ UNCHANGED engine
        ELSE IF ~Opens(config.backend, config.model_dir) THEN launchAt' = "raised" /\ UNCHANGED engine
        ELSE /\ launchAt' = "loaded"
             /\ engine' = [backend |-> config.backend, model_dir |-> config.model_dir, revision |-> files.revision]
  /\ UNCHANGED <<disk, call, config, adapter, httpReply, replaced>> /\ LaunchHost

\* The pin comes from the manifest the engine was loaded with, the profile
\* from the directory as it is by now.
ServeAdapter ==
  /\ launchAt = "loaded"
  /\ IF ~config.participation THEN launchAt' = "listening" /\ UNCHANGED adapter
     ELSE IF /\ ProfileReads(config.model_dir, engine.revision)
             /\ AdapterAccepts(disk[config.model_dir].profile)
     THEN launchAt' = "listening" /\ adapter' = disk[config.model_dir].profile
     ELSE launchAt' = "refused" /\ UNCHANGED adapter
  /\ UNCHANGED <<disk, call, config, engine, httpReply, replaced>> /\ LaunchHost

\* _auth() and the handlers: /v1 asks for the key if there is one;
\* participation answers only when it is configured.  Who is beyond the host
\* reaches every listener but one on loopback: an empty host is bound to all
\* interfaces.
Ask(path, beyond, keyed) ==
  /\ launchAt = "listening"
  /\ beyond => config.host # "loopback"
  /\ httpReply' = [path |-> path, beyond |-> beyond, keyed |-> keyed,
               status |-> IF path # "readyz" /\ config.api_key_file = "key" /\ ~keyed THEN 401
                          ELSE IF path \in {"decide", "readyz"} /\ adapter = NoProfile THEN 503 ELSE 200]
  /\ UNCHANGED <<launchAt, disk, call, config, engine, adapter, replaced>> /\ LaunchHost

LaunchNext ==
  \/ Replace \/ Call \/ ReadSettings \/ LaunchDoctor \/ ServeLoads \/ ServeAdapter
  \/ \E path \in {"systemone", "decide", "readyz"}, beyond, keyed \in BOOLEAN : Ask(path, beyond, keyed)

LaunchSpec == LaunchInit /\ [][LaunchNext]_launchVars

-----------------------------------------------------------------------------
(* "Refuse to listen beyond loopback without a key, unless told to on
   purpose": an answer of /v1 leaves the host only for whoever has the key,
   or the most specific table that speaks of it says allow_no_auth; or the
   host was given as the empty string, for which the refusal does not hold. *)
Layers ==
  LET s == document.services[call.service]
  IN <<IF engine.backend \in DOMAIN s.backends THEN s.backends[engine.backend] ELSE <<>>, s.common, document.defaults>>
ToldOpen ==
  \E i \in 1..3 :
    /\ "allow_no_auth" \in DOMAIN Layers[i] /\ Layers[i].allow_no_auth
    /\ \A j \in 1..(i - 1) : "allow_no_auth" \notin DOMAIN Layers[j]
AnsweredToKey ==
  httpReply.beyond /\ httpReply.path # "readyz" /\ httpReply.status # 401 =>
    httpReply.keyed \/ ToldOpen \/ config.host = "empty"

(* What serves is one configuration: the backend's own model directory, not
   that of the backend the host would have had, unless --model-dir says so. *)
OneBackendsModel ==
  engine # NoEngine =>
    IF "model_dir" \in DOMAIN call.flags THEN engine.model_dir = call.flags.model_dir
    ELSE engine.model_dir \in {Layers[i].model_dir : i \in {j \in 1..2 : "model_dir" \in DOMAIN Layers[j]}}

(* Participation is served by a profile pinned by the manifest, and made for
   the revision, that the engine was loaded with, whatever was replaced
   meanwhile. *)
AdapterQualified ==
  adapter # NoProfile => adapter = Pin(engine.revision) /\ adapter.revision = engine.revision

(* All three of a process that went from the services file to answering. *)
LaunchedAsTold == AnsweredToKey /\ OneBackendsModel /\ AdapterQualified

=============================================================================
