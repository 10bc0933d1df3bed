----------------------------- MODULE AsrStartup -----------------------------
(* How a service is given its cores and the ASR service its settings: the CPU *)
(* list of the board's allocation, read by two parsers that share no code;   *)
(* main() of eidolon-asr, which pins itself, then reads the environment,     *)
(* then the command line; what doctor says and what serve does.              *)
(* Sources: src/src/eidolon_models_host/cpu.py, scripts/eidolon-llm,         *)
(* src/src/eidolon_models_asr/cli.py, config.py, artifacts.py.               *)
EXTENDS Integers, Sequences, SequencesExt, FiniteSets, FiniteSetsExt

CONSTANTS
  Online,     \* the CPUs this host has
  CpuLists,   \* the lists the allocation file may hold
  Limits,     \* the limits the environment may hold
  Told        \* the thread counts it may hold; 0 stands for none

\* A host has CPUs; a limit is a number, and so is a count of threads.
ASSUME StartAssumption ==
  /\ IsFiniteSet(Online) /\ Online # {}
  /\ Limits \subseteq [slots : Int, queued : Int, connections : Int]
  /\ Told \subseteq Nat

VARIABLES
  asrAt,      (* where main() is, or how it ended                           *)
  cpus,       (* the list it was given and the CPUs it may run on           *)
  settings,   (* the Settings object                                        *)
  intact,     (* the artifacts that are as their manifest says              *)
  verified,   (* those main() has verified                                  *)
  loaded,     (* those it has loaded                                        *)
  loading,    (* what _load_backend() does next                             *)
  report      (* what doctor last said of these settings                    *)

startVars == <<asrAt, cpus, settings, intact, verified, loaded, loading, report>>

-----------------------------------------------------------------------------
(* parse_cpu_list().  A part of a list is blank, one CPU, a range, a number  *)
(* with a minus, or no number at all.  Every refusal is a ValueError: {}.    *)

Blank == [form |-> "blank", lo |-> 0, hi |-> 0]
One(n) == [form |-> "one", lo |-> n, hi |-> n]
Span(n, m) == [form |-> "range", lo |-> n, hi |-> m]
Minus(n) == [form |-> "minus", lo |-> 0, hi |-> n]
Junk == [form |-> "junk", lo |-> 0, hi |-> 0]

CpusOf(part) == IF part.form = "blank" THEN {} ELSE part.lo..part.hi

ParseCpuList(list) ==
  IF \E i \in DOMAIN list : list[i].form \in {"minus", "junk"} \/ list[i].lo > list[i].hi THEN {}
  ELSE UNION {CpusOf(list[i]) : i \in DOMAIN list}

\* f"{value:x}", as its digits.
Hex(value) ==
  LET n == CHOOSE n \in 1..8 : 16^(n - 1) <= value /\ (value < 16^n \/ n = 8)
  IN [i \in 1..n |-> (value \div 16^(n - i)) % 16]

HexMask(set) == Hex(FoldSet(LAMBDA cpu, sum : sum + 2^cpu, 0, set))

(* cpu_mask() of the launcher, in awk: what is no number counts as 0, and    *)
(* the digits are built from the highest nibble down.                        *)
Seen(list) == UNION {CpusOf(list[i]) : i \in DOMAIN list}
Nibble(set, nib) == FoldSet(LAMBDA b, v : v + (IF nib * 4 + b \in set THEN 2^b ELSE 0), 0, 0..3)

CpuMask(list) ==
  LET set == Seen(list)
      nibs == IF set = {} THEN 0 ELSE 1 + Max(set) \div 4
  IN IF set = {} \/ \E i \in DOMAIN list : list[i].lo > list[i].hi THEN <<>>
     ELSE [i \in 1..nibs |-> Nibble(set, nibs - i)]

-----------------------------------------------------------------------------
(* Settings and its environment *)

Parts == {"asr", "offline", "punctuation"}
NoSettings == [slots |-> 0, queued |-> 0, connections |-> 0, threads |-> 0, backend |-> "auto", enabled |-> {}]

\* __post_init__
Accepts(l) == l.connections > 0 /\ l.slots > 0 /\ l.queued >= 0 /\ l.slots + l.queued <= l.connections

\* Mutant: os.cpu_count() for os.process_cpu_count().
DefaultThreadsOfMachine == Max({1, Min({4, Cardinality(Online)})})

\* _default_intra_op_threads(), from process_cpu_count()
DefaultThreads == Max({1, Min({4, Cardinality(cpus.may)})})

StartInit ==
  /\ asrAt = "start" /\ settings = NoSettings /\ verified = {} /\ loaded = {} /\ loading = <<>>
  /\ cpus = [list |-> <<>>, may |-> Online] /\ report = "none"
  /\ intact \in SUBSET Parts

StartUnchanged == UNCHANGED <<intact, verified, loaded>>
Ends(how) == asrAt' = how /\ loading' = <<>>

\* apply_cpu_affinity(): nothing to pin when the variable is unset or blank; a
\* list it cannot read, or one that names no CPU of this host, is raised out of
\* main().  Blanks between commas are such a list.
PinUnset ==
  /\ asrAt = "start" /\ asrAt' = "pinned"
  /\ UNCHANGED <<cpus, settings, loading, report>> /\ StartUnchanged

PinCpus ==
  /\ asrAt = "start"
  /\ \E list \in CpuLists \ {<<Blank>>} :
       LET may == ParseCpuList(list) \intersect Online
       IN /\ cpus' = [list |-> list, may |-> IF may = {} THEN cpus.may ELSE may]
          /\ Ends(IF may = {} THEN "raised" ELSE "pinned")
  /\ UNCHANGED <<settings, report>> /\ StartUnchanged

\* Settings.from_env(), also outside the try of main().
FromEnv ==
  /\ asrAt = "pinned"
  /\ \E l \in Limits, told \in Told, backend \in {"auto", "mock", "rknn"}, more \in SUBSET {"offline", "punctuation"} :
       /\ settings' = [slots |-> l.slots, queued |-> l.queued, connections |-> l.connections,
                       threads |-> IF told = 0 THEN DefaultThreads ELSE told,
                       backend |-> backend, enabled |-> {"asr"} \union more]
       /\ Ends(IF Accepts(l) THEN "env" ELSE "raised")
  /\ UNCHANGED <<cpus, report>> /\ StartUnchanged

\* replace(settings, **overrides), which checks again: an argument for one
\* limit, the backend, or a pass that is not wanted.
Override ==
  /\ asrAt = "env"
  /\ \E s \in {settings} \union {[settings EXCEPT !.slots = l.slots] : l \in Limits}
              \union {[settings EXCEPT !.queued = l.queued] : l \in Limits}
              \union {[settings EXCEPT !.connections = l.connections] : l \in Limits}
              \union {[settings EXCEPT !.backend = b] : b \in {"auto", "mock", "rknn"}}
              \union {[settings EXCEPT !.enabled = @ \ {p}] : p \in {"offline", "punctuation"}} :
       settings' = s /\ Ends(IF Accepts(s) THEN "command" ELSE "raised")
  /\ UNCHANGED <<cpus, report>> /\ StartUnchanged

-----------------------------------------------------------------------------
(* doctor, and serve with _load_backend() *)

\* resolve_backend(): only the CPU runtime and the mock exist.
Resolves(backend) == backend # "rknn"

\* An error of verify_artifacts() is part of the answer; resolve_backend()
\* refuses rknn, which ends main() with 2.  A missing onnxruntime is not: it
\* leaves the list of providers empty, and "ok" as it is.
Doctor ==
  /\ asrAt = "command"
  /\ \/ ~Resolves(settings.backend) /\ Ends("refused") /\ UNCHANGED report
     \/ /\ Resolves(settings.backend) /\ Ends("told")
        /\ report' = IF settings.enabled \subseteq intact THEN "ok" ELSE "bad"
  /\ UNCHANGED <<cpus, settings>> /\ StartUnchanged

\* The next command, with the same settings and the same files.
NextCommand ==
  /\ asrAt \in {"told", "verified"} /\ asrAt' = "command"
  /\ UNCHANGED <<cpus, settings, loading, report>> /\ StartUnchanged

\* verify looks at the files alone.
Verify ==
  /\ asrAt = "command"
  /\ Ends(IF settings.enabled \subseteq intact THEN "verified" ELSE "refused")
  /\ UNCHANGED <<cpus, settings, report>> /\ StartUnchanged

Step(does, part) == [does |-> does, part |-> part]
Steps(part) == IF part \in settings.enabled THEN <<Step("verify", part), Step("load", part)>> ELSE <<>>

LoadPlan == <<Step("verify", "asr")>> \o Steps("offline") \o Steps("punctuation") \o <<Step("load", "asr")>>

Serve ==
  /\ asrAt = "command"
  /\ \/ ~Resolves(settings.backend) /\ Ends("refused")
     \/ settings.backend = "mock" /\ Ends("serving")
     \/ /\ settings.backend = "auto" /\ asrAt' = "loading"
        /\ loading' = LoadPlan
  /\ UNCHANGED <<cpus, settings, report>> /\ StartUnchanged

VerifyNext ==
  /\ asrAt = "loading" /\ Head(loading).does = "verify"
  /\ IF Head(loading).part \in intact
     THEN /\ verified' = verified \union {Head(loading).part}
          /\ loading' = Tail(loading) /\ UNCHANGED asrAt
     ELSE Ends("refused") /\ UNCHANGED verified
  /\ UNCHANGED <<cpus, settings, intact, loaded, report>>

\* A recognizer is made: its library is imported and its model opened.
LoadNext ==
  /\ asrAt = "loading" /\ Head(loading).does = "load"
  /\ loaded' = loaded \union {Head(loading).part}
  /\ loading' = Tail(loading)
  /\ asrAt' = IF loading' = <<>> THEN "serving" ELSE asrAt
  /\ UNCHANGED <<cpus, settings, intact, verified, report>>

\* Or it is not: no funasr_onnx or onnxruntime, an ImportError that main() does
\* not catch, or a model onnxruntime will not open.  Nothing is served.
LoadFails ==
  /\ asrAt = "loading" /\ Head(loading).does = "load"
  /\ Ends("failed")
  /\ UNCHANGED <<cpus, settings, report>> /\ StartUnchanged

StartNext ==
  \/ PinUnset \/ PinCpus \/ FromEnv \/ Override
  \/ Doctor \/ Verify \/ NextCommand \/ Serve \/ VerifyNext \/ LoadNext \/ LoadFails

StartSpec == StartInit /\ [][StartNext]_startVars

-----------------------------------------------------------------------------
(* "The second copy against the first": where the services read a list, the
   launcher gives llama.cpp the same cores and as many threads. *)
ParsersAgree ==
  LET set == ParseCpuList(cpus.list)
  IN set # {} => CpuMask(cpus.list) = HexMask(set) /\ Cardinality(Seen(cpus.list)) = Cardinality(set)

(* Nothing is loaded unverified; what is served is all that was asked for,
   within the limits the capacity manager is built on, and has no more threads
   than it has cores, unless somebody said how many. *)
ServesAsConfigured ==
  /\ loaded \subseteq verified
  /\ asrAt = "serving" =>
       /\ Accepts(settings) /\ cpus.may # {}
       /\ cpus.list # <<>> => cpus.may \subseteq Seen(cpus.list)
       /\ settings.threads \in Told \/ settings.threads <= Cardinality(cpus.may)
       /\ loaded = IF settings.backend = "mock" THEN {} ELSE settings.enabled

(* What doctor says of the settings and the files holds of the next command: no
   file and no backend it called "ok" is refused, and what it called not ok never
   serves, except behind the mock, which reads no files.  It says nothing of
   the libraries: a service it called ok may still fail to load. *)
DoctorTellsOfFiles ==
  /\ report = "ok" => asrAt # "refused"
  /\ report = "bad" /\ asrAt = "serving" => settings.backend = "mock"

(* All three: from the board's allocation to a service. *)
StartsAsConfigured == ParsersAgree /\ ServesAsConfigured /\ DoctorTellsOfFiles

=============================================================================
