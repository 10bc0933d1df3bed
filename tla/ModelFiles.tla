------------------------------ MODULE ModelFiles ------------------------------
(***************************************************************************)
(* The files of one LAYA model version directory: torch/, fetched against  *)
(* the sha256 of the manifest (artifacts.py), onnx/ and npu/, exported     *)
(* from it with the record export.json (export.py, export_npu.py), and the *)
(* .rknn files the board compiles from npu/ (laya_npu.py convert); and     *)
(* what load_engine() asks of them before it serves.                       *)
(*                                                                         *)
(* One command runs at a time and can fail, or be killed, at any point; a  *)
(* file that is not renamed into place is then left cut short.  The        *)
(* manifest may pin another revision at any time.                          *)
(***************************************************************************)
EXTENDS Integers, Sequences, FiniteSets

CONSTANTS
  TorchFiles, Generated, (* of the manifest: all files, and those written *)
                         (* from the manifest itself                      *)
  BucketSets,            (* the sequences of buckets one may export       *)
  MaxRevision, MaxExports

ASSUME FilesAssumption ==
  /\ "weights" \in TorchFiles \ Generated /\ Generated \subseteq TorchFiles
  /\ IsFiniteSet(TorchFiles) /\ BucketSets \subseteq Seq(STRING)
  /\ MaxRevision \in Nat \ {0} /\ MaxExports \in Nat \ {0}

VARIABLES
  pin,           (* the revision the manifest pins                        *)
  file,          (* what is in each file: a revision (torch), the number  *)
                 (* of an export, Absent or Cut                           *)
  made,          (* exports begun                                         *)
  record,        (* what export.json says when export n wrote it          *)
  job            (* the command that runs, the revision of the manifest   *)
                 (* it read, its export, and the files it has yet to see  *)

filesVars == <<pin, file, made, record, job>>

Absent == 0
Cut == -1

Torch(f) == <<"torch", "file", f>>
Graph == <<"onnx", "graph", "">>
Data == <<"onnx", "data", "">>
Tables == <<"npu", "tables", "">>     \* the embeddings, the scorer and the act head
Hidden(b) == <<"npu", "hidden", b>>
Rknn(b) == <<"npu", "rknn", b>>
RecordOf(d) == <<d, "record", "">>

NamesIn(s) == {s[i] : i \in 1..Len(s)}
Buckets == UNION {NamesIn(s) : s \in BucketSets}
Files ==
  {Torch(f) : f \in TorchFiles} \union {Graph, Data, Tables}
    \union {Hidden(b) : b \in Buckets} \union {Rknn(b) : b \in Buckets}
    \union {RecordOf("onnx"), RecordOf("npu")}

NoJob == [kind |-> "none", at |-> "none", revision |-> 0, export |-> 0, todo |-> <<>>]
NoRecord == [revision |-> 0, files |-> {}]

FilesInit ==
  /\ pin = 1 /\ made = 0 /\ job = NoJob
  /\ file = [x \in Files |-> Absent]
  /\ record = [n \in 1..MaxExports |-> NoRecord]

Repin == pin < MaxRevision /\ pin' = pin + 1 /\ UNCHANGED <<file, made, record, job>>

-----------------------------------------------------------------------------
(* verify_torch() and verify_onnx(), without checksums as load_engine() and *)
(* the exports call them.                                                   *)

TorchPresent(files) ==
  /\ \A f \in files : file[Torch(f)] # Absent
  /\ \A f \in Generated : file[Torch(f)] = pin

\* Mutant: the graph is enough.
OnnxUnrecorded == file[Graph] # Absent

OnnxPresent ==
  /\ file[Graph] # Absent
  /\ file[RecordOf("onnx")] \notin {Absent, Cut}
  /\ LET r == record[file[RecordOf("onnx")]]
     IN r.revision = pin /\ \A x \in r.files : file[x] # Absent

OnnxLoads == TorchPresent(TorchFiles \ {"weights"}) /\ OnnxPresent

Compiled == {b \in Buckets : file[Rknn(b)] # Absent}

\* RknnBackend: what is cut does not load; the export's record is not asked.
RknnLoads ==
  /\ TorchPresent(TorchFiles \ {"weights"})
  /\ Compiled # {} /\ Cut \notin {file[Rknn(b)] : b \in Compiled}
  /\ file[Tables] \notin {Absent, Cut}

-----------------------------------------------------------------------------
(* fetch_torch() *)

InOrder(S) == {s \in [1..Cardinality(S) -> S] : NamesIn(s) = S}

\* The generated files are written whether they are there or not, then the
\* others are seen in the order of the manifest, unless all is verified; the
\* check ends the command when a generated file is cut short, which is no JSON.
FetchStart ==
  /\ job = NoJob
  /\ \A f \in Generated : file[Torch(f)] # Cut
  /\ \E f \in TorchFiles : file[Torch(f)] # pin
  /\ \E g \in InOrder(Generated), o \in InOrder(TorchFiles \ Generated) :
       job' = [NoJob EXCEPT !.kind = "fetch", !.at = "fetch", !.revision = pin, !.todo = g \o o]
  /\ UNCHANGED <<pin, file, made, record>>

GenerateFile ==
  /\ job.at = "fetch" /\ job.todo # <<>> /\ Head(job.todo) \in Generated
  /\ file' = [file EXCEPT ![Torch(Head(job.todo))] = job.revision]
  /\ job' = [job EXCEPT !.todo = Tail(@)]
  /\ UNCHANGED <<pin, made, record>>

\* A file of the pinned revision is left alone; what comes for another goes
\* to .part, and from there into its place only if it is what was pinned.
Fetch ==
  /\ job.at = "fetch" /\ job.todo # <<>> /\ Head(job.todo) \notin Generated
  /\ LET x == Torch(Head(job.todo))
     IN \E got \in {job.revision, Cut} :
          IF file[x] = job.revision THEN job' = [job EXCEPT !.todo = Tail(@)] /\ UNCHANGED file
          ELSE IF got # job.revision THEN job' = NoJob /\ UNCHANGED file
          ELSE job' = [job EXCEPT !.todo = Tail(@)] /\ file' = [file EXCEPT ![x] = got]
  /\ UNCHANGED <<pin, made, record>>

FetchEnds ==
  /\ job.at = "fetch" /\ job.todo = <<>>
  /\ job' = NoJob
  /\ UNCHANGED <<pin, file, made, record>>

-----------------------------------------------------------------------------
(* export_onnx() and export_npu(), behind cmd_export() and cmd_export_npu() *)

\* "already exported"; an export.json of onnx/ that is cut short ends the
\* command, even with --force.
Skips(d, force) ==
  IF d = "npu" THEN file[RecordOf(d)] # Absent /\ ~force
  ELSE file[Graph] # Absent /\ file[RecordOf(d)] # Absent /\ (~force \/ file[RecordOf(d)] = Cut)

ExportStart(d, force) ==
  /\ job = NoJob /\ made < MaxExports
  /\ TorchPresent(TorchFiles) /\ ~Skips(d, force)
  /\ made' = made + 1
  /\ \E buckets \in BucketSets :
       job' = [kind |-> d, at |-> "delete", revision |-> pin, export |-> made + 1,
               todo |-> IF d = "onnx" THEN <<Data, Graph, Graph>>
                        ELSE <<Tables>> \o [i \in 1..Len(buckets) |-> Hidden(buckets[i])]]
  /\ UNCHANGED <<pin, file, record>>

Present(d) == {x \in Files : x[1] = d /\ file[x] # Absent}

\* Everything in the directory.
Stale(d) == Present(d)

\* In the order of the directory, which is any.
ExportDelete ==
  /\ job.at = "delete"
  /\ \/ \E x \in Stale(job.kind) : file' = [file EXCEPT ![x] = Absent] /\ UNCHANGED job
     \/ Stale(job.kind) = {} /\ job' = [job EXCEPT !.at = "write"] /\ UNCHANGED file
  /\ UNCHANGED <<pin, made, record>>

\* The graph of onnx/ is written twice: as exported, and without its shapes.
ExportWrite ==
  /\ job.at = "write" /\ job.todo # <<>>
  /\ file' = [file EXCEPT ![Head(job.todo)] = job.export]
  /\ job' = [job EXCEPT !.todo = Tail(@)]
  /\ UNCHANGED <<pin, made, record>>

\* After the parity check, with the checksum of every file that is there.
ExportRecord ==
  /\ job.at = "write" /\ job.todo = <<>>
  /\ record' = [record EXCEPT ![job.export] = [revision |-> job.revision, files |-> Present(job.kind) \ {RecordOf(job.kind)}]]
  /\ file' = [file EXCEPT ![RecordOf(job.kind)] = job.export]
  /\ job' = NoJob
  /\ UNCHANGED <<pin, made>>

-----------------------------------------------------------------------------
(* laya_npu.py convert *)

ConvertStart(force) ==
  /\ job = NoJob
  /\ \E buckets \in BucketSets :
       /\ NamesIn(buckets) = {b \in Buckets : file[Hidden(b)] # Absent}
       /\ job' = [NoJob EXCEPT !.kind = "convert", !.at = "convert",
                    !.todo = SelectSeq(buckets, LAMBDA b : force \/ file[Rknn(b)] = Absent)]
  /\ UNCHANGED <<pin, file, made, record>>

\* A graph that is cut does not load.
Convert ==
  /\ job.at = "convert" /\ job.todo # <<>> /\ file[Hidden(Head(job.todo))] # Cut
  /\ file' = [file EXCEPT ![Rknn(Head(job.todo))] = file[Hidden(Head(job.todo))]]
  /\ job' = [job EXCEPT !.todo = Tail(@)]
  /\ UNCHANGED <<pin, made, record>>

ConvertEnds ==
  /\ job.at = "convert" /\ job.todo = <<>>
  /\ job' = NoJob
  /\ UNCHANGED <<pin, file, made, record>>

-----------------------------------------------------------------------------
\* The file a command writes in its place at the moment.
Writing ==
  CASE job.at = "fetch" -> {Torch(f) : f \in Generated \cap {job.todo[1]}}
    [] job.at = "write" -> {IF job.todo = <<>> THEN RecordOf(job.kind) ELSE Head(job.todo)}
    [] job.at = "convert" -> {Rknn(job.todo[1])}
    [] OTHER -> {}

JobKilled ==
  /\ job # NoJob /\ job' = NoJob
  /\ \/ UNCHANGED file
     \/ /\ job.todo # <<>> \/ job.at = "write"
        /\ \E x \in Writing : file' = [file EXCEPT ![x] = Cut]
  /\ UNCHANGED <<pin, made, record>>

FilesNext ==
  \/ Repin
  \/ FetchStart \/ GenerateFile \/ Fetch \/ FetchEnds
  \/ \E d \in {"onnx", "npu"}, force \in BOOLEAN : ExportStart(d, force)
  \/ ExportDelete \/ ExportWrite \/ ExportRecord
  \/ \E force \in BOOLEAN : ConvertStart(force)
  \/ Convert \/ ConvertEnds
  \/ JobKilled

FilesSpec == FilesInit /\ [][FilesNext]_filesVars

-----------------------------------------------------------------------------
(* However a fetch was broken off, whatever came over the network: a torch
   file in its place is a whole file of a pinned revision, and a fetch that
   ends well leaves every file at the revision it was asked for. *)
TorchSound ==
  /\ \A f \in TorchFiles \ Generated : file[Torch(f)] \in 0..pin
  /\ job.at = "fetch" /\ job.todo = <<>> => \A f \in TorchFiles : file[Torch(f)] = job.revision

(* What an engine loads is one whole export, never the files of two or half
   of one: the graph with its own weights, checked and of the pinned
   revision, and the compiled graphs with the tables of their own export. *)
ExportsWhole ==
  /\ OnnxLoads =>
       /\ file[Graph] = file[RecordOf("onnx")] /\ file[Data] = file[Graph]
       /\ record[file[Graph]].revision = pin
  /\ RknnLoads => \A b \in Compiled : file[Rknn(b)] = file[Tables]

(* Files of one model are of one origin: both of the above. *)
FilesOfOneModel == TorchSound /\ ExportsWhole

=============================================================================
