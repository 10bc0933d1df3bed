-------------------------------- MODULE MCAsr --------------------------------
(* The ASR service, for TLC; below it the recognizer backend its threads     *)
(* share; before it the start of the process.  The service sees the backend  *)
(* only as calls that return or raise, and the backend nothing of the        *)
(* service: a behaviour runs one of the three.                               *)
EXTENDS AsrService, AsrBackend, AsrStartup, TLC

VARIABLE part

-----------------------------------------------------------------------------
\* Lists as a board has them, and as somebody may write them.
MCCpuLists ==
  {<<One(2)>>, <<Span(0, 3)>>, <<Span(0, 1), Blank, One(3)>>, <<One(1), One(1)>>, <<One(4), One(6)>>, <<Span(4, 9)>>,
   <<Span(3, 1)>>, <<Minus(3)>>, <<Junk>>, <<Blank>>, <<Blank, Blank>>}

MCLimits == {[slots |-> s, queued |-> q, connections |-> c] : s \in {0, 2}, q \in {-1, 0, 3}, c \in {0, 4, 5}}

-----------------------------------------------------------------------------
MCInit ==
  /\ part \in {"service", "backend", "start"}
  /\ Init /\ BackendInit /\ StartInit
  /\ part # "backend" => passes = {}
  /\ part # "start" => intact = {}

MCNext ==
  /\ UNCHANGED part
  /\ \/ part = "service" /\ Next /\ UNCHANGED <<backendVars, startVars>>
     \/ part = "backend" /\ BackendNext /\ UNCHANGED <<vars, startVars>>
     \/ part = "start" /\ StartNext /\ UNCHANGED <<vars, backendVars>>

MCSpec == MCInit /\ [][MCNext]_<<part, vars, backendVars, startVars>>

Symmetry == Permutations(Conns) \union Permutations(Leases) \union Permutations(Sessions)

=============================================================================
