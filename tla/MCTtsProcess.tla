---------------------------- MODULE MCTtsProcess ----------------------------
(* The TTS process, for TLC: the three threads that say a line, what a line   *)
(* becomes before they start (tokens, limits, half floats), what the flow     *)
(* model and the vocoder are shown while they run, and the process under its  *)
(* service.  The threads count tokens and know nothing of the others: a       *)
(* behaviour runs one of the four.                                            *)
EXTENDS TtsPipeline, TtsFlow, TtsText, TtsLifecycle

VARIABLE part

-----------------------------------------------------------------------------
(* The lines: all short texts over two letters with every table of up to     *)
(* three merges, and with special tokens that overlap; letters that cannot be *)
(* read, symbols without a token or a row; texts and contexts around the     *)
(* limits of the plan; halves around every change of exponent.               *)

Letters == {"a", "b"}
Texts(n) == UNION {[1..i -> Letters] : i \in 0..n}
Pieces == {<<"a">>, <<"b">>, <<"a", "a">>, <<"a", "b">>, <<"b", "a">>}

Trained ==
  {m \in UNION {[1..n -> Pieces \X Pieces] : n \in 0..3} :
     /\ IsInjective(m)
     /\ \A r \in DOMAIN m, i \in 1..2 : Len(m[r][i]) = 1 \/ \E q \in 1..(r - 1) : m[q][1] \o m[q][2] = m[r][i]}

NoLine ==
  [text |-> <<>>, merges |-> <<>>, specials |-> <<>>, cuts |-> {}, unreadable |-> {}, missing |-> {},
   rowless |-> {}, context |-> 40, half |-> 0]

AbThenAba == << <<<<"a">>, <<"b">>>>, <<<<"a", "b">>, <<"a">>>> >>

MergedLines == \E t \in Texts(5), m \in Trained : asked = [NoLine EXCEPT !.text = t, !.merges = m]

SpecialLines ==
  \E t \in Texts(5), cuts \in SUBSET {3, 5}, unreadable \in {{}, {"b"}},
     s \in {<< <<"a">>, <<"a", "b">> >>, << <<"b", "b">>, <<"a", "b", "b">>, <<"b", "b", "a">> >>} :
    asked = [NoLine EXCEPT !.text = t, !.merges = AbThenAba, !.specials = s, !.cuts = cuts,
                           !.unreadable = unreadable]

RefusedLines ==
  \E t \in Texts(5), missing, rowless \in {{}, {<<"b">>}, {<<"a", "b">>}, {<<"a">>, <<"a", "b">>}},
     unreadable \in {{}, {"b"}} :
    asked = [NoLine EXCEPT !.text = t, !.merges = AbThenAba, !.missing = missing,
                           !.rowless = rowless, !.unreadable = unreadable]

PlannedLines == \E n \in 0..7, c \in Contexts : asked = [NoLine EXCEPT !.text = [i \in 1..n |-> "a"], !.context = c]

Halves == {k * 1024 + j : k \in 0..30, j \in {0, 1, 2, 3, 4, 511, 512, 1021, 1022, 1023}}
            \union {31 * 1024 + j : j \in {0, 1, 2, 512, 1023}}
HalfLines == \E h \in Halves : asked = [NoLine EXCEPT !.half = h]

MCSynthTexts == {[id |-> i, blank |-> b, long |-> l, inside |-> n] : i, b, l \in BOOLEAN, n \in 0..1}

-----------------------------------------------------------------------------
MCInit ==
  /\ part \in {"threads", "flow", "text", "life"}
  /\ Init /\ FlowInit /\ LifeInit /\ said = NotSaid
  /\ part # "flow" => options = [whole |-> FALSE, steady |-> FALSE, batch |-> FALSE]
  /\ IF part = "text" THEN MergedLines \/ SpecialLines \/ RefusedLines \/ PlannedLines \/ HalfLines
     ELSE asked = NoLine

MCNext ==
  /\ UNCHANGED part
  /\ \/ part = "threads" /\ Next /\ UNCHANGED <<tensors, textVars, lifeVars>>
     \/ part = "flow" /\ FlowNext /\ UNCHANGED <<vars, textVars, lifeVars>>
     \/ part = "text" /\ TextNext /\ UNCHANGED <<vars, tensors, lifeVars>>
     \/ part = "life" /\ LifeNext /\ UNCHANGED <<vars, tensors, textVars>>

MCSpec == MCInit /\ [][MCNext]_<<part, vars, tensors, textVars, lifeVars>> /\ Fairness

(* The threads' Reports; the other parts have no report to make. *)
ThreadsReport == part = "threads" => Reports

=============================================================================
