------------------------------- MODULE TtsText -------------------------------
(***************************************************************************)
(* How the TTS process reads a line: cosyvoice2_text_frontend.cpp (the     *)
(* tokenizer and the rows of the prefill), plan_text() of the streaming    *)
(* pipeline, which fixes from the number of tokens how much may be said,   *)
(* and the half floats in which tensors go to the NPU.                     *)
(*                                                                         *)
(* A text is a sequence of letters and a symbol of the BPE the sequence it *)
(* spells; a token of the vocabulary is its symbol.  The pre-tokenizer     *)
(* cannot read every letter (bytes that are no UTF-8), the vocabulary need *)
(* not have every symbol, nor the table of embeddings a row for each.  A   *)
(* line, the tokenizer it is read with and a half float are chosen at the  *)
(* start.                                                                  *)
(***************************************************************************)
EXTENDS Integers, Sequences, FiniteSets, SequencesExt

CONSTANTS
  PromptText, PromptSpeech,   (* tokens of the voice profile's prompt     *)
  Contexts                    (* values of --max-context                  *)

ASSUME TextAssumption ==
  PromptText \in Nat \ {0} /\ PromptSpeech \in Nat \ {0} /\ Contexts \subseteq Nat \ {0}

VARIABLES
  asked,         (* [text, merges, specials, cuts, unreadable, missing, rowless,
                     context, half], never changed                        *)
  said           (* [tokens, plan, prefill, refused] or NotSaid           *)

textVars == <<asked, said>>

NotSaid == [tokens |-> <<>>, plan |-> <<>>, prefill |-> <<>>, refused |-> FALSE]

-----------------------------------------------------------------------------
(* ApplyBpe() *)

\* Every occurrence of the pair, from the left.
MergeAll(symbols, pair) ==
  FoldLeft(LAMBDA out, symbol :
             IF out # <<>> /\ Last(out) = pair[1] /\ symbol = pair[2]
             THEN Append(Front(out), pair[1] \o pair[2]) ELSE Append(out, symbol),
           <<>>, symbols)

\* The ranks of the pairs that are there.
Ranks(symbols, merges) ==
  {r \in DOMAIN merges : \E i \in 1..(Len(symbols) - 1) : merges[r] = <<symbols[i], symbols[i + 1]>>}

\* Mutant: the last learned merge comes first.
MergeBestLast(symbols, merges) ==
  LET ranks == Ranks(symbols, merges)
  IN IF ranks = {} THEN symbols
     ELSE MergeAll(symbols, merges[CHOOSE r \in ranks : \A q \in ranks : q <= r])

MergeBest(symbols, merges) ==
  LET ranks == Ranks(symbols, merges)
  IN IF ranks = {} THEN symbols
     ELSE MergeAll(symbols, merges[CHOOSE r \in ranks : \A q \in ranks : r <= q])

\* Until no pair is left, which each round makes shorter.
ApplyBpe(piece, merges) ==
  FoldLeft(LAMBDA symbols, round : MergeBest(symbols, merges),
           [i \in DOMAIN piece |-> <<piece[i]>>], piece)

-----------------------------------------------------------------------------
(* Tokenize() *)

Found(text, special, at) ==
  at + Len(special) - 1 <= Len(text) /\ SubSeq(text, at, at + Len(special) - 1) = special

\* The special token that begins first, the longest of those.
SpecialAt(text, specials, cursor) ==
  LET hits == {h \in (cursor..Len(text)) \X (DOMAIN specials) : Found(text, specials[h[2]], h[1])}
      length(h) == Len(specials[h[2]])
  IN IF hits = {} THEN <<>>
     ELSE CHOOSE h \in hits : \A g \in hits :
            h[1] < g[1] \/ (h[1] = g[1] /\ (length(h) > length(g) \/ (length(h) = length(g) /\ h[2] <= g[2])))

Token(symbol, special) == [symbol |-> symbol, special |-> special]

\* The pre-tokenizer, a regular expression, cuts what it can read into pieces
\* without a gap; each goes through the BPE.
Ordinary(text, from, to, a) ==
  LET starts == SetToSortSeq({i \in from..to : i = from \/ i \in a.cuts}, <)
      piece(k) == SubSeq(text, starts[k], IF k < Len(starts) THEN starts[k + 1] - 1 ELSE to)
      symbols == FlattenSeq([k \in DOMAIN starts |-> ApplyBpe(piece(k), a.merges)])
  IN [i \in DOMAIN symbols |-> Token(symbols[i], FALSE)]

TokensOf(a) ==
  LET from[cursor \in 1..(Len(a.text) + 1)] ==
        LET hit == SpecialAt(a.text, a.specials, cursor)
        IN IF cursor > Len(a.text) THEN <<>>
           ELSE IF hit = <<>> THEN Ordinary(a.text, cursor, Len(a.text), a)
           ELSE Ordinary(a.text, cursor, hit[1] - 1, a)
                  \o <<Token(a.specials[hit[2]], TRUE)>> \o from[hit[1] + Len(a.specials[hit[2]])]
  IN from[1]

\* What the regular expression stops at, and what it can read but not name.
Unspellable(t, a) ==
  ~t.special /\ (ToSet(t.symbol) \intersect a.unreadable # {} \/ t.symbol \in a.missing)

\* One such token, and the whole line is thrown out.
Tokenize(a) ==
  LET tokens == TokensOf(a)
  IN IF \E i \in DOMAIN tokens : Unspellable(tokens[i], a) THEN <<>> ELSE tokens

-----------------------------------------------------------------------------
(* plan_text() and BuildPrefill() *)

PrefillTokenCount(target) == 2 + PromptText + target + PromptSpeech

Row(table, row) == [table |-> table, row |-> row]
Control(row) == Row("control", row)
Prompted(table, n) == [i \in 1..n |-> Row(table, i)]

BuildPrefill(target) ==
  <<Control(0)>> \o Prompted("prompt text", PromptText)
    \o [i \in 1..target |-> Row("text", i)] \o <<Control(1)>> \o Prompted("prompt speech", PromptSpeech)

\* At least two speech tokens per token of the text, at most 20 and what the
\* context has room for; a line that leaves no choice is refused.
Plan(target, context) ==
  LET rows == PrefillTokenCount(target)
      lowest == IF 2 * target > 1 THEN 2 * target ELSE 1
      highest == IF 20 * target < context - rows THEN 20 * target ELSE context - rows
  IN IF rows >= context \/ highest <= lowest THEN <<>>
     ELSE <<[rows |-> rows, least |-> lowest, most |-> highest]>>

\* The text embedding has a row for every token.
ValidateIds(tokens, a) == \A i \in DOMAIN tokens : tokens[i].symbol \notin a.rowless

\* An empty line is skipped; one that is refused says nothing.  The rows are
\* asked for only when the line has been planned.
ReadLine ==
  /\ said = NotSaid /\ asked.text # <<>>
  /\ LET tokens == Tokenize(asked)
         plan == IF tokens = <<>> THEN <<>> ELSE Plan(Len(tokens), asked.context)
         refused == plan = <<>> \/ ~ValidateIds(tokens, asked)
     IN said' = [tokens |-> tokens, plan |-> plan, refused |-> refused,
                 prefill |-> IF refused THEN <<>> ELSE BuildPrefill(Len(tokens))]
  /\ UNCHANGED asked

-----------------------------------------------------------------------------
(* FloatToHalf() and HalfToFloat(), without the sign.  A field of bits is a  *)
(* range of the number's digits.  The process has FloatToHalf() three times: *)
(* the pipeline's own, for the tensors of the flow model, takes what is no   *)
(* number for infinity; those of the speech head and the vocoder keep it.    *)

Pow2 == [n \in 0..30 |-> 2^n]
Bit(n, i) == (n \div Pow2[i]) % 2

HalfToFloat(half) ==
  LET exponent == half \div Pow2[10]
      mantissa == half % Pow2[10]
      shift == CHOOSE s \in 1..10 : Bit(mantissa * Pow2[s], 10) = 1 /\ mantissa * Pow2[s] < Pow2[11]
  IN IF exponent = 31 THEN 255 * Pow2[23] + mantissa * Pow2[13]
     ELSE IF exponent > 0 THEN (exponent - 15 + 127) * Pow2[23] + mantissa * Pow2[13]
     ELSE IF mantissa = 0 THEN 0
     ELSE (127 - 14 - shift) * Pow2[23] + ((mantissa * Pow2[shift]) % Pow2[10]) * Pow2[13]

Rounded(mantissa) == mantissa + (IF Bit(mantissa, 12) = 1 THEN Pow2[13] ELSE 0)

FloatToHalf(float) ==
  LET exponent == (float \div Pow2[23]) - 127 + 15
      mantissa == float % Pow2[23]
      carried == Rounded(mantissa) >= Pow2[23]
  IN IF exponent < -10 THEN 0
     ELSE IF exponent <= 0 THEN Rounded((mantissa + Pow2[23]) \div Pow2[1 - exponent]) \div Pow2[13]
     ELSE IF exponent >= 31 THEN 31 * Pow2[10]
     ELSE IF carried THEN (exponent + 1) * Pow2[10]
     ELSE exponent * Pow2[10] + Rounded(mantissa) \div Pow2[13]

Infinity == 255 * Pow2[23]

FloatToHalfOfHead(float) ==
  LET payload == (float - Infinity) \div Pow2[13]
  IN IF float > Infinity THEN 31 * Pow2[10] + payload + (1 - Bit(payload, 0)) ELSE FloatToHalf(float)

TextNext == ReadLine

-----------------------------------------------------------------------------
(* What a token table as it was trained makes of a piece: of all pairs that
   can be merged the one learned first, and of those the leftmost, one at a
   time. *)
Reference(piece, merges) ==
  LET one(symbols) ==
        LET pairs == {p \in (DOMAIN merges) \X (1..(Len(symbols) - 1)) :
                        merges[p[1]] = <<symbols[p[2]], symbols[p[2] + 1]>>}
            best == CHOOSE p \in pairs : \A q \in pairs : p[1] < q[1] \/ (p[1] = q[1] /\ p[2] <= q[2])
        IN IF pairs = {} THEN symbols
           ELSE SubSeq(symbols, 1, best[2] - 1) \o <<symbols[best[2]] \o symbols[best[2] + 1]>>
                  \o SubSeq(symbols, best[2] + 2, Len(symbols))
  IN FoldLeft(LAMBDA symbols, i : one(symbols), [i \in DOMAIN piece |-> <<piece[i]>>], piece)

(* The tokens spell the line, and it is cut as the model was trained to read
   it: no special token is taken for text or for a shorter one, and a piece
   is merged in the order the merges were learned, although the code merges
   every occurrence of a pair at once.  A line is thrown out exactly when it
   has a letter that cannot be read or, cut that way, a symbol that is not in
   the vocabulary; special tokens are exempt from both. *)
TokensSpellTheLine ==
  LET spelled(i) == FoldSeq(LAMBDA t, n : n + Len(t.symbol), 0, SubSeq(said.tokens, 1, i))
      learned == Reference(asked.text, asked.merges)
      plain == asked.specials = <<>> /\ asked.cuts = {}
      thrownOut ==
        ToSet(asked.text) \intersect asked.unreadable # {} \/ ToSet(learned) \intersect asked.missing # {}
  IN /\ said # NotSaid /\ plain => (said.tokens = <<>> <=> thrownOut)
     /\ said.tokens # <<>> =>
          /\ FlattenSeq([i \in DOMAIN said.tokens |-> said.tokens[i].symbol]) = asked.text
          /\ \A i \in DOMAIN said.tokens, s \in ToSet(asked.specials) :
               Found(asked.text, s, spelled(i - 1) + 1) =>
                 said.tokens[i].special /\ Len(said.tokens[i].symbol) >= Len(s)
          /\ plain => [i \in DOMAIN said.tokens |-> said.tokens[i].symbol] = learned
     /\ said # NotSaid /\ said.tokens = <<>> => said.refused

(* What was planned is what is built: the prefill has the rows the limits were
   taken from, so that the longest utterance still fits the context, and the
   sampler is left a choice of when to end.  A line that is read and not
   refused has a plan and rows for all its tokens; one that is refused has no
   prefill to say anything from. *)
PlanHolds ==
  IF said = NotSaid \/ said.refused THEN said.prefill = <<>>
  ELSE LET plan == said.plan[1]
       IN /\ Len(said.prefill) = plan.rows
          /\ Len(said.prefill) + plan.most <= asked.context
          /\ 0 < plan.least /\ plan.least < plan.most
          /\ \A i \in DOMAIN said.tokens : said.tokens[i].symbol \notin asked.rowless

(* A line is read and laid out as planned: both of the above. *)
LinePrepared == TokensSpellTheLine /\ PlanHolds

(* With one copy of FloatToHalf(): a finite half is read back as
   itself, and a float between two of them goes to the nearest, upwards from
   the middle, also where the exponent changes, among the subnormals, between
   zero and the first of them and between the last half and infinity. *)
NearestHalf(convert(_), half) ==
  LET here == HalfToFloat(half)
      above == HalfToFloat(half + 1)
      middle == CASE half = 0 -> (127 - 25) * Pow2[23]
                  [] half = 31 * 1024 - 1 -> here + Pow2[12]
                  [] OTHER -> here + (above - here) \div 2
  IN /\ convert(here) = half
     /\ convert(middle - 1) = half /\ convert(middle) = half + 1
     /\ convert(above - 1) = half + 1

(* All copies of FloatToHalf() round alike, to the nearest half, and infinity
   stays infinity.  What is no number never becomes one: the speech head and
   the vocoder are given a half that is no number either, whichever bits of
   the float say so; the flow model, whose copy does not ask, gets infinity. *)
HalfIsNearest ==
  LET half == asked.half
      here == HalfToFloat(half)
      infinite == 31 * 1024
  IN IF half < infinite
     THEN NearestHalf(FloatToHalf, half) /\ NearestHalf(FloatToHalfOfHead, half)
     ELSE /\ half = infinite => FloatToHalf(here) = half /\ FloatToHalfOfHead(here) = half
          /\ \A nan \in {here, here + 1, here + Pow2[12], here + Pow2[13] - 1} :
               nan > Infinity => FloatToHalf(nan) = infinite /\ FloatToHalfOfHead(nan) > infinite

(* What reaches the NPU is what was asked: both of the above. *)
TextPrepared == LinePrepared /\ HalfIsNearest

=============================================================================
