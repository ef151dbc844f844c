--------------------------------- MODULE XD3Djw -------------------------------
(***************************************************************************)
(* The static Huffman coder with several tables (xdelta3-djw.h).  The      *)
(* encoder divides a section into sectors and looks, in a few iterations,  *)
(* for a small set of tables and the table that suits each sector; it      *)
(* sends the code lengths of the tables and the choices, both by           *)
(* move-to-front, run lengths in two digits, and a Huffman code of their   *)
(* own; then the section.  The decoder rebuilds all codes from lengths.    *)
(*                                                                         *)
(* A section is a sequence of symbols 0 .. Alphabet - 1, a table the       *)
(* function from symbols to code lengths.  All sizes of the code are       *)
(* constants here, and are scaled down together.                           *)
(***************************************************************************)
EXTENDS XD3Second, FiniteSets, SequencesExt, FiniteSetsExt

CONSTANTS Alphabet,                     \* ALPHABET_SIZE
          DJW_MAX_CODELEN, DJW_MAX_CLCLEN, DJW_CLCLEN_BITS, DJW_MAX_GBCLEN,
          DJW_GBCLEN_BITS, DJW_MAX_GROUPS, DJW_GROUP_BITS, DJW_SECTORSZ_MULT,
          DJW_SECTORSZ_BITS, DJW_EXTRA_CODE_BITS, DJW_MAX_ITER,
          DJW_MIN_IMPROVEMENT, EFFICIENCY_BITS,
          djw_encode_12basic, djw_encode_12extra,  \* the lengths, likely ones first
          Suggested,     \* [section type -> sequence of <<below size, groups, sector size>>]
          SectorDefault, \* [section type -> sector size]
          Jobs           \* sections and configurations to try

RUN_0 == 0
RUN_1 == 1
DJW_TOTAL_CODES == DJW_MAX_CODELEN + 2
DJW_EXTRA_12OFFSET == Len(djw_encode_12basic) + 2
DJW_SECTORSZ_MAX == 2 ^ DJW_SECTORSZ_BITS * DJW_SECTORSZ_MULT
Letter == 0 .. Alphabet - 1

ASSUME DjwAssumption ==
  /\ 1 + Len(djw_encode_12basic) + Len(djw_encode_12extra) = DJW_MAX_CODELEN + 1
  /\ DJW_MAX_CLCLEN = 2 ^ DJW_CLCLEN_BITS - 1 /\ DJW_MAX_GBCLEN = 2 ^ DJW_GBCLEN_BITS - 1
  /\ DJW_MAX_GROUPS = 2 ^ DJW_GROUP_BITS
  /\ Len(djw_encode_12extra) < 2 ^ DJW_EXTRA_CODE_BITS
  /\ Alphabet <= 2 ^ DJW_MAX_CODELEN /\ DJW_TOTAL_CODES <= 2 ^ DJW_MAX_CLCLEN

VARIABLES job, stage, groups, sector_size,
          clens,      \* evolve_clen: the tables, one per group
          gbest,      \* the group of each sector
          niter, best_bits,
          sent,       \* the bits of the compressed section
          result      \* what the decoder makes of them

djwVars == <<job, stage, groups, sector_size, clens, gbest, niter, best_bits, sent, result>>

Sum(f) == FoldFunction(+, 0, f)
Count(s, x) == Cardinality({k \in 1 .. Len(s) : s[k] = x})

-----------------------------------------------------------------------------
(* djw_build_prefix: code lengths from frequencies.  An entry of the tree  *)
(* has its weight, its depth and its parent; 0 is no entry.                *)

Less(ents, a, b) ==
  \/ ents[a].freq < ents[b].freq
  \/ ents[a].freq = ents[b].freq /\ ents[a].depth < ents[b].depth
Swapped(heap, p, q) == [heap EXCEPT ![p] = heap[q], ![q] = heap[p]]

RECURSIVE SiftUp(_, _, _), SiftDown(_, _, _)
SiftUp(ents, heap, p) ==
  IF p = 1 \/ ~ Less(ents, heap[p], heap[p \div 2]) THEN heap
  ELSE SiftUp(ents, Swapped(heap, p, p \div 2), p \div 2)
SiftDown(ents, heap, p) ==
  LET l == 2 * p
      c == IF l < Len(heap) /\ Less(ents, heap[l + 1], heap[l]) THEN l + 1 ELSE l
  IN  IF l > Len(heap) \/ ~ Less(ents, heap[c], heap[p]) THEN heap
      ELSE SiftDown(ents, Swapped(heap, p, c), c)
HeapInsert(ents, heap, e) == SiftUp(ents, Append(heap, e), Len(heap) + 1)
HeapExtract(ents, heap) ==
  SiftDown(ents, [Front(heap) EXCEPT ![1] = heap[Len(heap)]], 1)
Without(ents, heap) == IF Len(heap) = 1 THEN <<>> ELSE HeapExtract(ents, heap)

RECURSIVE Initial(_, _, _), Joined(_, _, _), Ancestors(_, _)
Initial(ents, heap, todo) ==
  IF todo = <<>> THEN heap ELSE Initial(ents, HeapInsert(ents, heap, Head(todo)), Tail(todo))
Joined(ents, heap, next) ==
  IF Len(heap) = 1 THEN ents
  ELSE LET h1 == heap[1]  rest == Without(ents, heap)
           h2 == rest[1]
           both == [freq |-> ents[h1].freq + ents[h2].freq, parent |-> 0,
                    depth |-> 1 + Max({ents[h1].depth, ents[h2].depth})]
           e == [ents EXCEPT ![next] = both, ![h1].parent = next, ![h2].parent = next]
       IN  Joined(e, HeapInsert(e, Without(ents, rest), next), next + 1)
Ancestors(ents, i) == IF ents[i].parent = 0 THEN 0 ELSE 1 + Ancestors(ents, ents[i].parent)

\* When codes get too long the tree is built again from flatter frequencies.  (A
\* symbol that does not occur gets a code by this.)
Flatter(w) == w \div 2 + 1

RECURSIVE Lengths(_, _, _)
Lengths(freq, weights, maxlen) ==
  LET asize == Cardinality(DOMAIN freq)
      live  == SelectSeq([k \in 1 .. asize |-> k], LAMBDA i : weights[i - 1] # 0)
      fake  == IF freq[0] # 0 THEN asize - 1 ELSE 0
      ents  == [i \in 1 .. 2 * asize |->
                  [freq |-> IF i <= asize THEN weights[i - 1] ELSE 0, depth |-> 0, parent |-> 0]]
      tree  == Joined(ents, Initial(ents, <<>>, live), asize + 1)
      clen  == [s \in DOMAIN freq |-> IF weights[s] = 0 THEN 0 ELSE Ancestors(tree, s + 1)]
  IN  IF Len(live) = 1 THEN Lengths(freq, [weights EXCEPT ![fake] = 1], maxlen)
      ELSE IF \E s \in DOMAIN freq : clen[s] > maxlen
      THEN Lengths(freq, [s \in DOMAIN freq |-> Flatter(weights[s])], maxlen)
      ELSE clen
BuildPrefix(freq, maxlen) == Lengths(freq, freq, maxlen)
TotalBits(clen, freq) == Sum([s \in DOMAIN freq |-> clen[s] * freq[s]])

-----------------------------------------------------------------------------
(* djw_build_codes and djw_build_decoder: canonical codes from lengths, on *)
(* both sides.                                                             *)

OfLength(clen, l) == {s \in DOMAIN clen : clen[s] = l}
LongestOf(clen) == Max({clen[s] : s \in DOMAIN clen})
ShortestOf(clen) == Min({clen[s] : s \in DOMAIN clen} \ {0})

RECURSIVE FirstCode(_, _)
FirstCode(clen, l) ==
  IF l <= ShortestOf(clen) THEN 0
  ELSE 2 * (FirstCode(clen, l - 1) + Cardinality(OfLength(clen, l - 1)))
BuildCodes(clen) ==
  [s \in DOMAIN clen |-> FirstCode(clen, clen[s])
                         + Cardinality({t \in OfLength(clen, clen[s]) : t < s})]
Code(clen, codes, s) == EncodeBits(clen[s], codes[s])

BuildDecoder(clen) ==
  LET lens == 1 .. LongestOf(clen)
      shorter(l) == Cardinality({s \in DOMAIN clen : clen[s] # 0 /\ clen[s] < l})
  IN  [min |-> ShortestOf(clen), max |-> LongestOf(clen),
       limit |-> [l \in lens |-> FirstCode(clen, l) + Cardinality(OfLength(clen, l)) - 1],
       base  |-> [l \in lens |-> FirstCode(clen, l) - shorter(l)],
       inorder |-> SortSeq(SetToSeq({s \in DOMAIN clen : clen[s] # 0}),
                           LAMBDA s, t : \/ clen[s] < clen[t]
                                         \/ clen[s] = clen[t] /\ s < t)]

\* djw_decode_symbol, from the bits behind pos.
RECURSIVE DecodeSymbol(_, _, _, _, _)
DecodeSymbol(D, bits, pos, n, code) ==
  LET c == 2 * code + bits[pos + 1] IN
  IF n = D.max \/ pos = Len(bits) THEN [ok |-> FALSE, pos |-> pos, sym |-> 0]
  ELSE IF n + 1 >= D.min /\ c <= D.limit[n + 1]
  THEN IF c - D.base[n + 1] \in 0 .. Len(D.inorder) - 1
       THEN [ok |-> TRUE, pos |-> pos + 1, sym |-> D.inorder[c - D.base[n + 1] + 1]]
       ELSE [ok |-> FALSE, pos |-> pos, sym |-> 0]
  ELSE DecodeSymbol(D, bits, pos + 1, n + 1, c)

-----------------------------------------------------------------------------
(* Move to front, and runs of the front in the two digits RUN_0, RUN_1.    *)

ToFront(mtf, j) == <<mtf[j + 1]>> \o SubSeq(mtf, 1, j) \o SubSeq(mtf, j + 2, Len(mtf))

\* djw_update_1_2.
RECURSIVE Run12(_), Mtf12(_, _, _)
Run12(run) ==
  <<(run - 1) % 2>> \o (IF (run - 1) \div 2 >= 1 THEN Run12((run - 1) \div 2) ELSE <<>>)
RunOf(run) == IF run > 0 THEN Run12(run) ELSE <<>>
\* djw_compute_mtf_1_2.
Mtf12(symbols, mtf, run) ==
  IF symbols = <<>> THEN RunOf(run)
  ELSE LET j == (CHOOSE k \in 1 .. Len(mtf) : mtf[k] = Head(symbols)) - 1
       IN  IF j = 0 THEN Mtf12(Tail(symbols), mtf, run + 1)
           ELSE RunOf(run) \o <<j + RUN_1>> \o Mtf12(Tail(symbols), ToFront(mtf, j), 0)

FreqOf(symbols, nsym) == [s \in 0 .. nsym - 1 |-> Count(symbols, s)]
ClenMtf == <<0>> \o djw_encode_12basic \o djw_encode_12extra

\* djw_decode_1_2.  While the lengths of a table behind the first are read, those
\* of symbols that do not occur are known from the table before.
RepeatOfOnce(mtf, s) == mtf + 1    \* a slip
RepeatOf(mtf, s) == (mtf + 1) * 2 ^ s
Known(values, skip) ==
  skip # 0 /\ Len(values) >= skip /\ values[Len(values) - skip + 1] = 0
RECURSIVE Decode12(_, _, _, _, _, _)
Decode12(D, bits, elts, skip, r, values) ==
  LET d == DecodeSymbol(D, bits, r.pos, 0, 0) IN
  CASE Len(values) >= elts -> [r EXCEPT !.ok = r.rep = 0, !.values = values]
    [] Len(values) < elts /\ Known(values, skip) ->
         Decode12(D, bits, elts, skip, r, Append(values, 0))
    [] Len(values) < elts /\ ~ Known(values, skip) /\ r.rep # 0 ->
         Decode12(D, bits, elts, skip, [r EXCEPT !.rep = @ - 1], Append(values, r.mtf[1]))
    [] Len(values) < elts /\ ~ Known(values, skip) /\ r.rep = 0 /\ r.next # 0 ->
         Decode12(D, bits, elts, skip, [r EXCEPT !.mtf = ToFront(@, r.next), !.next = 0],
                  Append(values, r.mtf[r.next + 1]))
    [] OTHER ->
         IF ~ d.ok THEN [r EXCEPT !.ok = FALSE, !.values = values]
         ELSE IF d.sym <= RUN_1
         THEN Decode12(D, bits, elts, skip,
                       [r EXCEPT !.pos = d.pos, !.rep = RepeatOf(d.sym, r.s), !.s = @ + 1], values)
         ELSE Decode12(D, bits, elts, skip,
                       [r EXCEPT !.pos = d.pos, !.next = d.sym - RUN_1, !.s = 0], values)
Start12(pos, mtf) ==
  [ok |-> TRUE, pos |-> pos, rep |-> 0, next |-> 0, s |-> 0, mtf |-> mtf, values |-> <<>>]
-----------------------------------------------------------------------------
(* The parts of a compressed section.                                      *)

\* djw_encode_prefix: the lengths of the codes for the lengths, then the lengths.
LengthCodes(symbols) == BuildPrefix(FreqOf(Mtf12(symbols, ClenMtf, 0), DJW_TOTAL_CODES),
                                    DJW_MAX_CLCLEN)
NumToEncode(clclen) == Max({DJW_EXTRA_12OFFSET} \cup {s + 1 : s \in {t \in DOMAIN clclen : clclen[t] # 0}})
Coded(symbols, clen) ==
  LET codes == BuildCodes(clen)
  IN  FlattenSeq([k \in 1 .. Len(symbols) |-> Code(clen, codes, symbols[k])])
EncodePrefix(symbols) ==
  LET clclen == LengthCodes(symbols)
      num == NumToEncode(clclen)
  IN  EncodeBits(DJW_EXTRA_CODE_BITS, num - DJW_EXTRA_12OFFSET)
      \o FlattenSeq([k \in 1 .. num |-> EncodeBits(DJW_CLCLEN_BITS, clclen[k - 1])])
      \o Coded(Mtf12(symbols, ClenMtf, 0), clclen)

\* djw_compute_multi_prefix: the tables behind the first without the lengths 0.
Table(clen) == [k \in 1 .. Alphabet |-> clen[k - 1]]
MultiPrefix(tables) ==
  Table(tables[1])
  \o FlattenSeq([k \in 1 .. Len(tables) - 1 |-> SelectSeq(Table(tables[k + 1]), LAMBDA l : l # 0)])

SelectorMtf(n) == [k \in 1 .. n |-> k - 1]
SelectorCodes(best, n) ==
  BuildPrefix(FreqOf(Mtf12(best, SelectorMtf(n), 0), n + 1), DJW_MAX_GBCLEN)
EncodeSelectors(best, n) ==
  LET clen == SelectorCodes(best, n)
  IN  FlattenSeq([k \in 1 .. n + 1 |-> EncodeBits(DJW_GBCLEN_BITS, clen[k - 1])])
      \o Coded(Mtf12(best, SelectorMtf(n), 0), clen)

\* The sectors of a section; the last may be short.
Sectors(n, size) == 1 + (n - 1) \div size
Sector(input, size, k) == SubSeq(input, (k - 1) * size + 1, Min({k * size, Len(input)}))
EncodeData(input, size, tables, best) ==
  FlattenSeq([k \in 1 .. Len(best) |-> Coded(Sector(input, size, k), tables[best[k] + 1])])

\* djw_decode_clclen and djw_decode_prefix; then the selectors, if there is a
\* choice; then the sectors.
BitsAt(bits, pos, n) == ValueOf(SubSeq(bits, pos + 1, pos + n))
DecodeTables(bits, pos, n) ==
  LET num == BitsAt(bits, pos, DJW_EXTRA_CODE_BITS) + DJW_EXTRA_12OFFSET
      at  == pos + DJW_EXTRA_CODE_BITS
      clclen == [s \in 0 .. DJW_TOTAL_CODES - 1 |->
                   IF s < num THEN BitsAt(bits, at + s * DJW_CLCLEN_BITS, DJW_CLCLEN_BITS) ELSE 0]
  IN  Decode12(BuildDecoder(clclen), bits, Alphabet * n, Alphabet,
               Start12(at + num * DJW_CLCLEN_BITS, ClenMtf), <<>>)
DecodeSelectors(bits, pos, n, sectors) ==
  LET clen == [s \in 0 .. n |-> BitsAt(bits, pos + s * DJW_GBCLEN_BITS, DJW_GBCLEN_BITS)]
  IN  IF n = 1 THEN [Start12(pos, <<0>>) EXCEPT !.values = [k \in 1 .. sectors |-> 0]]
      ELSE Decode12(BuildDecoder(clen), bits, sectors, 0,
                    Start12(pos + (n + 1) * DJW_GBCLEN_BITS, SelectorMtf(n + 1)), <<>>)

RECURSIVE DecodeData(_, _, _, _, _, _)
DecodeData(bits, pos, size, decoders, best, out) ==
  LET d == DecodeSymbol(decoders[best[1 + Len(out) \div size] + 1], bits, pos, 0, 0)
  IN  IF Len(out) = Len(job.input) THEN [ok |-> UsedUp(bits, pos), out |-> out]
      ELSE IF ~ d.ok THEN [ok |-> FALSE, out |-> out]
      ELSE DecodeData(bits, d.pos, size, decoders, best, Append(out, d.sym))

DecodeHuff(bits, n) ==
  LET g    == BitsAt(bits, 0, DJW_GROUP_BITS) + 1
      size == IF g = 1 THEN n
              ELSE (BitsAt(bits, DJW_GROUP_BITS, DJW_SECTORSZ_BITS) + 1) * DJW_SECTORSZ_MULT
      tabs == DecodeTables(bits, DJW_GROUP_BITS + (IF g = 1 THEN 0 ELSE DJW_SECTORSZ_BITS), g)
      clen(k) == [s \in Letter |-> tabs.values[(k - 1) * Alphabet + s + 1]]
      sel  == DecodeSelectors(bits, tabs.pos, g, Sectors(n, size))
  IN  IF ~ tabs.ok \/ ~ sel.ok THEN [ok |-> FALSE, out |-> <<>>]
      ELSE DecodeData(bits, sel.pos, size, [k \in 1 .. g |-> BuildDecoder(clen(k))],
                      sel.values, <<>>)

-----------------------------------------------------------------------------
(* xd3_encode_huff.                                                        *)

RealFreq == FreqOf(job.input, Alphabet)
InputBits == ByteBits * Len(job.input)
\* Not worth it: output->next counts the whole bytes of the page.
Inefficient(output_bits, out) ==
  /\ output_bits + ByteBits * (SizeBytes + Len(out) \div ByteBits) + EFFICIENCY_BITS >= InputBits
  /\ ~ job.inefficient
InefficientCode(output_bits) == output_bits + EFFICIENCY_BITS >= InputBits /\ ~ job.inefficient

\* xd3_encode_howmany_groups.
ValidConfig ==
  /\ job.ngroups <= DJW_MAX_GROUPS
  /\ job.sector_size # 0 =>
       /\ job.sector_size \in DJW_SECTORSZ_MULT .. DJW_SECTORSZ_MAX
       /\ job.sector_size % DJW_SECTORSZ_MULT = 0
Suggestion ==
  LET t == Suggested[job.data_type]
  IN  t[Min({k \in 1 .. Len(t) : k = Len(t) \/ Len(job.input) < t[k][1]})]
HowMany ==
  /\ stage = "howmany"
  /\ IF ValidConfig
     THEN LET n == IF job.ngroups # 0 THEN job.ngroups ELSE Suggestion[2]
              z == IF job.sector_size # 0 THEN job.sector_size
                   ELSE Suggestion[3]
          IN  /\ stage' = "group" /\ groups' = n
              /\ sector_size' = IF n # 1 /\ z = 0 THEN SectorDefault[job.data_type] ELSE z
     ELSE stage' = "invalid" /\ UNCHANGED <<groups, sector_size>>
  /\ UNCHANGED <<job, clens, gbest, niter, best_bits, sent, result>>

SingleGroup ==
  /\ stage = "group" /\ groups = 1
  /\ LET clen == BuildPrefix(RealFreq, DJW_MAX_CODELEN)
         bits == TotalBits(clen, RealFreq)
         head == EncodeBits(DJW_GROUP_BITS, 0) \o EncodePrefix(Table(clen))
     IN  IF InefficientCode(bits) \/ Inefficient(bits, head)
         THEN stage' = "nosecond" /\ UNCHANGED <<clens, gbest, best_bits, sent>>
         ELSE /\ stage' = "sent" /\ clens' = <<clen>> /\ gbest' = <<0>> /\ best_bits' = bits
              /\ sent' = Flushed(head \o EncodeData(job.input, Len(job.input), <<clen>>, <<0>>))
  /\ UNCHANGED <<job, groups, sector_size, niter, result>>

\* The first tables divide the alphabet into ranges of about the same weight.
RECURSIVE Advance(_, _, _), FirstTables(_, _, _, _)
Advance(goal, sym, sum) ==
  IF sum >= goal THEN [sym |-> sym, sum |-> sum]
  ELSE Advance(goal, sym + 1, sum + RealFreq[sym])
FirstTables(left, n, sym1, sym2) ==
  LET goal == left \div n
      a == Advance(goal, sym2, 0)
      table == [s \in Letter |-> IF s \in sym1 .. a.sym THEN 1 ELSE 16]
      rest == FirstTables(left - a.sum, n - 1, a.sym + 1, a.sym)
  IN  IF n = 0 THEN [ok |-> TRUE, tables |-> <<>>]
      ELSE IF goal = 0 /\ ~ job.inefficient THEN [ok |-> FALSE, tables |-> <<>>]
      ELSE [ok |-> rest.ok, tables |-> <<table>> \o rest.tables]

\* With too many groups for the section the encoder begins again with one less.
DivideGroups ==
  /\ stage = "group" /\ groups > 1
  /\ LET t == FirstTables(Len(job.input), groups, 0, 0)
     IN  IF t.ok THEN /\ clens' = t.tables /\ stage' = "iterate" /\ UNCHANGED groups
         ELSE groups' = groups - 1 /\ UNCHANGED <<clens, stage>>
  /\ UNCHANGED <<job, sector_size, gbest, niter, best_bits, sent, result>>

\* One iteration: the cheapest table for each sector, the first of several; then
\* each table anew from the sectors that chose it.  A symbol of the section gets a
\* code in every table.
Cost(clen, symbols) == Sum([k \in 1 .. Len(symbols) |-> clen[symbols[k]]])
Winner(symbols) ==
  Min({g \in 1 .. groups :
         \A h \in 1 .. groups : Cost(clens[g], symbols) <= Cost(clens[h], symbols)}) - 1
Faked(freq) == [s \in Letter |-> IF freq[s] = 0 /\ RealFreq[s] # 0 THEN 1 ELSE freq[s]]
Iterate ==
  /\ stage = "iterate"
  /\ LET best == [k \in 1 .. Sectors(Len(job.input), sector_size) |->
                     Winner(Sector(job.input, sector_size, k))]
         freq(g) == FreqOf(FlattenSeq([k \in 1 .. Len(best) |->
                              IF best[k] = g - 1 THEN Sector(job.input, sector_size, k) ELSE <<>>]),
                           Alphabet)
         tables == [g \in 1 .. groups |-> BuildPrefix(Faked(freq(g)), DJW_MAX_CODELEN)]
         bits == Sum([g \in 1 .. groups |-> TotalBits(tables[g], freq(g))])
         again == \/ niter = 0
                  \/ /\ niter + 1 < DJW_MAX_ITER
                     /\ best_bits < bits \/ best_bits - bits >= DJW_MIN_IMPROVEMENT
     IN  /\ gbest' = best /\ clens' = tables /\ niter' = niter + 1 /\ best_bits' = bits
         /\ stage' = IF again THEN "iterate" ELSE "emit"
  /\ UNCHANGED <<job, groups, sector_size, sent, result>>

EmitGroups ==
  /\ stage = "emit"
  /\ LET head == EncodeBits(DJW_GROUP_BITS, groups - 1)
                 \o EncodeBits(DJW_SECTORSZ_BITS, sector_size \div DJW_SECTORSZ_MULT - 1)
                 \o EncodePrefix(MultiPrefix(clens)) \o EncodeSelectors(gbest, groups)
         select_bits == Len(Coded(Mtf12(gbest, SelectorMtf(groups), 0), SelectorCodes(gbest, groups)))
     IN  IF InefficientCode(best_bits) \/ Inefficient(best_bits + select_bits, head)
         THEN stage' = "nosecond" /\ UNCHANGED sent
         ELSE /\ stage' = "sent"
              /\ sent' = Flushed(head \o EncodeData(job.input, sector_size, clens, gbest))
  /\ UNCHANGED <<job, groups, sector_size, clens, gbest, niter, best_bits, result>>

\* The section is kept or not (xd3_encode_secondary), and decoded.
Decode ==
  /\ stage = "sent"
  /\ IF Keeps(Len(job.input), sent, job.inefficient)
     THEN result' = DecodeHuff(sent, Len(job.input)) /\ stage' = "decoded"
     ELSE UNCHANGED result /\ stage' = "nosecond"
  /\ UNCHANGED <<job, groups, sector_size, clens, gbest, niter, best_bits, sent>>

DjwStart ==
  /\ groups = 0 /\ sector_size = 0 /\ clens = <<>> /\ gbest = <<>> /\ niter = 0
  /\ best_bits = 0 /\ sent = <<>> /\ result = [ok |-> TRUE, out |-> <<>>]
DjwInit == job \in Jobs /\ stage = "howmany" /\ DjwStart
DjwIdle == job = [input |-> <<>>] /\ stage = "idle" /\ DjwStart

-----------------------------------------------------------------------------
(* Properties.                                                             *)

\* "We already know the zero frequencies": the tables leave out the same symbols.
\* Only then does the decoder, which goes by the table before, find the lengths
\* that the encoder, which goes by the table itself, has sent.
SameZeros ==
  \A g, h \in 1 .. Len(clens) : \A s \in Letter : clens[g][s] = 0 <=> clens[h][s] = 0

\* Every section that is sent is decoded: what a secondary compressor is for.
SectionDecoded == stage = "decoded" => result = [ok |-> TRUE, out |-> job.input]

\* A section comes back as it was, whichever tables the iterations arrived at: the
\* tables sent are the tables used, each a complete prefix code, and the bits of
\* the data are as many as was counted for the decision (asserted at the end of
\* xd3_encode_huff).
SectionComesBack ==
  /\ stage \in {"sent", "decoded"} =>
       /\ \A g \in 1 .. groups : Sum([s \in Letter |->
            IF clens[g][s] = 0 THEN 0 ELSE 2 ^ (DJW_MAX_CODELEN - clens[g][s])]) = 2 ^ DJW_MAX_CODELEN
       /\ best_bits = Len(EncodeData(job.input, IF groups = 1 THEN Len(job.input) ELSE sector_size,
                                     clens, gbest))
  /\ SameZeros => SectionDecoded
=============================================================================
