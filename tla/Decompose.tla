------------------------------- MODULE Decompose -------------------------------
(***************************************************************************)
(* How a task text becomes a plan (mantis/orchestrator/decomposer.py and   *)
(* llm_decomposer.py): the keyword split, and the model's plan with its    *)
(* LRU cache and its fall-back.  A text is the sequence of its words and   *)
(* of the separators the split looks for, each set off by spaces, with no  *)
(* two separators in a row; a sub-task is the set of places of the text    *)
(* that its description holds.                                             *)
(***************************************************************************)
EXTENDS Naturals, Sequences, FiniteSets

CONSTANTS
  DecLength,     \* model bound: tokens of a text
  DecTasks,      \* the tasks asked of the LLM decomposer
  DecReplies,    \* what the model may answer: the depends_on of each entry, <<>> for no plan
  DecCacheSize   \* cache_maxsize

ASSUME DecAssumption == DecLength \in Nat /\ DecCacheSize \in Nat

VARIABLES
  decText,    \* the text to split
  decPlan,    \* [parts, deps] of the last plan made, or DecNoPlan
  decCache,   \* LLMDecomposer._cache, an OrderedDict: the deps of the plan of each task
  decOrder,   \* its order: the pairs of an earlier and a later task
  decUsed,    \* the tasks the cache ever stored or served
  decLast     \* the order of their last uses

decVars == <<decText, decPlan, decCache, decOrder, decUsed, decLast>>
decCached == <<decCache, decOrder, decUsed, decLast>>

DecWord == "word"
DecNumber == "1."
DecThen == {"and then", "then", "; then"}
DecTokens == {DecWord, DecNumber, ";", "and"} \cup DecThen

DecTexts ==
  {t \in UNION {[1..n -> DecTokens] : n \in 1..DecLength} :
     /\ \E i \in DOMAIN t : t[i] = DecWord
     /\ \A i \in 1..(Len(t) - 1) : DecWord \in {t[i], t[i + 1]}}

DecNoPlan == [parts |-> <<>>, deps |-> <<>>]

DecInit ==
  /\ decText \in DecTexts
  /\ decPlan = DecNoPlan
  /\ decCache = <<>>
  /\ decOrder = {} /\ decUsed = {} /\ decLast = {}

\* The tokens each marker occurs in, in the order the split tries them; the
\* last one is " and ".
DecMarkers == <<{"and then"}, DecThen, {"; then"}, {";", "; then"}, {"and then", "and"}>>

\* What is left of a longer token that is cut at a shorter marker: the "and" or
\* ";" before " then ", the "then" after "; " or " and ".
DecLeftover(token, marker) ==
  IF marker = 2 /\ token # "then" THEN "before"
  ELSE IF marker > 3 /\ token \in DecThen THEN "after"
  ELSE "none"

\* The places of the text that a cut at the tokens of a marker leaves, each with
\* the number of cuts before it.
DecCells(text, marker) ==
  LET cuts == {i \in DOMAIN text : text[i] \in DecMarkers[marker]}
      before(i) == Cardinality({c \in cuts : c < i})
      left == {i \in DOMAIN text : i \in cuts => DecLeftover(text[i], marker) # "none"}
  IN [i \in left |-> IF i \in cuts /\ DecLeftover(text[i], marker) = "after"
                    THEN before(i) + 1 ELSE before(i)]

\* The places of the items of a numbered list, each with the number of its item.
DecItemCells(text) ==
  LET numbers == {i \in DOMAIN text : text[i] = DecNumber}
      before(i) == Cardinality({c \in numbers : c < i})
  IN [i \in {j \in DOMAIN text \ numbers : before(j) > 0} |-> before(i)]

\* The non-empty cells, in their order.
DecParts(cell) ==
  LET filled == {cell[i] : i \in DOMAIN cell}
      rank(i) == Cardinality({c \in filled : c <= cell[i]})
  IN [n \in 1..Cardinality(filled) |-> {i \in DOMAIN cell : rank(i) = n}]

DecCut(text, marker) == DecParts(DecCells(text, marker))
DecItems(text) == DecParts(DecItemCells(text))

\* The first of the markers that cut the text into parts, " and " into two or three.
DecFits(text) ==
  {m \in DOMAIN DecMarkers :
     Len(DecCut(text, m)) >= 2 /\ (m = 5 => Len(DecCut(text, m)) <= 3)}
DecFirstFit(text) == CHOOSE m \in DecFits(text) : \A k \in DecFits(text) : m <= k

\* Mutated form of DecSplit: the numbered list also wins with a single item.
DecSplitOneItem(text) ==
  IF Len(DecItems(text)) >= 1 THEN DecItems(text)
  ELSE IF DecFits(text) # {} THEN DecCut(text, DecFirstFit(text))
  ELSE <<DOMAIN text>>

\* _split_compound.
DecSplit(text) ==
  IF Len(DecItems(text)) >= 2 THEN DecItems(text)
  ELSE IF DecFits(text) # {} THEN DecCut(text, DecFirstFit(text))
  ELSE <<DOMAIN text>>

\* Mutated form of DecKeyword: only a split at a "then" makes a chain.
DecKeywordUnchained(text) ==
  LET parts == DecSplit(text)
      chained == DecItems(text) = <<>> /\ \E i \in DOMAIN text : text[i] \in DecThen
  IN [parts |-> parts,
      deps |-> [n \in DOMAIN parts |-> IF chained /\ n > 1 THEN {n - 1} ELSE {}]]

\* KeywordDecomposer.decompose: a chain if there is a "then" anywhere.
DecKeyword(text) ==
  LET parts == DecSplit(text)
      chained == \E i \in DOMAIN text : text[i] \in DecThen
  IN [parts |-> parts,
      deps |-> [n \in DOMAIN parts |-> IF chained /\ n > 1 THEN {n - 1} ELSE {}]]

DecKeywordPlan ==
  /\ decPlan = DecNoPlan
  /\ decPlan' = DecKeyword(decText)
  /\ UNCHANGED <<decText, decCached>>

\* SingleTaskDecomposer.decompose.
DecSinglePlan ==
  /\ decPlan = DecNoPlan
  /\ decPlan' = [parts |-> <<DOMAIN decText>>, deps |-> <<{}>>]
  /\ UNCHANGED <<decText, decCached>>

\* Mutated form of DecParse: the entries have their ids before the first
\* dependency is looked up.
DecParseAllIds(reply) ==
  LET read == {n \in DOMAIN reply : n <= 5} IN [n \in read |-> reply[n] \cap read]

\* _parse_response: five entries at most; a dependency counts if its entry has
\* its id by then.
DecParse(reply) ==
  LET read == {n \in DOMAIN reply : n <= 5} IN [n \in read |-> reply[n] \cap (1..n)]

\* An order of tasks when one of them, or a new one, goes to the end.
DecToEnd(order, tasks, task) ==
  {p \in order : task \notin {p[1], p[2]}} \cup ((tasks \ {task}) \X {task})

DecTouch(task) ==
  /\ decUsed' = decUsed \cup {task}
  /\ decLast' = DecToEnd(decLast, decUsed, task)

\* Mutated form of DecServe: a hit leaves the entry where it is.
DecServeInPlace(task) ==
  /\ DecTouch(task)
  /\ UNCHANGED <<decCache, decOrder>>

\* A hit goes to the recent end.
DecServe(task) ==
  /\ DecTouch(task)
  /\ decOrder' = DecToEnd(decOrder, DOMAIN decCache, task)
  /\ UNCHANGED decCache

\* _cache_put.
DecPut(task, deps) ==
  LET put == DOMAIN decCache \cup {task}
      order == DecToEnd(decOrder, DOMAIN decCache, task)
      oldest == {s \in put : \A t \in put \ {s} : <<s, t>> \in order}
      kept == IF Cardinality(put) > DecCacheSize THEN put \ oldest ELSE put
  IN /\ DecTouch(task)
     /\ decCache' = [t \in kept |-> IF t = task THEN deps ELSE decCache[t]]
     /\ decOrder' = order \cap (kept \X kept)

\* LLMDecomposer.decompose, for a caller inside an event loop (which cannot ask
\* the model) or outside one.  A reply without a plan raises, like no reply, and
\* the keyword plan, which is not cached, answers.
DecAsk(task, inLoop, reply) ==
  /\ UNCHANGED <<decText, decPlan>>
  /\ \/ task \in DOMAIN decCache /\ DecServe(task)
     \/ task \notin DOMAIN decCache /\ ~inLoop /\ reply # <<>> /\ DecPut(task, DecParse(reply))
     \/ task \notin DOMAIN decCache /\ (inLoop \/ reply = <<>>) /\ UNCHANGED decCached

DecNext ==
  \/ DecKeywordPlan
  \/ DecSinglePlan
  \/ /\ decPlan = DecNoPlan /\ decText = <<DecWord>>
     /\ \E task \in DecTasks, inLoop \in BOOLEAN, reply \in DecReplies :
          DecAsk(task, inLoop, reply)

DecSpec == DecInit /\ [][DecNext]_decVars

--------------------------------------------------------------------------------
DecPlaces(kind) == {i \in DOMAIN decText : decText[i] \in kind}
DecPartOf(i) == {n \in DOMAIN decPlan.parts : i \in decPlan.parts[n]}
DecPreamble == IF Len(DecItems(decText)) < 2 THEN {}
               ELSE {i \in DOMAIN decText : \A n \in DecPlaces({DecNumber}) : i < n}

\* No work is lost, doubled or moved by the split, whichever of its six ways it
\* takes and whatever other separators the parts still hold: a word is in one
\* sub-task, the sub-tasks follow the text, and only what is written before the
\* first number of a list is left out.
DecKeepsWords ==
  decPlan # DecNoPlan =>
    /\ \A i \in DecPlaces({DecWord}) \ DecPreamble : Cardinality(DecPartOf(i)) = 1
    /\ \A i, j \in DecPlaces({DecWord}) :
         i < j => \A m \in DecPartOf(i), n \in DecPartOf(j) : m <= n

\* "Sequential dependency for 'and then' / 'then' style": what the text puts
\* after a "then" runs after what it puts before it, also where the split was
\* made at other separators, as in a numbered list.
DecThenOrders ==
  \A i, j \in DecPlaces({DecWord}), t \in DecPlaces(DecThen) :
    i < t /\ t < j =>
      \A m \in DecPartOf(i), n \in DecPartOf(j) :
        m < n => \A k \in m..(n - 1) : k \in decPlan.deps[k + 1]

\* Whatever the model answers, the only cycle a cached plan can have is an entry
\* that names itself, and a dependency is always on a sub-task of the plan.
DecBackward ==
  \A task \in DOMAIN decCache : \A n \in DOMAIN decCache[task] : decCache[task][n] \subseteq 1..n

\* The cache is an LRU one: it holds the plans of the tasks last stored or
\* served, as many as fit, in that order, and a fall-back displaces none.
DecRecent ==
  LET held == DOMAIN decCache IN
    /\ held \subseteq decUsed
    /\ Cardinality(held) = IF Cardinality(decUsed) < DecCacheSize
                           THEN Cardinality(decUsed) ELSE DecCacheSize
    /\ \A s \in decUsed \ held, t \in held : <<s, t>> \in decLast
    /\ decOrder = decLast \cap (held \X held)

\* The decomposers' promise, of words, of order and of the cache.
DecSound == DecKeepsWords /\ DecThenOrders /\ DecBackward /\ DecRecent
================================================================================
