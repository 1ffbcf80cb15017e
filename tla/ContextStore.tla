----------------------------- MODULE ContextStore -----------------------------
(***************************************************************************)
(* mantis/context/manager.py: the context a supervisor plan hands from     *)
(* step to step.  A dict of entries in insertion order with a token budget *)
(* that evicts STEP entries only, saved either as a snapshot or as the     *)
(* legacy dict of a checkpoint, which a JSONB column gives back in the     *)
(* order of its keys.  Values and sources are left out, and PLAN stands    *)
(* for SESSION too: the manager treats them alike.                         *)
(***************************************************************************)
EXTENDS Naturals, FiniteSets, Tally

CONSTANTS
  CtxKeys,         \* keys, numbers in the order JSONB keeps them in
  CtxTokens,       \* token estimates
  CtxMaxTokens,    \* max_tokens of the manager
  CtxMaxSets       \* model bound: calls of set

ASSUME CtxAssumption ==
  /\ CtxKeys \subseteq Nat /\ IsFiniteSet(CtxKeys)
  /\ CtxTokens \subseteq Nat
  /\ CtxMaxTokens \in Nat
  /\ CtxMaxSets \in Nat

VARIABLES
  ctxEntries,   \* _entries, by key
  ctxOrder,     \* the order of the dict: the pairs of an earlier and a later key
  ctxTotal,     \* _total_tokens
  ctxSaved,     \* the last snapshot or legacy dict
  ctxSets       \* calls of set so far

ctxVars == <<ctxEntries, ctxOrder, ctxTotal, ctxSaved, ctxSets>>

CtxEntry(scope, tokens, version) == [scope |-> scope, tokens |-> tokens, version |-> version]
CtxEmpty == [k \in {} |-> CtxEntry("plan", 0, 1)]
CtxNothing == [kind |-> "none", entries |-> CtxEmpty, order |-> {}, total |-> 0]

CtxTokensOf(entries) == [k \in DOMAIN entries |-> entries[k].tokens]
CtxSum(entries) == Total(DOMAIN entries, CtxTokensOf(entries))

CtxInit ==
  /\ ctxEntries = CtxEmpty
  /\ ctxOrder = {}
  /\ ctxTotal = 0
  /\ ctxSaved = CtxNothing
  /\ ctxSets = 0

CtxSteps(entries) == {k \in DOMAIN entries : entries[k].scope = "step"}
CtxOlder(entries, order, key) == {k \in CtxSteps(entries) : <<k, key>> \in order}
CtxOlderSum(entries, order, key) ==
  Total(CtxOlder(entries, order, key), CtxTokensOf(entries))

\* Mutated form of CtxEvicted: an entry goes although the budget is just met.
CtxEvictedOneMore(entries, order, total) ==
  {k \in CtxSteps(entries) : total >= CtxMaxTokens + CtxOlderSum(entries, order, k)}

\* Mutated form of CtxEvicted: one entry goes, whatever the budget says then.
CtxEvictedOnce(entries, order, total) ==
  {k \in CtxSteps(entries) : total > CtxMaxTokens /\ CtxOlder(entries, order, k) = {}}

\* The oldest STEP entries go, one by one, until the budget is met or none is
\* left: an entry goes when it is not met without the older ones.
CtxEvicted(entries, order, total) ==
  {k \in CtxSteps(entries) : total > CtxMaxTokens + CtxOlderSum(entries, order, k)}

\* An update keeps the entry's place in the dict.
CtxStored(key, scope, tokens) ==
  LET version == IF key \in DOMAIN ctxEntries THEN ctxEntries[key].version + 1 ELSE 1
  IN [k \in DOMAIN ctxEntries \cup {key} |->
        IF k = key THEN CtxEntry(scope, tokens, version) ELSE ctxEntries[k]]
CtxPlaced(key) ==
  IF key \in DOMAIN ctxEntries THEN ctxOrder ELSE ctxOrder \cup ((DOMAIN ctxEntries) \X {key})

\* Mutated form of CtxCounted: an update adds its tokens to those of the old value.
CtxCountedTwice(key, tokens) == ctxTotal + tokens

CtxCounted(key, tokens) ==
  (IF key \in DOMAIN ctxEntries THEN ctxTotal - ctxEntries[key].tokens ELSE ctxTotal) + tokens

\* Nothing is awaited under the lock: a set is one step.
CtxSet(key, scope, tokens) ==
  LET stored == CtxStored(key, scope, tokens)
      gone == CtxEvicted(stored, CtxPlaced(key), CtxCounted(key, tokens))
      kept == DOMAIN stored \ gone
  IN /\ ctxSets < CtxMaxSets
     /\ ctxSets' = ctxSets + 1
     /\ ctxEntries' = [k \in kept |-> stored[k]]
     /\ ctxOrder' = CtxPlaced(key) \cap (kept \X kept)
     /\ ctxTotal' = CtxCounted(key, tokens) - Total(gone, CtxTokensOf(stored))
     /\ UNCHANGED ctxSaved

CtxSnapshot ==
  /\ ctxSaved' = [kind |-> "snapshot", entries |-> ctxEntries, order |-> ctxOrder,
                  total |-> ctxTotal]
  /\ UNCHANGED <<ctxEntries, ctxOrder, ctxTotal, ctxSets>>

CtxRestore ==
  /\ ctxSaved.kind = "snapshot"
  /\ ctxEntries' = ctxSaved.entries
  /\ ctxOrder' = ctxSaved.order
  /\ ctxTotal' = ctxSaved.total
  /\ UNCHANGED <<ctxSaved, ctxSets>>

\* to_legacy_dict keeps scope, tokens and version of each value, not the total.
CtxToLegacy ==
  /\ ctxSaved' = [kind |-> "legacy", entries |-> ctxEntries, order |-> ctxOrder, total |-> 0]
  /\ UNCHANGED <<ctxEntries, ctxOrder, ctxTotal, ctxSets>>

CtxByKey(keys) == {p \in keys \X keys : p[1] < p[2]}

\* Mutated form of CtxFromLegacy: the metadata's tokens are not added up.
CtxFromLegacyUncounted ==
  /\ ctxSaved.kind = "legacy"
  /\ ctxEntries' = ctxSaved.entries
  /\ ctxOrder' \in {ctxSaved.order, CtxByKey(DOMAIN ctxSaved.entries)}
  /\ ctxTotal' = 0
  /\ UNCHANGED <<ctxSaved, ctxSets>>

\* from_legacy_dict, on the dict as it was or as the database returns it.
CtxFromLegacy ==
  /\ ctxSaved.kind = "legacy"
  /\ ctxEntries' = ctxSaved.entries
  /\ ctxOrder' \in {ctxSaved.order, CtxByKey(DOMAIN ctxSaved.entries)}
  /\ ctxTotal' = CtxSum(ctxSaved.entries)
  /\ UNCHANGED <<ctxSaved, ctxSets>>

\* ... and on the plain dict of a new session: PLAN entries of no tokens.
CtxFromPlain(keys) ==
  /\ ctxSaved = CtxNothing
  /\ ctxEntries = CtxEmpty
  /\ ctxEntries' = [k \in keys |-> CtxEntry("plan", 0, 1)]
  /\ ctxOrder' = CtxByKey(keys)
  /\ UNCHANGED <<ctxTotal, ctxSaved, ctxSets>>

CtxNext ==
  \/ \E key \in CtxKeys, scope \in {"step", "plan"}, tokens \in CtxTokens :
       CtxSet(key, scope, tokens)
  \/ CtxSnapshot
  \/ CtxRestore
  \/ CtxToLegacy
  \/ CtxFromLegacy
  \/ \E keys \in SUBSET CtxKeys : CtxFromPlain(keys)

CtxSpec == CtxInit /\ [][CtxNext]_ctxVars

--------------------------------------------------------------------------------
\* _total_tokens is kept by difference through updates, evictions and restores,
\* and is at all times what the entries add up to.
CtxTotalExact == ctxTotal = CtxSum(ctxEntries)

\* The budget gives way only to what may not be evicted.
CtxOverOnlyPinned == ctxTotal > CtxMaxTokens => CtxSteps(ctxEntries) = {}

\* What a set does to the entries of other keys ("evicts oldest STEP-scoped
\* entries" "until under token budget"): only STEP ones go, the oldest first,
\* and, where the set entry itself stays, not one more than it takes.
CtxLeast(key) ==
  LET others == DOMAIN ctxEntries \ {key}
      gone == others \ DOMAIN ctxEntries'
  IN /\ gone \subseteq CtxSteps(ctxEntries)
     /\ \A i \in gone, j \in CtxSteps(ctxEntries) \cap (others \ gone) : <<i, j>> \in ctxOrder
     /\ \A i \in others \ gone : ctxEntries'[i] = ctxEntries[i]
     /\ key \in DOMAIN ctxEntries' =>
          \A i \in gone : (\A j \in gone \ {i} : <<j, i>> \in ctxOrder) =>
            ctxTotal' + ctxEntries[i].tokens > CtxMaxTokens

CtxSetLeast ==
  ctxSets' # ctxSets =>
    \A key \in CtxKeys, scope \in {"step", "plan"}, tokens \in CtxTokens :
      CtxSet(key, scope, tokens) => CtxLeast(key)

CtxEvictsLeast == [][CtxSetLeast]_ctxVars

\* The context's promise: an exact count, a budget that only pinned entries pass,
\* and no entry given up without need.
CtxBudgetKept == [](CtxTotalExact /\ CtxOverOnlyPinned) /\ CtxEvictsLeast
================================================================================
