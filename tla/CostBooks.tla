------------------------------- MODULE CostBooks -------------------------------
(***************************************************************************)
(* The books of what was spent: projects (db/repositories/projects.py and  *)
(* api/routes/projects.py), cost_logs, the two tables rolled up from them  *)
(* (budget_snapshots.py, model_cost_snapshots.py, the nightly job of       *)
(* daemon/scheduler.py) and the budget pages (api/routes/budget.py) with   *)
(* the global gate they show (agent/cost_guard.py).  Every SQL statement   *)
(* is one step; the daemon's date is the database's.                       *)
(***************************************************************************)
EXTENDS Naturals, Sequences, FiniteSets, Tally

CONSTANTS
  BookProjects,   \* project ids, "default" among them
  BookModels,     \* [model |-> its tier], the providers included in the model
  BookCosts,      \* costs of one call
  BookDays,       \* model bound: days that go by
  BookMonthEnd,   \* the last day of the first month
  BookMaxLogs,    \* model bound: calls logged
  BookDailyMax,   \* daily_max_usd
  BookMonthlyMax  \* monthly_max_usd

BookTiers == {"free", "standard", "premium"}

ASSUME BookAssumption ==
  /\ "default" \in BookProjects
  /\ IsFiniteSet(DOMAIN BookModels)
  /\ BookModels \in [DOMAIN BookModels -> BookTiers]
  /\ BookCosts \subseteq Nat
  /\ {BookDays, BookMonthEnd, BookMaxLogs, BookDailyMax, BookMonthlyMax} \subseteq Nat
  /\ BookDays # 0

VARIABLES
  bookRows,     \* the ids of the projects table
  bookLogs,     \* cost_logs, in the order of insertion
  bookToday,    \* the date
  bookDaily,    \* budget_snapshots: [<<project, day>> |-> totals or BookNoRow]
  bookModel,    \* model_cost_snapshots: [<<project, day, model>> |-> totals or BookNoRow]
  bookJob,      \* the day whose model rollup the nightly job has still to do, or 0
  bookFill,     \* the days backfill has still to do
  bookPage      \* the budget page that is being put together, or shown

bookVars == <<bookRows, bookLogs, bookToday, bookDaily, bookModel, bookJob, bookFill, bookPage>>

BookNoRow == [cost |-> 0, requests |-> 0, tiers |-> <<>>]
BookNoPage == [step |-> "none", failed |-> FALSE, daily |-> 0, monthly |-> 0,
               since |-> 0, blocked |-> FALSE]

BookInit ==
  /\ bookRows = {"default"}
  /\ bookLogs = <<>>
  /\ bookToday = 1
  /\ bookDaily = [k \in BookProjects \X (1..BookDays) |-> BookNoRow]
  /\ bookModel = [k \in BookProjects \X (1..BookDays) \X DOMAIN BookModels |-> BookNoRow]
  /\ bookJob = 0
  /\ bookFill = {}
  /\ bookPage = BookNoPage

\* Logs are sets of positions in cost_logs.
BookCost(logs) == Total(logs, [i \in DOMAIN bookLogs |-> bookLogs[i].cost])
BookOf(project, day) ==
  {i \in DOMAIN bookLogs : bookLogs[i].project = project /\ bookLogs[i].day = day}

\* --- Projects and calls ------------------------------------------------------

BookCreate(project) ==
  /\ project \notin bookRows
  /\ bookRows' = bookRows \cup {project}
  /\ UNCHANGED <<bookLogs, bookToday, bookDaily, bookModel, bookJob, bookFill, bookPage>>

\* A row that others refer to stays, by the foreign keys.
BookDelete(project) ==
  /\ project \in bookRows \ {"default"}
  /\ \A i \in DOMAIN bookLogs : bookLogs[i].project # project
  /\ bookRows' = bookRows \ {project}
  /\ UNCHANGED <<bookLogs, bookToday, bookDaily, bookModel, bookJob, bookFill, bookPage>>

\* insert_cost_log, stamped with the database's now.
BookSpend(project, model, cost) ==
  /\ project \in bookRows
  /\ Len(bookLogs) < BookMaxLogs
  /\ bookLogs' = Append(bookLogs, [project |-> project, day |-> bookToday, model |-> model,
                                   cost |-> cost])
  /\ UNCHANGED <<bookRows, bookToday, bookDaily, bookModel, bookJob, bookFill, bookPage>>

BookMidnight ==
  /\ bookToday < BookDays
  /\ bookToday' = bookToday + 1
  /\ UNCHANGED <<bookRows, bookLogs, bookDaily, bookModel, bookJob, bookFill, bookPage>>

\* --- Rollups -----------------------------------------------------------------

BookTierOf(logs, tier) == {i \in logs : BookModels[bookLogs[i].model] = tier}
BookTotals(logs) ==
  [cost |-> BookCost(logs), requests |-> Cardinality(logs),
   tiers |-> [t \in BookTiers |-> BookCost(BookTierOf(logs, t))]]

\* Mutated form of BookUpsertDaily: ON CONFLICT DO NOTHING.
BookUpsertDailyOnce(day) ==
  [k \in DOMAIN bookDaily |->
     LET logs == BookOf(k[1], day)
     IN IF k[2] # day \/ logs = {} \/ bookDaily[k] # BookNoRow THEN bookDaily[k]
        ELSE BookTotals(logs)]

\* rollup_day: a row for every project with calls that day, a new one or in the
\* place of the old one.
BookUpsertDaily(day) ==
  [k \in DOMAIN bookDaily |->
     LET logs == BookOf(k[1], day)
     IN IF k[2] # day \/ logs = {} THEN bookDaily[k] ELSE BookTotals(logs)]

BookModelOf(project, day, model) ==
  {i \in BookOf(project, day) : bookLogs[i].model = model}

\* Mutated form of BookUpsertModel: the tables' totals are added up.
BookUpsertModelAdds(day) ==
  [k \in DOMAIN bookModel |->
     LET logs == BookModelOf(k[1], day, k[3])
     IN IF k[2] # day \/ logs = {} THEN bookModel[k]
        ELSE [cost |-> bookModel[k].cost + BookCost(logs),
              requests |-> bookModel[k].requests + Cardinality(logs), tiers |-> <<>>]]

BookUpsertModel(day) ==
  [k \in DOMAIN bookModel |->
     LET logs == BookModelOf(k[1], day, k[3])
     IN IF k[2] # day \/ logs = {} THEN bookModel[k]
        ELSE [cost |-> BookCost(logs), requests |-> Cardinality(logs), tiers |-> <<>>]]

\* Mutated form of BookRollup: it rolls up the day that has just begun.
BookRollupToday ==
  /\ bookJob = 0
  /\ bookDaily' = BookUpsertDaily(bookToday)
  /\ bookJob' = bookToday
  /\ UNCHANGED <<bookRows, bookLogs, bookToday, bookModel, bookFill, bookPage>>

\* _budget_rollup: yesterday in budget_snapshots ...
BookRollup ==
  /\ bookJob = 0 /\ bookToday > 1
  /\ bookDaily' = BookUpsertDaily(bookToday - 1)
  /\ bookJob' = bookToday - 1
  /\ UNCHANGED <<bookRows, bookLogs, bookToday, bookModel, bookFill, bookPage>>

\* ... and then in model_cost_snapshots, if nothing fails in between.
BookRollupModels ==
  /\ bookJob # 0
  /\ bookModel' = BookUpsertModel(bookJob)
  /\ bookJob' = 0
  /\ UNCHANGED <<bookRows, bookLogs, bookToday, bookDaily, bookFill, bookPage>>

BookRollupFails ==
  /\ bookJob # 0
  /\ bookJob' = 0
  /\ UNCHANGED <<bookRows, bookLogs, bookToday, bookDaily, bookModel, bookFill, bookPage>>

\* backfill: budget_snapshots only, any days, today too.
BookBackfill(from, to) ==
  /\ bookFill = {}
  /\ bookFill' = from..to
  /\ UNCHANGED <<bookRows, bookLogs, bookToday, bookDaily, bookModel, bookJob, bookPage>>

BookBackfillDay ==
  /\ \E day \in bookFill :
       /\ \A other \in bookFill : day <= other
       /\ bookDaily' = BookUpsertDaily(day)
       /\ bookFill' = bookFill \ {day}
  /\ UNCHANGED <<bookRows, bookLogs, bookToday, bookModel, bookJob, bookPage>>

\* --- The budget page ---------------------------------------------------------

BookMonthOf(day) == IF day <= BookMonthEnd THEN 1 ELSE 2
BookSpentToday(project) == BookCost(BookOf(project, bookToday))
BookSpentMonth(project) ==
  BookCost({i \in DOMAIN bookLogs :
    bookLogs[i].project = project /\ BookMonthOf(bookLogs[i].day) = BookMonthOf(bookToday)})

\* Mutated form of BookBlocks: the caps themselves still pass.
BookBlocksAbove(daily, monthly) == monthly > BookMonthlyMax \/ daily > BookDailyMax

\* check_global_budget without the breaker, whose hour slides.
BookBlocks(daily, monthly) == monthly >= BookMonthlyMax \/ daily >= BookDailyMax

\* global_budget for "default": the daily query, then the monthly one.  blocked
\* is what the gate itself would have answered when the page began.
BookPageDaily ==
  /\ bookPage.step # "daily"
  /\ bookPage' = [BookNoPage EXCEPT
       !.step = "daily", !.daily = BookSpentToday("default"), !.since = bookToday,
       !.blocked = BookSpentToday("default") >= BookDailyMax
                     \/ BookSpentMonth("default") >= BookMonthlyMax]
  /\ UNCHANGED <<bookRows, bookLogs, bookToday, bookDaily, bookModel, bookJob, bookFill>>

\* Mutated form of BookPageMonthly: the daily figure is thrown away on failure
\* of the second query, and shown as the month's otherwise.
BookPageMonthlySwapped(fails) ==
  /\ bookPage.step = "daily"
  /\ bookPage' = [bookPage EXCEPT !.step = "shown", !.failed = fails,
                    !.monthly = bookPage.daily,
                    !.daily = IF fails THEN 0 ELSE BookSpentMonth("default")]
  /\ UNCHANGED <<bookRows, bookLogs, bookToday, bookDaily, bookModel, bookJob, bookFill>>

\* A failed query leaves the spend at zero and ends the reading.
BookPageMonthly(fails) ==
  /\ bookPage.step = "daily"
  /\ bookPage' = [bookPage EXCEPT !.step = "shown", !.failed = fails,
                    !.monthly = IF fails THEN 0 ELSE BookSpentMonth("default")]
  /\ UNCHANGED <<bookRows, bookLogs, bookToday, bookDaily, bookModel, bookJob, bookFill>>

BookNext ==
  \/ \E project \in BookProjects : BookCreate(project) \/ BookDelete(project)
  \/ \E project \in BookProjects, model \in DOMAIN BookModels, cost \in BookCosts :
       BookSpend(project, model, cost)
  \/ BookMidnight
  \/ BookRollup
  \/ BookRollupModels
  \/ BookRollupFails
  \/ \E from, to \in 1..bookToday : BookBackfill(from, to)
  \/ BookBackfillDay
  \/ BookPageDaily
  \/ \E fails \in BOOLEAN : BookPageMonthly(fails)

BookSpec == BookInit /\ [][BookNext]_bookVars

--------------------------------------------------------------------------------
BookModelCosts(project, day) ==
  [m \in DOMAIN BookModels |-> bookModel[<<project, day, m>>].cost]

\* The books are never ahead of the calls: whichever rollups ran, again, early or
\* not at all, a row never exceeds the calls of its day, its tiers add up to its
\* total, and the models' rows of a day add up to no more than was spent.
BookNeverAhead ==
  \A p \in BookProjects, d \in 1..BookDays :
    LET row == bookDaily[<<p, d>>]
        spent == BookCost(BookOf(p, d))
    IN /\ row.cost <= spent
       /\ row # BookNoRow => row.cost = row.tiers["free"] + row.tiers["standard"]
                                         + row.tiers["premium"]
       /\ Total(DOMAIN BookModels, BookModelCosts(p, d)) <= spent

\* "Safe to call multiple times -- idempotent" (rollup_day): the rollup of a day
\* that is over brings its row to what was spent, whatever an earlier, partial
\* rollup of the same day had left there.
BookBroughtUp ==
  bookJob' # 0 /\ bookJob = 0 =>
    \A p \in bookRows : BookOf(p, bookToday - 1) # {} =>
      bookDaily'[<<p, bookToday - 1>>] = BookTotals(BookOf(p, bookToday - 1))

BookRollupFinal == [][BookBroughtUp]_bookVars

\* The page's figures are read one after the other while calls go on.  It shows
\* a block only if the gate blocks by then, and, when no query failed, it does
\* show a block that was on when it began (unless a new day began meanwhile).
BookShownHonestly ==
  bookPage.step = "daily" /\ bookPage'.step = "shown" /\ bookPage.since = bookToday =>
    LET shows == BookBlocks(bookPage'.daily, bookPage'.monthly)
        blocks == BookSpentToday("default") >= BookDailyMax
                    \/ BookSpentMonth("default") >= BookMonthlyMax
    IN /\ shows => blocks
       /\ bookPage.blocked /\ ~bookPage'.failed => shows

BookPageHonest == [][BookShownHonestly]_bookVars

\* The books' promise, of the rows, of the nightly rollup and of the page.
BooksSound == []BookNeverAhead /\ BookRollupFinal /\ BookPageHonest
================================================================================
