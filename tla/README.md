# A verification of Assarium in TLA+

Assarium is a data platform: it connects to a source, lands its tables in a bronze layer,
refines them to silver and gold, and answers questions over the result. This directory
models the parts of its API server (`src/apps/api/app`, below `app/`) in which the order of
events matters, checks them with TLC on small instances, and proves the main results with
TLAPS for every instance.

Parse with `tlasany M.tla`, check with `tlc -config X.cfg M`, prove with `tlapm M.tla`.

## 1. The system

| Component | State it keeps | Operations | What must be right |
|---|---|---|---|
| Scheduler, runner (`orchestration/`, `api/routers/schedules.py`) | `schedules` rows: cron, enabled, `next_run_at`, `consecutive_failures`, the lock `locked_at`/`locked_by` | poll, fetch, acquire, run, release; create, patch, delete | one run of a schedule at a time; a due schedule is run; failures back off; a dead worker's lock ends |
| Incremental ingestion (`ingestion/`, `connectors/sql_base.py`, `_ingest` in `medallion/pipeline.py`) | `dataset_watermarks`, `ingested_files`, the bronze tables | plan, read, write or merge, commit the watermark, record files | no row is behind the watermark unread; a retry changes nothing; bronze converges to the source |
| Pipeline (`medallion/pipeline.py`) | `pipeline_runs`, `pipeline_steps`, silver, quarantine and gold tables | start a run, ingest, refine, build gold, close | final status agrees with the steps; nothing is published past a breached quality limit; rows are kept or quarantined |
| Engines (`engine/`) | cache of engines per tenant, connections, running query | get, evict, close, execute with a time limit, merge, SCD2 merge | no engine is dropped open; a load survives the loss of its engine; each key has one current version |
| Secrets (`secrets/`) | references on the connection, values in a file or a vault | put many, get, delete many | a connection never refers to a value that is gone, in spite of partial failure |
| Identity (`identity/`) | users, factors, members, invitations, sessions | register, sign in, second factor, invite, accept, change role, remove, rotate, revoke | an organisation keeps an owner; a code or a token is good once; a revoked family stays revoked |
| Tenancy (`tenancy/`) | tenants, memberships, the resolved scope | resolve, get, create, delete | every row read belongs to the scope's tenant |
| Connectors (`connectors/`) | a connection to the source | browse, sample, stat, read a plan | the rows of a plan and no others |
| Profiling, classification (`profiling/`, `medallion/classifier.py`) | none: functions of column statistics | profile, relate, classify | precedence of the rules |
| Semantic layer (`semantic/`) | the model of a connection | build, compile, mask | a question is refused or compiled along a valid join path |
| Dashboards, lineage (`dashboards/`, `lineage/`) | tiles; the filters of the page; a graph | generate, drill, cross-filter, save, run, assess freshness, trace | tiles can be drawn and their questions compile; freshness agrees with the schedule |
| Middleware (`api/middleware.py`) | request times per client | limit, audit | the window's limit holds |
| Alerting, audit, sign-on, assistant, web | none the above read | - | - |

How they interact. Each API process starts one `run_loop`. Every poll reads the due rows of
`schedules`, claims each by a conditional `UPDATE` and calls `start_run` and `execute_run`
of the pipeline. The same two functions are called by the manual run endpoint, which takes
no lock: only the schedule is locked, not the connection nor its tables. The pipeline plans
each table with its connector, writes through the tenant's engine, and commits the watermark
in a database session of its own after the write. The deletion of a connection cascades to
its schedule, watermarks and files. Sessions are short: nearly every step of a run is a
transaction by itself, so each is an action of a model and a crash may fall between any two.

What is hard: two processes with one database; operators editing rows a worker holds in
memory; leases that expire on live workers; crashes between a write and the commit that
acknowledges it; a source that changes while it is read; windows open at one end and closed
at the other; runs that fail without raising. `PROJECT.json` lists these as hazards, each
at its line, with the property that covers it or the reason why none does.

## 2. Modules

| Modules | Model | Run | Theorems |
|---|---|---|---|
| `Scheduler`, `ExclusiveRuns` | the lock, retries, edits; the abstract specification of exclusive runs | `SchedulerSafety`, `SchedulerLive` | `SchedulerProofs` |
| `Ingestion` | watermark, window, replacing write, merge, crash | `IngestionKeyed`, `IngestionKeyless` | `IngestionProofs` |
| `FileLedger` | markers of landed files, known versions, skipped loads | `FileLedger`, `FileLedgerFailed` | `FileLedgerProofs` |
| `Refinement` | silver, quarantine and its limit, gold, run and step status | `Refinement`, `RefinementRepeated` | `RefinementProofs` |
| `Scd2` | the history of a slowly changing dimension | within `Warehouse` | within `WarehouseProofs` |
| `Engines` | the cache of engines and their connections | within `Warehouse` | within `WarehouseProofs` |
| `Warehouse` | `Scd2` on the connections of `Engines`; implements `Scd2` | `Warehouse` | `WarehouseProofs` |
| `People`, `Membership`, `Sessions` | the people and organisations; owners and invitations; families of refresh tokens | within `Identity` | within `IdentityProofs` |
| `Identity` | the two together | `Identity`, `IdentityLastOwner` | `IdentityProofs` |
| `Naming`, `Texts`, `Sums`, `Lists`, `Profiling`, `Silver`, `Semantic` | algorithms, as operators | `Analytics` | none of their own: section 10 |
| `Inference` | a source that is profiled, related, refined and modelled, in any order, and the questions asked of what comes of it | within `Analytics` | within `AnswersProofs` |
| `Compiler`, `Answers` | the compiler of questions and what the engine makes of a query, as operators; questions asked of a warehouse | within `Analytics` | `AnswersProofs` |
| `Dashboards` | the dashboard generated from a model, drilled and cross-filtered, and the questions of its tiles | within `Analytics` | within `AnswersProofs` |
| `Tiles` | what a tile shows of the rows its query returns | within `Analytics` | within `AnswersProofs` |
| `Layers`, `Lineage`, `Quality`, `Freshness`, `SignIn`, `Credentials`, `Limiter` | seven small machines: datasets that are classified, lineage that is asked both ways, a load that is refined, runs that make a dashboard fresh, attempts to sign in, connections over a failing vault, requests | within `Analytics` | `AnalyticsProofs` |

Each subject has one passing run that carries all its properties (the scheduler two, for
safety and for liveness), and a failing run only where the program departs from what it says
and the departure is worth a trace. Other departures are told in the text, with the
constants that show them. Of the abstract specifications, `ExclusiveRuns` is implemented by
`Scheduler` and `Scd2` by `Warehouse`.

Left of the plan: a model of bounded queries and their cancellation; the limit of a poll;
`Refinement` composed with `Scheduler` (runs that overlap because one of them is manual are
at present the constant `Overlapping`), and liveness of whole runs.

## 3. The scheduler

`Scheduler.tla` models the polling loop of every process and the operators' requests.

| Code | Model |
|---|---|
| a row of `schedules` | `sched[r]`; `lockAge` is `now - locked_at`, `dueIn` is `next_run_at - now`, both relative so that time needs no bound |
| `next_occurrence` | `NextOccurrence`: the slots of a cron are its multiples; `clock` is kept modulo `CycleLength` |
| `_tick` | `Poll`: the due list is read in one transaction, the rest of the pass works from the ids in memory |
| `_process_schedule` | `Fetch`, then `Claim`, `LoseClaim` or `FindNoConnection`, then `FinishRun`, then `Release` |
| `due_schedules`, `acquire` | `DueNow`, `CanAcquire`: two tests written apart in the code, and apart here |
| `release` | `ReleasedRow`: `Succeeded`, or `Failed` with `GivesUp` and `RetryDelay` |
| status of `execute_run` | `report`; a run that raised is "running", as its row stays |
| the routes of `schedules.py`, deletion of a connection | `CreateSchedule`, `UpdateSchedule`, `DeleteSchedule`, `DeleteConnection` |
| an exception that leaves `_tick`, a process that dies | `Crash`: the list and the phase are lost, the row stays as it is |

Left out: the limit of 20 rows per poll (a hazard without a property yet), the alert sent
after the release, the `timezone` column, which nothing reads.

Runs (`SchedulerMC`). Two workers and two schedules are enough for every race on one lock
and for a list longer than one entry; a third worker only repeats one of the two.

- `SchedulerSafety`: two workers, two connections, two row ids, one crash, three edits, a
  period of 2 and a timeout of 1 (a lock can expire between two slots), at most one retry of
  a backoff of two steps, so that a schedule fails, is retried, gives up and fails again.
  `NoDoubleRun`, `RunHoldsLock`, `OffSlotOnlyToRetry`, `TypeOK`, and the refinement
  `ImplementsExclusiveRuns`: a run is in flight from the claim to the release, a crash ends it.
- `SchedulerLive`: `DueIsServed` and `LocksEnd`, starting from a database in which both
  connections are scheduled, without retries or edits, with one crash. It assumes weak
  fairness of `Tick` (time passes) and of each worker's next step: the loop repeats for ever
  and catches what a pass raises. No fairness is assumed of operators, and a run may end in
  any way but does end (`MaxRunTime`). Weak fairness is enough because a poll stays possible
  as long as the schedule is due. `Reports` has only "succeeded" and "running" here: the code
  treats the other two as the first.

Both keep `MaxRunTime <= LockTimeout`, the assumption the code states as "long enough that a
genuinely slow load is never stolen from itself". Without it (`MaxRunTime = 4` and
`LockTimeout = 2`, say) TLC finds `RunHoldsLock` violated: the overtaken run's `release` does
not look at `locked_by` and frees the lock of the run that overtook it. Three properties that
`Scheduler` states and no run checks fail in the setting of `SchedulerSafety`; they mark what
the code does not promise, or promises and does not keep:

- `OneRunPerConnection`: a schedule deleted and created again during its run comes back
  unlocked; the pipeline is started twice. The lock is on the row.
- `ClaimsAreDue`: with two processes, a schedule that has just been run is run again by
  the one whose list is older. With one worker (and no edits) TLC finds no such step.
- `FailedRunBacksOff`: a run that ends "failed" does not raise, and counts as a success.

## 4. Ingestion

`Ingestion.tla` models one table of a SQL source from `load_state` to `commit_state`.

| Code | Model |
|---|---|
| a source row and its watermark column | `source[k]`: version and stamp; the stamp of an `Unstamped` row is NULL |
| the bronze table | `bronze`, a set of rows, each with the run that inserted it, so that a duplicate is visible; `exists` |
| `DatasetWatermark.value` | `value` |
| `load_state`, `plan_ingestion` | `Load`, `Plan`: the ceiling is the maximum at that moment, or none if the query fails |
| the choice between `write` and `merge`; `CREATE OR REPLACE` | `Open`, `Merges`, `Opened` |
| `read_plan` | `Read`, `Selected`: NULL satisfies no comparison |
| `INSERT` per batch; staging and `MERGE` | `InsertBatch`; `Merge`, `MergeInto` |
| `commit_state`, `next_state` | `Commit`, `NextValue` |
| the `except` branches, a process that dies | `Fail`, at every step |

A batch is one row, the finest the code can be. The source is external and may be written
between any two steps; its rows are never deleted, since incremental reads cannot see that
by design. The parameters choose the kind of table: `Keyed` (profiling found a key),
`Watermarked`, `Unstamped` rows, `Ties` (two writes may share a stamp), and how many runs
overlap.

Runs (`IngestionMC`), with up to four writes to the source, three versions of a row and two
failed runs: two failures fall into one load and into its retry, and three versions let a
row change before, during and after a load.

- `IngestionKeyed`: `Covered` (no row is behind the watermark unread), `OneRowPerKey`,
  `Kept` and `Converges` for a keyed table of two rows. Fairness: a run that started goes on
  and another follows it, as the schedule fires again; failures are bounded, writes need not
  happen.
- `IngestionKeyless`: a table with a watermark but no key is replaced by its latest window,
  and `CoveredAtRest` fails.

Other settings of the constants tell more. A table loaded in full (`Keyed` and `Watermarked`
both FALSE) converges. With `Ties = TRUE` a row with the stamp of the ceiling, written after
the ceiling was taken, is never loaded, and `CoveredAtRest` fails. With `Runs = {p1, p2}` two
overlapping runs leave an old version behind the watermark (`CoveredAtRest`), because each
commits its own ceiling and the merge prefers whatever arrives last, and both may find no
target and create it, so that a key is in bronze twice (`OneRowPerKey`). With an `Unstamped`
row, `Converges` fails: NULL satisfies neither end of a window.

## 5. Files

`FileLedger.tla` models one dataset that is a file.

| Code | Model |
|---|---|
| the bytes of the file | `content`, a version; `Replace` may come between any two steps |
| `stat` | `Marker[content]`: an etag, or size and time; `Blank` when the store reports none |
| rows of `ingested_files` | `ledger`, `newest`: the markers landed, and the one inserted last |
| `known_file_etags` | `KnownEtags`: one marker out of the rows, the last one that the query returns |
| `plan_ingestion` | `Skip`, `PlanFile`, and `PlanBlind` when `stat` raises |
| `write` in replace mode, `read_plan` | `Open` (the table is emptied first), `Read`, `Finish` (torn if the file was replaced meanwhile) |
| `record_file` | `Commit`: an existing row is updated where it is |
| the `except` branches, a process that dies | `Fail`: nothing is recorded |

Three constants are assumptions: `Returns` (an earlier version may come back), `InOrder` (the
query of `known_file_etags`, which has no ORDER BY, returns rows as inserted), `BlindMayFail`
(a load whose `stat` failed may fail as well).

- `FileLedger`: five versions, two of them without a marker, two failures, and the favourable
  value of each assumption: `SkipIsSafe`, `NoReread`, `CatchesUp`. Five versions let a marked
  one follow a marked one, a blank one and a blank one a marked one; two failures hit a load
  and its retry.
- `FileLedgerFailed`: with `BlindMayFail`, an outage of the store during one run (no marker,
  target emptied, no bytes) leaves bronze empty, and every later run skips the file.

With `Returns` and one more replacement, a file that goes from A to B, to A and to B again is
skipped although bronze holds A: the row of A was updated in place and the one of B is still
the last. `NoReread` holds without `InOrder` as well, which TLC confirms with the constant changed:
a version that is recorded is then read again only if the ledger holds another marker too, which
the query may return last. That does happen: of two recorded versions the older may be returned,
and the newer is loaded once more, although the docstring of the table (`ingestion/models.py`, line
47) says that a file whose content has not changed is never downloaded again.
Without `InOrder`, `SkipIsSafe` still holds if no load fails (`MaxFailures = 0`), and
fails if one may: the load of a version that was recorded empties bronze and fails, the ledger
still has the row, and the next run may be given it and skip the file.

## 6. Refinement

`Refinement.tla` models runs over the tables of a connection, from `start_run` to the end of
`execute_run`. How a table is landed is the subject of sections 4 and 5; here it leaves
bronze with any rows.

| Code | Model |
|---|---|
| `start_run`; the row of `pipeline_runs` | `StartRun`, `status` |
| the loop over the datasets, its two lists | `OpenIngest`, `Advance`; `failures`, `produced` |
| `_ingest` as far as the layers see it | `Land` (written or skipped), `IngestFails` (what a broken write leaves) |
| `_refine_silver`: count, quarantine, count, judge, replace | `CountBronze`, `InsertRejected`, `CountRejected` or `Refuse`, `Publish`, `CloseSilver`: a statement each, since each commits by itself |
| `QualityPolicy.breached` | `Breached` |
| the rules, as one set of rows they catch | `Bad`, `Ruled`, `Caught` |
| `_build_gold`, whose failures are not counted | `OpenGold`, `BuildGoldTable`, `GoldFails` |
| `pipeline_steps` | `step` |
| the final status | `CloseRun`, `Outcome` |
| the `except` branches; the end of the process | `SilverFails`, `GoldFails`; `Die`, after which the record says "running" for ever |

- `Refinement`: two runs one after the other (the second meets what the first left), two
  tables (one may fail and the other not, which is what "partial" is about), one with a
  rejecting rule, three rows of which one is bad, one fault anywhere. `MinRows = 2` and
  `MaxPercent = 40` stand for the code's 100 rows and 5%: with three rows the bad one is
  tolerated among all three and not among two, and two held back of three are too many.
  `RowsAccountedFor`, `NoPartialLoadPublished`, `StatusTellsSteps`. A second fault only
  brings more steps that fail in the same way.
- `RefinementRepeated`, same constants: the second run of one bad row among three is refused,
  because the quarantine table is appended to by every run and counted as a whole
  (`RefusedOnlyForItsOwnRows`).

`Overlapping = FALSE` in both. Two runs of one connection can overlap, as the manual endpoint
takes no lock; then one replaces bronze between the statements of the other, and
`RowsAccountedFor` and `NoPartialLoadPublished` fail. `StatusTellsSteps` does not depend on it.

## 7. Warehouse

`Scd2.tla` models `merge_scd2`, `Engines.tla` the cache of engines and the DuckDB connection
of each, and `Warehouse.tla` puts them together: every statement of a load needs the attached
connection of the engine its thread holds.

| Code | Model |
|---|---|
| the staging table; the branch that creates the target | `Stage`; `CreateFirst` |
| step 1 (close what changed), step 2 (insert what has no current version) | `CloseChanged`, `InsertNew` |
| `_record_scd_tracked`; the `finally` | `Record`; `Ended` |
| a statement that raises | `FailLoad`, with the record of tracked columns deleted or not |
| hash over the tracked columns | `Hashes`: the column set and the content |
| `get_engine`: the two critical sections and the building between them | `Hit`, `Miss`, `Build`, `Yield`, `Insert` |
| eviction, `close_all` | `Closing` inside `Insert`; `CloseAll` |
| the `connection` property, `ensure_layers` | `Connect`, `AttachLayers`, `AttachRaises` |
| a thread that sees a connection without layers | `MeetsBare`, and `LoadFails` |

`Warehouse`: three loads of one dimension with one key and two contents (a load that fails
between closing and inserting, the one that mends it, and one more), a loading thread and two
readers, of which one shares its tenant, a cache of one engine and two engines in all: enough
for two threads to build for one tenant, for either tenant to evict the other's engine while
it is in use, and for that engine to connect again. `OneVersionAtATime`, `LoadedIsCurrent`,
`CacheWithinBudget`, `LeavesClosed`, `LoadsEnd`. Fairness: weak fairness of each thread's
`Engaging`, `Disconnected` and `Load` - a thread that has asked for an engine, that cannot
connect, or that is inside a load goes on, as nothing in the code waits for anything but the
engine's lock. No fairness of starting a load, of releasing or of failures, and connections
are not assumed to last: `LoadsEnd` holds because engines, and so evictions, are bounded by
`MaxEngines`, a bound the program does not have, and stands for "evictions do not go on for
ever".

What the models leave to assumptions: a key is not NULL and is staged once (a NULL key would
never match its current version and be inserted by every load), and a dimension is loaded by
one load at a time (two would each insert a current version). `merge_scd2` has no caller but
its tests. An engine that is evicted while in use is closed and silently opens again at the
next statement; nothing tells the thread.

## 8. Identity

| Code | Model |
|---|---|
| rows of memberships, `is_active`, `role` | `rows`, `active`, `role` (`Membership`) |
| `create_organisation`, `signup_destination`, `remove_member`, `change_role` | `CreateOrganisation`, `SignUp`, `RemoveMember`, `ChangeRole` |
| `invite`, `accept_invitation`, the expiry of an invitation | `Invite`, `AcceptInvitation`, `Expire` |
| rows of `sessions`, their `rotated_at`, `revoked_at`, `expires_at` | `session`, `rotated`, `revoked`, `expired` (`Sessions`) |
| `issue`, `rotate`, the branch for a reused token | `Issue`, `Rotate`, `Reuse` |
| `revoke`, `revoke_all_for_user`, `revoke_for_membership` | `Revoke`, `RevokeAllForUser`, `RevokeForMembership` |
| `remove_member` and `change_password` with the sessions they end | `Remove`, `ChangePassword` (`Identity`) |

`Identity`: two people, one organisation that claims both their domains and has verified one,
two invitations (a second one supersedes the first) and three tokens (a sign-in rotated twice,
or a second sign-in beside one rotated once). `FamiliesAreWhole`, `RemovedIsOut`,
`OwnerRemains`. Two people are enough for an owner and somebody else, and three tokens for
a used, a present and a rival token of one family.

`LateAnswers = FALSE` there: nobody accepts an invitation to an organisation they are already
a member of. With TRUE, `IdentityLastOwner`: somebody who became the owner after they were
invited as a viewer accepts, and the organisation has no owner.

The functions flush and leave the commit to their callers, and so far only tests call them,
one at a time; an action is therefore a call, and two calls do not interleave. Two facts the
models show beside the properties: a removed person whose domain would admit them cannot sign
up again (their old row meets the unique constraint), and `load_valid` admits a token that
has been rotated, as its session goes on.

## 9. Algorithms and small machines

A behaviour of `AnalyticsMC` is one of eleven small machines, each with variables and a
specification of its own, while the others rest; its initial states name the machine. One run
carries them all. Names are sequences of words and texts sequences of characters; `Answer`,
which stands for what the SQL engine makes of a compiled query, `Trim` and `TryCast` are defined
by what the engine does. `Naming` and `Layers` list of each pattern only the words the inputs
use.

| Property | Machine | Instance |
|---|---|---|
| `TotalsSurviveInference` | `Inference`, over `Profiling`, `Silver`, `Semantic` and `Answers` | two tables of two and three rows; a key that is unique, NULL, repeated or repeated once trimmed, references that need trimming; statistics counted at the source or sampled, a foreign key declared or not; profiling, detection, rejection and acceptance, refining, building and asking in any order and again |
| `TotalsSurviveJoins` | `Answers` | three tables with two, two and one rows, every set of declared joins between them with the cardinality the rows have; all seven aggregations, one with a constraint, over everything, by one and by two columns, and by month |
| `PersonalStaysHidden` | `Answers` | pairs of warehouses whose emails have the same masks, every grouping and filter by email or city, and measures of the masked email |
| `GeneratedTilesCompile` | `Dashboards` | two tables with and without a date, a rate, personal data, and a join of each cardinality; then two clicks (`MaxClicks`) that drill a tile or filter by one of two values |
| `PartsSumToWhole`, `CurrentIsLatest` | `Tiles` | up to eleven groups, either side of the eight bands, of two measures with negative values and NULLs, folded or not; two and four periods, returned out of order |
| `GoldFollowsColumns` | `Layers` | datasets named after gold or after silver, by their measures, rates, grains, load metadata and other columns, with duplicates, NULLs and keys of each kind |
| `LineageAgrees` | `Lineage` | a column carried over three layers to a measure of a tile, by steps that succeed or fail, with SQL that is absent, readable or not and a dataset that may be gone; the walks back and on, node by node, cut short or not |
| `NothingLostInSilver` | `Quality` | loads of two rows of texts that convert as they stand, trimmed, stripped or not at all, for each type profiling may have seen in a column, key or not |
| `FreshnessFollowsSchedule` | `Freshness` | an occurrence every 5 half hours, until 26; a run of up to half a gap that succeeds, fails or does not begin |
| `CodesWorkOnce` | `SignIn` | four attempts with right and wrong passwords, codes a step off either way, a recovery code; accounts with failures behind them; policies with and without a second factor and single sign-on |
| `CredentialsAreWhole` | `Credentials` | connections of a form with a required secret that is shown for one way of signing in, created and deleted in turn, with a put, a test, a delete or a commit that fails |
| `BudgetKept` | `Limiter` | four requests of two callers at limits of 2 in 3 and 1 in 2 seconds, up to three seconds apart, with windows of callers dropped |

`Compiler` has the compiler whole: the thirteen operators of a filter, the seven aggregations, the
grains of time, the constraints of measures, the aliases, the refusals and the masks. It abstracts:

- a constraint, which is SQL by hand, is a condition on columns of the measure's own table
  (`reads`, `holds`); one that names the tables of other entities is not covered;
- an average is kept as a fraction, its sum and its count, and a median as the two values in the
  middle; an aggregate of no values but a count is NULL;
- a date is known by the periods it lies in, so that DATE_TRUNC chooses one of them; the order of
  texts is not spelled out, and no run compares them by it: `gt` to `lte` and `between` are
  defined, and the runs filter by `eq`, `ne`, `not_in`, `contains` and `is_null`;
- entities and attributes have the names of their tables and columns, as `builder.py` gives them;
- `Executable` says what the engine refuses although the compiler accepted it: a mask, which makes a
  text, under DATE_TRUNC, SUM or AVG, and a constrained count of rows, `CASE WHEN .. THEN * END`.
  Nothing is answered then. Of a dashboard `GeneratedTilesCompile` says that its questions compile,
  not that they run: a tile over a personal date, or the average of a personal number, is refused
  by the engine for a reader who sees it masked.

What the machines take their inputs to be, as their `ASSUME`s and comments say: the joins and
measures of a semantic model are of tables the warehouse has (`WellFormed`); the columns of
a table have names of their own, and so have the datasets of a workspace (`WorkspacesAssumption`:
the database keeps them apart by path, and names silver by the last part of the path, so that
two tables of one name in different schemas share a silver table, which no property covers); the code's occurrences of a schedule are regular and a run
takes at most half of a gap; a put that raises has stored nothing, field names are distinct as
references, and no field of a form is shown for the value of a secret. A source (`IsSource`) has tables
with names of their own, keeps unique what its foreign keys refer to, and does not change
while it is profiled, refined and asked about: a link that was accepted on a profile that is
no longer true is not covered, nor are models edited by hand, datasets that are removed, and
samples that cannot be read. Loads that are stopped for what they hold back, which leave
silver as it was, are in `Refinement`. The route that makes an
attempt to sign in out of the service's calls is not in the repository: `Attempted` is external
and takes them in the order the service's exceptions suggest.

Some preconditions are the limits of what the code can promise, and each marks a case where it
does not:

- `TotalsSurviveJoins` takes joins whose declared cardinality the rows keep, sums and averages of
  numbers, and questions without a filter. It has two parts. Whatever is aggregated, the answer
  breaks the table of the measures down: each of its rows is in one group, and the figures of a
  group are those of its rows (`BreaksDown`). The groups of a sum, a count or an average, both
  terms of the fraction, add up to that of the table (`AddsUp`); those of a minimum, a
  maximum, a median or a distinct count do not, and nothing is said of their sum. It speaks of the whole
  answer; one that exceeds the question's limit is cut.
- `PersonalStaysHidden` compares warehouses that are joined along the same values, and of which
  the constraints of the measures asked for pick the same rows (`PicksAlike`): which rows
  belong together does show, which rows a constraint picks does, and no more. The second is where
  the code departs from its words. `_column` says of itself that every path that names a
  column goes through it, and `_aggregate` puts the constraint of a measure into the query as
  it stands. Without `PicksAlike` the property is `EveryPathIsMasked`. No run has
  it, as it is false: with `INVARIANT EveryPathIsMasked` in `Analytics.cfg` TLC shows a count of
  customers whose constraint compares the email, which differs between two warehouses whose
  emails have the same masks.
- `TotalsSurviveInference` takes joins to tables whose profile saw every row (`SeenWhole`) and
  to columns that silver keeps and whose values it tells apart (`KeyKept`). A key that is unique
  in a sample, or before silver trims it, may repeat in silver, and the join then repeats rows. A
  key named like the metadata of a load is left out of silver, and the join with it.
- `GeneratedTilesCompile` takes the filters a reader can click in a chart. The filter bar also
  offers the columns of tables that a tile cannot be joined to, and a tile filtered by one of
  those shows the compiler's refusal.
- `NothingLostInSilver` speaks of values that mean something. A key of nothing but blanks passes
  the rule `not_null`, which tests bronze for NULL, and is NULL in silver.
- `FreshnessFollowsSchedule` takes regular schedules and runs of at most half an interval: the
  interval is taken after the run finished, so that a schedule of weekdays looks stale over
  the weekend.
- `PartsSumToWhole` takes groups within the tile's limit: a limit drops the smallest categories.
  It is about arithmetic: a folded category of averages is their sum, which means nothing.
- `CurrentIsLatest` takes rows that all have a period, and no more than sixty: rows without one
  come last, where the headline looks for the present period, and a longer series shows its
  oldest periods, as it is ordered ascending before it is cut.
- `LineageAgrees` lets a walk that is cut short name less, and nothing in the answer tells that
  it was cut: `complete` speaks of the steps that could be read, not of the walk. Which run is
  described when several qualify is left to the database, as the query has no order. A step
  is taken to read the layer below (`IsLineage`), as every statement the pipeline writes does.
- `GoldFollowsColumns` lets a name of silver count, the one way in which a name decides although
  a comment of the classifier says it never does: it adds to cleanliness, and a dataset with
  the shape of gold whose evidence is level leaves bronze by it, for gold. Between bronze and
  silver any name can decide. Of reports the property takes those with a named grain, and those
  without load metadata unless the sample is above fifty rows: grouped by the batch of a load, a
  small report is taken for raw. "index" makes a column a ratio for
  the semantic model and not for gold.
- Measures `x` and `total_x` of one table get the same id, and a column named `period_month`
  meets the alias gold gives its period.
- `CredentialsAreWhole` allows what a delete could not remove, and the secrets of a connection
  whose test or commit raises, which nothing removes. A connection whose deletion was not
  committed stays with what is left; what an edit of it must give again, it is asked for. A
  secret of nothing but blanks is stored as the empty text, which an edit takes for one that is
  to be typed.
- `BudgetKept` is about one process; every process has windows of its own. Kinds of route with
  the same limit share a window. The `Retry-After` it
  answers is truncated, so a client that obeys it may be one second early.

## 10. Proofs

The theorems hold for any number of workers, schedules, rows, runs, versions, tables, engines,
people and tokens, and any timeouts and limits. The assumptions on the constants are the named
`ASSUME`s of the modules.

- Scheduler. `TypeCorrect` needs no more than those; nor does `RetriesOnlyOffSlot`
  (`OffSlotOnlyToRetry`), which is inductive with the types and with `OnRow`: a worker past its
  fetch is on a row that was created. `MutualExclusion` (`NoDoubleRun`),
  `LockIsHeld` (`RunHoldsLock`) and `SchedulerImplementsExclusiveRuns` assume
  `MaxRunTime <= LockTimeout`. That two workers do not share a schedule is not inductive: it
  says nothing of why a second claim fails. The invariant `IInv` adds that the worker in
  flight is the one named in `lockedBy` and that the lock is exactly as old as its run
  (`OwnsLock`), and that no run is older than the bound (`AgeBounded`). Then a claim, which
  needs a lock older than `LockTimeout`, excludes a run in flight. The refinement follows: a
  claim is a `Start`, a release or crash in flight is a `Stop`, every other step a stutter.
- Ingestion. `TypeCorrect` for every kind of table. `WatermarkNeverAhead` (`Covered`),
  `MergeIsIdempotent` (`OneRowPerKey`) and `LandedRowsStay` (`Kept`) assume `Incremental`: a
  key, a watermark, distinct stamps, one run at a time - the conditions each of the failing
  cases of section 4 drops one of. `IInv` adds what is in flight: a run that read its window
  has each row at or below its ceiling in bronze or in its batch (`WindowOK`); a batch row is
  alone with its key and is current, or was superseded by a write above both the ceiling and
  the watermark (`BatchOK`); a table is only ever replaced before there is a watermark
  (`StepOK`, `TableOK`). Committing the ceiling is then safe whenever the batch is empty, and
  failing is safe because the watermark stays.
- Files. `TypeCorrect` in every mode. `SkippedIsCurrent` (`SkipIsSafe`) assumes `Trusted`:
  versions do not return and have markers of their own (`VersionsDiffer`), rows come in order, which
  a query without ORDER BY does not promise, and no blind load fails. `LandedIsNotReread`
  (`NoReread`) holds of a ledger in any order, where it allows that a recorded version is read again if
  the ledger holds another marker; `VersionsDiffer` is assumed only of rows in order, where it
  allows none. Its invariant `LedgerInv` says that a run knows a row of the ledger if there is one
  (`PhaseOK`) and, of rows in order, that nothing is known of versions to come (`FutureOK`) and that
  the present version, once recorded, is the newest (`NewestOK`). For the skip `IInv` adds that a run
  holding the present marker read the present bytes (`SeenOK`: the marker is taken first), and
  that once the present version is recorded only a blind load touches bronze (`LandedOK`).
- Scd2. `HistoryIsOne` (`OneVersionAtATime`) and `LoadsAreCurrent` (`LoadedIsCurrent`). The
  invariant `History` adds that between the two statements no current version differs from the
  staged row of its key (`NoneOutdated`), so that what is inserted meets no current version,
  and that a table with versions exists (`Founded`), so that the branch that creates it starts
  from nothing.
- Warehouse. Every step is a step of `Scd2` or leaves it alone, whatever becomes of the
  connections (`ImplementsScd2`); the two theorems above then hold of it by refinement.
  `BudgetHolds` (`CacheWithinBudget`) and `NoneLeftOpen` (`LeavesClosed`) rest on `EnginesInv`:
  types, budget, and that the engine of every cached tenant has been built
  (`Placed`). That moving a tenant to the end of the cache permutes it is the lemma
  `MovedPermutes`.
- Identity. `FamiliesHold` (`FamiliesAreWhole`) by `Chains`, which adds that the tokens
  of a family are of one person and one organisation, those of its first token (`Descended`). `RemovalHolds` (`RemovedIsOut`) is inductive with the types: a rotation hands on what
  a valid token had (`RefreshingIsFaithful`), a removal ends every session of the membership.
  `OwnersHold` (`OwnerRemains`) assumes `~LateAnswers`; a removal or demotion that passes the
  test leaves another owner (`AnotherOwner`).
- Refinement. `StatusHolds` (`StatusTellsSteps`) for runs that may overlap, by `Progress`: the
  tables behind a run are each in one of its lists, and the lists say what the steps say.
  `RowsHold` (`RowsAccountedFor`) and `NoPartialLoad` (`NoPartialLoadPublished`) assume
  `~Overlapping`. `Ledgers` adds that one run is in flight, that it holds exactly the caught
  rows once it has inserted them and none before, and that the table it has judged was within
  tolerance; `HeldBackCounts` compares the whole quarantine table with this run's share of it,
  and needs it to be finite (`Typed`).

- Signing in. `FactorsAreSpent` (`CodesWorkOnce`) for any attempts. That no code was accepted
  twice is not inductive: it says nothing of a code that is still good. `SignInInv` adds that
  each accepted code is spent (`AllSpent`: its step is not after the last one accepted, or it is
  no longer among the recovery codes), and, for the second half, that the account waits for at
  most the longest delay and that its counter is at most the window ahead (`WaitsEnd`).
- The limiter. `LimiterKeepsBudgets` (`BudgetKept`) for any limits, callers and pauses. The
  invariant ties windows to the log: under each key the window is, in order, the times of
  admitted requests, and has every one that is not yet too old (`Holds`); so what is counted is
  what was admitted (`HeldAreCounted`), a stale window may be dropped (`StaleHolds`), and times
  never run back (`InOrder`).
- Freshness. `ShownAgeIsRight` (`FreshnessFollowsSchedule`) for any regular schedule.
  `FreshnessInv` adds that runs start at occurrences, end within half a gap (`OnTime`) and follow
  one another, so that the last to start is the last to finish (`LastFinishIsLatest`); the step found after a
  finish is the gap (`IntervalIsGap`).
- Refining a load. `RefiningLosesNothing` (`NothingLostInSilver`) for any columns, keys and
  texts. The core is about texts: the rule tries the conversion on the column as it is and the
  transformation after trimming, and both convert the same ones to the same value
  (`CastAgrees`), since trimming takes away nothing that is kept in a number (`TrimKeeps`), and
  stripping keeps what is left in its order (`PlacesAreNumbered`, `StripKeeps`).
- Credentials. `NoHalfCredentials` (`CredentialsAreWhole`) for any form and failures.
  `CredentialsInv` says what the vault has under each id that was given: for a connection that
  is there the submitted secrets, all of them unless it was to be deleted (`Holding`), for one
  that is not nothing that could be deleted (`Left`); no step touches the references of another
  (`OneTouched`). That an edit which types no secret comes to the form as it was submitted
  (`EditIsSame`) needs that trimming twice is trimming once (`TrimTwice`).
- Layers. `LayersFollowColumns` (`GoldFollowsColumns`) for any names and profiles. A score is the
  sum of what nine signals add, of which only the shape and the name can add to gold
  (`SignalsSpeak`, `ScoreOf`); the name adds no more than the bar, so gold needs the shape, and
  without a name of silver the cleanliness is what it is without any (`GoldHasShape`). The report
  counts its records and averages a measure (`PlanHolds`), which are two measures over a grain, and
  what speaks for bronze, the missing key and the metadata, weighs less than clean types and
  no gaps (`ReportIsGold`).
- Lineage. `LineageIsTrue` (`LineageAgrees`) for any run, model and boards. A walk keeps that
  what it has found are the edges of the nodes it has visited, and that what it has seen lies in
  every set of nodes its edges do not leave (`WalkInv`, `WalkGoesOn`). Each edge leads one kind of
  node further (`EdgeKinds`), so the nodes a source is carried to, layer by layer, are the least
  such set that has the source (`CarriedIsClosed`, `CarriedIsReached`): the walk on from the source
  stays within it, and is it once it ends. The walk back from the tile is answered by the
  complement: no edge leads from it into what the tile's walk has seen (`UpSees`, `UpFinds`).
- Answers. `TotalsAreKept` (`TotalsSurviveJoins`) and `PersonalDataHides`
  (`PersonalStaysHidden`) for any warehouse and any questions. The invariant `AnswersInv` says
  that the reply is what the compiler and the engine make of a question. Three things carry it.
  The breadth-first search for joins keeps that every entity reached is reached by a path of
  declared, traversable joins from the base, and never twice (`LookKeepsPaths`,
  `ReachedByPaths`); so the joins of a query form a tree (`PathsAreATree`) in which the length of
  the path ranks them. Then each row of the base table is joined at least once, as a row that is
  not yet wholly joined can be extended along a join of least rank (`NoneLost`), and at most
  once, as each join has one partner at most (`JoinedOnce`). So the rows an answer
  is made of are those of the base table, one to one (`Matched`), and an aggregate, which looks only at the arguments its rows give it, is the same of
  both (`FigureOfImage`: counting, summing and ranking do not change when rows are renamed). That is
  `BreaksDown`, for every aggregation (`AnswerBreaksDown`). Last, sums: a sum is the number of
  its positive units less the number of its negative ones (`SumOf`), so that sums over disjoint
  sets add up by counting (`SumOfUnion`), and so do the groups of an answer (`SumOfGroups`,
  `PartsAddUp`, `CountsAddUp`, `GroupsAddUp`). For personal data, a column that is grouped or
  filtered by is shown through its mask and anything else is alike in both warehouses
  (`ColumnAlike`); a constraint picks the same rows by assumption (`PicksAlike`, without which
  the statement is false); so the two have the same joined rows (`JoinedOfTwin`), groups and
  aggregates (`AnswerAlike`).

- From a source to an answer. `InferredTotalsAreKept` (`TotalsSurviveInference`) for any sources
  and any order of what is done with them. `InferenceInv` says that a profile is what profiling
  makes of its table, that a detected relationship leads to a column the source keeps unique or
  the profile of its table calls unique (`LeadsToKey`), that a silver table is what refining makes
  of a profiled table, and that the joins of the model are such relationships between silver tables
  that exist (`ModelOver`). A profile that saw every row calls a column unique only if no two rows
  share a value of it (`UniqueIsKeyed`). Each row of silver comes from a row of bronze of its own
  (`SilverRows`), with values trimmed and cast one by one, so that a key whose values are told apart
  stays one (`SilverKeyed`). The declared cardinalities therefore hold (`InferredCardinalities`), and
  the answer is one `TotalsKept`, the lemma behind `TotalsAreKept`, speaks of.

- Dashboards. `GeneratedTilesAnswer` (`GeneratedTilesCompile`) for any workspace, drilling and
  clicks. The model that is built is sound: tables and their columns have ids of their own, every
  measure is of a column of its table, and every table has one (`BuildSound`). The search for
  joins reaches every table one traversable join away (`NeighboursReached`), so a question whose
  measures are of one table and whose columns are its own or such a neighbour's, visible and not
  personal, passes each of the compiler's tests (`FieldResolves`, `MeasureFound`, `AsksCompile`). The invariant `BoardInv` says
  that every tile is one of those: its measures and columns, those it may be drilled to as well,
  are of the primary fact and what is near it, and its kind has what it needs to be drawn
  (`TilesAreOf`); that the page's filters are on such columns (`PicksAre`); and that there are
  tiles exactly where there is a fact. Drilling exchanges a column of a tile for one of its path, and a click
  takes a column of a tile, so both keep it (`DrilledIsOf`, `FilteredIsOf`); and what such tiles
  ask compiles (`QueriesAsk`, `BoardCompiles`).
- Tiles. `PartsAreTheWhole` (`PartsSumToWhole`) and `HeadlinesAreCurrent` (`CurrentIsLatest`)
  for any rows. An order is a set of pairs of places, the k-th row the one with k - 1 ahead of
  it. For a strict total order this numbers the rows one to one, each before the next
  (`PlacesFollow`), so sorting changes no sum (`SortedSum`, by the sums of `Answers`), the tail
  that is folded is disjoint from what is kept (`FoldedSum`) and no larger (`FoldedSizes`), and
  what all periods precede is last (`LatestIsLast`).

Where these proofs need an induction (a search that ends after any number of steps, a set that
grows by one element), they take the least number at which the statement fails
(`LeastNumber`, from the well-foundedness of the natural numbers) and show that it does not.

The type invariants of `Refinement`, `Warehouse` and `Identity` are proved (`RefinementTypes`,
`WarehouseTypes`, `IdentityTypes`) and not listed in a run.

Only model-checked: the liveness properties (`DueIsServed`, `LocksEnd`, `Converges`,
`CatchesUp`, `LoadsEnd`), whose fairness is out of the prover's reach. Every invariant of a passing
run, and every action property, is stated by a theorem.

## 11. Not modelled

- Drivers, the Databricks client, the web application (but for the drilling and cross-filtering
  of its dashboards), the assistant, alerting, the audit log
  and the external sign-on: input and output around the parts above, which keep no state those
  read. The ontology is a drawing of the semantic model.
- Bounded queries: what a cancellation stops is decided inside the warehouse driver.
- The limit of a poll, which needs more schedules than an instance has.
- Tenancy: a filter on each query and a role read once per request.
- The storage of the two vaults below their single calls; failed commits of the metadata
  database, but for those of a connection and its secrets.
- Domains (a DNS lookup, whose outcome is the constant `Claim`), access tokens, hashing, mail.
- Overlaps within one transaction on one row, which are single steps here: the release of a lock
  (`Release`) and an edit of a schedule are read, changed and written back by one session, and so
  is the token that a refresh rotates or finds reused. A connection that is deleted between two reads of
  a poll is the same as a lost claim (`LoseClaim`).
- The rounding of the profile's ratio of duplicates, and the characters a vault does not take in a
  name, which its provider replaces: references are taken to stay distinct.
- Of profiling, the detection of personal data and the statistics that are only shown; of
  quality, rules written by hand; of dashboards, layout, sharing and the filter bar.
