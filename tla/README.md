# TLA+ specifications of tenforty

tenforty prepares United States federal and California tax returns: it loads a
YAML scenario, computes the return (natively, or by driving LibreOffice over a
workbook), fills PDF forms, and assembles them into packets. This directory
holds TLA+ models of the program's stateful parts (the spreadsheet engine, the
output directories, depreciation over the years), of one return's way from the
scenario to the printed packet with the arithmetic of its forms, the TLC runs
that check small instances, and TLAPS proofs for instances of every size.

Line numbers below are those of the files under `tenforty/`.

## Inventory

| Component | Code | State it keeps | Operations | Interacts with | What is hard | What makes it correct |
|---|---|---|---|---|---|---|
| Spreadsheet engine | `oracle/engine.py` | a process-wide lock and version memo, a work directory of files, a cache directory shared by processes | `compute` (copy, write inputs, recalculate under the lock, read, cache) | called by the federal pipeline, by threads of a test run; calls `soffice` | interleaving, timeouts, silent exits, stale outputs, crashes, damaged entries | an answer is that of its own request; the lock is released; a compute ends |
| Amendment packet | `orchestrator.run_amendment_packet`, `selector.py`, `amendment.py`, `verification/record.py` | the output directory, the emit record, `packet_manifest.txt` | fill 1040-X, render changed forms, California side, rename, manifest | uses both compute pipelines and the emit plan | refusals and crashes between two files, reuse of a directory | the manifest vouches for its files; filed return + packet = corrected return |
| Return run | `__main__.py`, `orchestrator` emitters, `pdf_packet.py` | the output directory: loose forms, packets, side files | emit, assemble, prune, report | scenario's source documents, the emit plan | partial failure, leftovers of an earlier run, per-copy keys | a packet is the filing of one run; no form is lost; each form is filed once |
| Depreciation engine | `forms/depreciation/*`, `rounding.py`, gates in `attestations.py` | none between returns: the filer restates the history | conventions, 40% test, table lookup, ceiling, reconstruction | Forms 4562, Schedules C and E, audit workbook | a property over years of separate executions | lifetime depreciation stays within basis; an honest history is accepted |
| Federal compute | `orchestrator._compute_1040_pipeline`, `forms/f1040_spine.py` | none | route to the native spine or to the workbook, guards before and after | engine, attestations, every form module | two ways to one answer; guards that must sit in front of both | out-of-scope returns are refused, not computed; both routes agree |
| Refusal ledger, attestations | `attestations.py`, `positions.py` | a registry | load-stage, compute-stage and emit-stage gates | scenario loading, federal compute, emitters | a gate at one stage only; K-1s that arrive after the questions were asked | no return is computed that breaks an attestation on the K-1s it is computed with |
| Scenario and models | `scenario.py`, `models.py` | none | parse, validate, route source documents | everything | breadth | what loads is what the file says |
| Individual forms | `forms/*.py` | none | line arithmetic per year, emit gates | federal compute | one amount worked out in two places; roundings; a limitation computed and not applied | what two forms say of one amount agrees; nothing is deducted twice or lost |
| Corporate forms | `forms/f1120s.py`, `f100s*.py` | none | arithmetic, K-1 allocation | federal compute (owner's K-1) | rounding among shareholders | the shares sum to the whole |
| California return | `forms/f540.py`, `sch_ca.py`, `ca_divergences.py` | none | merge of divergences, Form 540 | federal results, CA YAML | user and catalogue adjustments of one line | an adjustment is applied once |
| Amendment forms | `forms/f1040x.py`, `schedule_x.py` | none | columns A, B, C, refund or owed | amendment packet | sign and split | A + B = C |
| Emit verification | `verification/*` | the emit record | fill, checks, completeness gate | every emitter | renamed and conditional fields | what is printed is what was meant |
| Declarations and mappings | `declarations/*`, `mappings/*` | data | lookup, validation | emit verification | data volume | checked against the templates |
| Parameters and tables | `params/*`, `tax_table.py`, `eic_table.py` | data | lookup | forms | transcription | checked against publications |
| Method change, positions | `forms/f3115.py`, `filing/*`, `positions.py` | a registry of positions | the Form 3115 block's ledger, elections at load and at compute | refusal ledger, Form 8995, emit plan | an election accepted before the facts it turns on exist | one story on every line; no election that does nothing |
| Summary, audit workbook | `summary.py`, `audit/*` | none | bottom lines; a workbook of formulas and the mirror that replays them | federal results, depreciation, return run | the same balance and the same deductions worked out anew | reports the computed figures |

`PROJECT.json` repeats the list with each component's status, and lists the
hazards of the code at the lines where they bite.

## Modules

| Module | Models |
|---|---|
| `AnswerService` | what `compute()` promises: a caller asks, and gets its own request's answer, an error, or dies |
| `SpreadsheetEngine` | `compute()` step by step, with the lock, the files, the cache and the environment |
| `SpreadsheetEngine_proofs` | theorems about it |
| `AmendmentPacket` | `run_amendment_packet` over its output directory |
| `AmendmentPacket_proofs` | theorems about it |
| `PdfPacket` | packet membership and order (pure operators) |
| `ReturnRun` | the `federal`, `ca` and `scorp` commands over one output directory; composes `PdfPacket` |
| `ReturnRun_proofs` | theorems about it, lemmas about selections and ranks |
| `Depreciation` | the depreciation engine over the years of the assets' lives; rounds with `Money` |
| `Depreciation_proofs` | theorems about it |
| `Lists` | selections from lists, by the indices they keep |
| `Money` | cents, dollars, rounding, sums; the sheets of a packet |
| `ScenarioTypes` | the fields of a scenario and their types, from the dataclasses of `models.py` |
| `PassiveLosses` | Schedule E Parts I and II, Form 8582, the passive-loss refusals |
| `DepreciationActivity` | one return's activities: resolver, overrides, stated mode, load-stage refusals, Form 4562 |
| `CapitalGains` | Form 8949, Schedule D and its carryforward |
| `SelfEmployment` | Schedules C, SE, 1, 2 and Form 8959 |
| `Credits` | Form 8962 and the probe of `f1040_spine.py`, the earned income credit |
| `FederalForms` | Schedules A and B, the income preamble, deductions, Form 8995, the tax, the spine |
| `Corporate` | Form 1120-S, its K-1s, Form 100S, what printing them refuses |
| `Refusals` | the attestation registry, direct deposit, the loader's checks |
| `California` | divergences, Schedule CA, Form 540 |
| `AmendmentForms` | Form 1040-X and Schedule X |
| `HeadOfHousehold` | the facts of a head-of-household filer, their refusals, Form FTB 3532 |
| `MethodChange` | Form 3115, its refusals, its statements |
| `Positions` | contested positions of law and their elections |
| `ReturnSummary` | Form 4868 and the cover's rows and bottom lines |
| `AuditWorkbook` | the depreciation audit workbook and the mirror that checks it |
| `WorkbookCells` | what of a return reaches the 1040 workbook, and what the workbook's answer is refused for |
| `FederalReturn` | the pipeline: one action a stage; composes all of the above |
| `FederalReturn_proofs` | theorems about the pipeline, and about what a return states: head of household, Form 3115 |
| `Money_proofs` | lemmas about sums, roundings and selections of lists of any length |
| `ReturnArithmetic_proofs` | what each form's operator returns of a typed scenario, and theorems about them |
| `ReturnFigures_proofs` | theorems about the figures of a return |
| `MC*` | constants of the TLC instances, nothing else |

Definitions whose comment begins "Mutant:" or "Broken:" stand next to the definition they
vary; each is a plausible mistake, and each breaks the property `PROJECT.json`
pairs it with. No behaviour specification uses them.

### SpreadsheetEngine

State: `pc`, `req`, `entry`, `held` and `silent` are a thread's place in
`compute` (281-322) and its locals; `lock` is `_SOFFICE_LOCK` (57); `version`
the memo of `_soffice_version` (86-103); `working` and `recalculated` the two
files of a work directory; `cache` the entry files. `Begin` is the call, with
the bypass decision (294-298). `MissVersion`, `ProbeVersion`, `NoCacheEntry` and
`LookUp` are `_cache_entry` and `_cache_read`: `functools.cache` takes no lock, so
both threads of a process may miss the memo and probe, one after the other under
the lock, and differ in what they find; `CopyTemplate`, `LoadWorkbook`, `SaveInputs`,
`LaunchSoffice`, `SofficeExitsZero`/`SofficeFails`, `CheckOutput`,
`ReadOutputs` and `StoreAnswer` follow the code's order, one action for each
access to a shared file or lock, so that other callers may step in between.
`Crash` ends a process; `DamageEntry` is the user's cache directory.

An answer is abstracted to the workbook it was recalculated from: the template
and the set of requests whose inputs are on it. That is enough to tell a right
answer from another caller's, a stale, a blank or a merged one.

The engine keeps its promise under two conditions, which the theorems name
(`Sheltered`): callers do not share a work directory, and soffice does not exit
0 without writing over an older output. The command line ensures neither: it
passes `/tmp/tenforty_work` in every process. The second condition is the
subject of a finding.

### AmendmentPacket

State: one directory (`disk`, `manifest`), the run's locals (`queue`, `mailed`,
`record`, `given`), and `pc`. A file's content is the number of the run that
wrote it. Each fill through the chokepoint is one action. `SelectForms` is the
whole selection with its 8z refusal, `Rename540` the rename with the record's
update and the growth of the mailing list. `Refuse` stands for every guard that
raises at that point (which returns are refused is not modelled, that any may be
is); `Crash` may leave the file or manifest being written half-written.

### PdfPacket and ReturnRun

`PdfPacket` has the packet tables and the functions on them. An emitted key is
its name taken apart into form, slug and number, which is what
`_family_pattern` and `_copies_pattern` recognise in it. `ReturnRun` runs
commands in one directory: `Emit` writes the next form in emission order,
`AssemblePacket` one packet, `Prune` removes one loose form. A refusal or crash
leaves everything in place and another command may follow.

`ordered_packet_members` sorts by a key; `OrderedMembers` gives each member its
rank, which is the same list (`ReturnRun_proofs` shows that it holds every
member once, in order). `IsFiling`, the reference definition, does not use it:
a packet holds what belongs to it of one run, its main form first, then the
W-2s, then the rest in attachment order.

### Depreciation

The program keeps no depreciation history: every return states what earlier
years took and which convention the placement year used. The state is therefore
the history itself (`taken`, `used`) and one step is one year's return:
`FileReturn` with any statements the load-stage gates accept, including
acknowledged mismatches and omitted assets, or `YearElsewhere`, a year this
program did not prepare. `Reconstruct` is the code's recomputation of that
history, a recursive function. `faithful` is a history variable: the assets
filed every year with the convention their placement year used.

### FederalReturn and the modules of the forms

State: `scenario` (the return, as given or as amended), `stage`, `refusal`,
`figures` (what the stages so far computed, by name), `printed` (the forms
written) and, in an amendment, `filed` (the return that was filed). A scenario
is a record of amounts in cents and of facts; a name, an address or a date is in
it only where a refusal or an amount depends on it.

| Action | Code (`orchestrator.py`) |
|---|---|
| `Load` | `scenario.load_scenario` and its refusals |
| `BuildEffective` | `_build_effective_scenario` 1404-1435: the corporation's K-1s join, the questions are asked again |
| `Guards` | `_compute_1040_pipeline_core` 1644-1673 and the choice of route, 1437-1476 |
| `Income`, `Deduct` | `_compute_native_schedules` 1810-2055, before and after the income preamble |
| `ComputeSpine` | `f1040_spine.compute_spine` |
| `EnterInputs`, `Recalculate`, `ReadAnswer` | `_compute_1040_via_workbook` 2057-2211, over the cells `WorkbookCells` fills; beside the sheet's arithmetic, what it answers is the environment's |
| `PrintFederal`, `PrintCorporate` | the emit plan 2505-2906, rendered in `_emit_pdfs_internal` 2286-2337; the corporation's set 2937-3097 |
| `PrintAudit` | the depreciation audit beside the packet, `audit/depreciation_workbook.py`: built, mirrored against the engine, written, or refused |
| `ScorpReturn`, `CAScorpReturn`, `CAScorpK1s` | 3897-3933; the California set 3201-3325, its K-1s and the rest 3326-3416 |
| `ComputeCalifornia`, `PrintCalifornia` | `_compute_ca_results` 3591-3695, 3099-3199 |
| `File` | the filed return of an amendment: computed as given, then the filer corrects it |
| `Amend`, `Attach`, `AmendCalifornia` | `run_amendment_packet` 3697-3885 |

Each stage has a ledger, the refusals of that stage in the order the code raises
them, and its figures. A stage either refuses (`Refuse`, with the first entry
that offends) or goes on (`Proceed`, `Write`). The same ledgers are asked again
where the code asks again: compute and emit share `SharedLedger`,
`PartIILedger`, `BusinessLedger` and others, over the scenario each of them has
in hand (`_emit_pdfs_internal` reads the scenario as given for Schedule A, the
California side reads it without the corporation's K-1s).

Facts that no amount depends on are checked where the code checks them, which is
more than once: the head-of-household contract by the loader, by the federal
header and by the California emitter (a configuration built in code meets only
the last two), Form 3115's ledger at load, at compute and before anything is
written, elections at load by what the return *may* reach and again by what it
reaches once the corporation's K-1s have joined. `ConstructionLedger` is what
constructing a `Scenario` refuses. `Published` is what a route hands on: the
native spine publishes lines 34 and 37 and no line 24, the workbook's harvest
lines 24 and 34 and no line 37.

Forms are operators: `F8582(rentals, k1s, config, agi)` is `f8582.compute`, with
the lines that other code reads as its fields. The published tables are
constants. Reference definitions the properties compare with (`DisallowedLoss`,
`Worksheet`, `PriorDeduction`, `Ceiling4562`) are written from what the code's comments say of
the law, apart from the operators that model the code.

The workbook route. `InWorkbook(s)` is the return that the flattener and the
mapping put into cells: each kind of form cut at its last cell, nothing of what
has no key. The sheet's own arithmetic is taken to be that of the native forms
over `InWorkbook(s)`, which is what the repository's parity tests hold; beside it
the environment chooses an answer `[eic, verdict, extra, caption, probe]`: a
credit of line 27, whether the sheet's verdict says so, a credit of another
line, the caption of line 12 and what a probed cell holds. Only returns of
`mfs` and `qss` filers, and those the earned income credit may reach, go this way
(`InSpineScope`). What a missing cell drops in silence: the second payer of
interest or dividends (recorded by `tests/test_f1040_spine_oracle.py` 96-103),
rentals after the first, the portfolio boxes of K-1s, an itemized block that is
stated rather than taken from a Form 1098, the twelfth lot of a box. A seventh
W-2 of a person is refused.

Things a reader of the code may want to know, found while modelling and not
contradicted by any comment:

- Form 1040 lines 2b and 3b round the 1099 and the K-1 amounts apart, Schedule
  B each payer: the totals may differ by the roundings.
- Form 8959 line 18 is figured from unrounded parts; printed lines 7 and 13 may
  add to a dollar more or less.
- Four K-1s fill the row letters of Schedule E Part II; a fifth raises an
  `IndexError` (`no_row_letter` in `PartIILedger`).
- `_should_emit_sch_d` asks for 1099-B lots only: K-1 gains or capital gain
  distributions alone print no Schedule D.
- The K-1s of all shareholders are appended to the one Form 1040, and ownership
  percentages are not checked to sum to 100.
- An attestation left unanswered (`None`) passes `enforce_compute_time`: only
  the loader asks that it be answered.
- On the workbook route an overpayment has no line 35a: `refund` is produced by
  the native spine only, so 35a to 35d stay blank (4261).
- Form 540 line 71 truncates cents (3669) where other lines round.
- Schedule 1 is not emitted when lines 10 and 26 are both zero, also when they
  are the sum of amounts that cancel.

## Runs

| Run | Instance | Shows |
|---|---|---|
| `engine_threads` | 2 threads of one process, 2 directories, 3 requests (2 of them one set of inputs in two orders, writing one cell), cache on | `TypeOK`, `AnswersAreOwn`, `SofficeSerialised`, and that the engine implements `AnswerService` |
| `engine_progress` | 2 threads, an answer JSON cannot reproduce, an input without a cell; fairness | `CacheSound`, `LaunchedComputeEnds` |
| `engine_stale_output` | 1 caller, soffice may exit 0 over an old output | `SilentExitRaises` is violated |
| `amendment` | 2 forms, 2 payloads, 2 runs, no run after a complete one | `ManifestVouches`, `RefusalLeavesNoManifest`, `AttachmentsCarryCorrection`, `MailsOnlyPrintable`, `RecordIsDelivered` |
| `amendment_reuse` | the same, runs may follow a complete one | `RefusalLeavesNoManifest` is violated |
| `return_run` | 6 returns, 2 commands in one directory, 2 copies | `PacketsAreFilings`, `NoFormIsLost` |
| `return_form_3115` | 2 returns, 2 commands | `PointsAtOwnManifest` is violated |
| `depreciation` | 3 assets of 3-year property over all their years, with any accepted statements | `LifetimeWithinBasis`, `HistoryReconstructs`, `RecoveredWithinRounding` |
| `depreciation_residual` | a house of 27.5-year property over 29 years | `RecoveredWithinADollar` is violated |
| `federal_return` | 5,816 returns, 48,326 states: families of rentals with other losses, K-1s, securities, businesses, depreciation, the premium tax credit, earned income facts, itemized deductions, an S corporation, Form 3115, head of household, contested positions, California, amendments, and every refusal's neighbour | `TypeOK` and the 20 properties below |
| `federal_amendment_footing` | the same returns | `AmendmentPaymentsFoot` is violated |
| `federal_schedule_a` | the same returns | `ScheduleAAttached` is violated |

The properties of `federal_return` each relate amounts that different code works
out, or a promise made at one stage to a later one:

- `UnrefusedLossIsAllowed`, `ExcessLossSeen`: a guard that is not the limit
  itself lets nothing over the limit through.
- `Form4562Ties`, `ConventionIsTheReturns`: emission repeats the computation and
  arrives at the same depreciation and convention.
- `CarryforwardConservesLoss`, `TaxBenefit`, `QBIReducedOnce`: an algorithm
  against a reference definition of its result; the last also says that an
  election is in effect exactly where it is consulted.
- `AuditTiesOut`: the audit workbook's formulas arrive at the engine's figures
  and at those the return prints, or the workbook is refused.
- `OneBottomLine`: the spine, Form 4868, the amendment and the summary's cover
  state one balance, whichever lines the route published.
- `HouseholdProven`: what a head-of-household return relies on is in the facts
  stated, however its configuration was built, and its FTB 3532 says the same.
- `Form3115Consistent`: amount, election, period, answers and consent of a
  Form 3115 tell one story.
- `SEHealthProbeSound`: one probe stands for every deduction it excludes.
- `NoPartialTotal`: a total the workbook reports leaves out no form that has no
  cell, and no line that has no number.
- `PrintedPaymentsFoot`, `AttachmentsMatch`, `Form540Balances`: the printed
  pages agree with each other; the last includes Schedule CA Part II.
- `AttestationsHoldOnEffective`, `PartialPackets`: what stages may rely on, and
  what a refusal may leave behind. Of a California corporate set that is the 100S
  and the K-1s of the shareholders before the first that would be both final and
  amended, which the K-1 loop refuses from 2024 on; the run has shareholders
  first, second and third in line for it, and years on both sides.
- `K1SharesConserve`: the corporation's figures arrive, within the roundings.
- `AmendmentBalance`: an amendment settles the change, federal and California.

Bounds, and why they are enough:

- Engine: each hazard involves one caller, or one caller and one other that
  takes the lock, crashes the process they share, or fills the cache. Two
  threads of one process have all of these, each with a directory named after it,
  so the two differ in nothing and are symmetric; two processes interact only through
  the cache, which a crash and restart reaches as well. Three requests are one
  cacheable and a pair that collide. Nothing is bounded: the callers go on for
  ever. The theorems of `SpreadsheetEngine_proofs` remove these bounds for the
  safety properties.
- Amendment: `MaxRuns` = 2 gives every leftover of one run to the next; a third
  meets nothing a second does not. Two forms give an order, a refused and an
  unrefused one, one with the statement and one without; with payloads `{a, b}`
  a form may be new, dropped, changed or equal (the filed return prints `a`, which
  loses nothing by symmetry of payloads form by form). Compute-only years are
  included although `years.py` lists none at present.
- Return run: `MaxRuns` = 2 as above; `MaxCopies` = 2 has an order among copies;
  the six returns emit every form family and every kind of packet slot.
- Depreciation: three assets are two of one placement year (the 40% test) and a
  later one (which may trip its own year's test). 3-year property has the whole
  table in four years, and `LastYear` = 4 lets the oldest assets run out of it.
  The bases are chosen on, above and below half a dollar.

- Federal return: the parameters are those of 2024 (the year only steers which
  rules apply; `NonitemizerCap` is that of 2021, the one year that has it), with
  tables of coarser rows. Every family varies the inputs of a few forms and
  leaves the others plain: forms interact through totals, which the families
  that combine two of them reach. Amounts are chosen on both sides of every
  threshold the ledgers compare, with odd cents where a rounding matters. A
  return is one pass through the stages: behaviours are short, and the breadth
  is in the initial states. TLC's integers are 32 bits wide: no amount in
  ten-thousandths of a dollar exceeds them.
- The workbook's answers are a small set that holds a plain answer, one with a
  credit, one declared inconsistent, one whose payments do not foot, one under a
  caption that is a diagnostic and one with text in a probed cell. `Employers` and
  `Payers` are the sheet's 6, `LotRows` its 11; families reach one more of each.
  `Employers` is one constant because every year's map has the same six cells for
  the taxpayer and for the spouse (`mappings/f1040.py` 1593-1628 generates them
  for 2021 to 2025, 1886-1892). `LossLimit` is one because the only status with
  another limit, married filing separately, is never computed natively.
- Health insurance is stated in whole dollars (`WholeDollars` in `ScenarioTypes`):
  Schedule 1 hands line 17 on unrounded, and the lines here are whole dollars.

`CHECK_DEADLOCK FALSE` is set where a return has ended, or the run counter or the last year is
exhausted. The engine runs check deadlock.

Fairness is assumed in `engine_progress` only: weak fairness of each caller's
`Advance`. Threads are scheduled by the operating system, and a soffice that
does not exit is ended by the 60 second timeout (365-387; 30 for the version
probe), so an enabled step is taken. Nothing is assumed about who gets the lock:
the code uses `threading.Lock`, which is not fair, and a caller *waiting* for it
is not claimed to make progress. Only a compute that got LibreOffice is claimed
to end.

## Findings

1. `engine_stale_output`: `_recalculate` asks whether the output file exists
   (398), never removes an older one, and so takes the previous compute's
   answers when soffice exits 0 without writing. The comment at 394-397 calls
   the check a residual defence against that exit.
2. `amendment_reuse`: a run refused after its 1040-X, in a directory where an
   earlier run completed, says there is no `packet_manifest.txt`
   (`orchestrator.py` 3800-3803), but the earlier run's is there.
3. `return_form_3115`: `_print_form_3115` (`__main__.py` 120) points at whatever
   filing manifest the directory holds, not one "the run wrote" (117).
4. `depreciation_residual`: lifetime amounts are said to land at most "a dollar
   under" basis (`resolver.py` 104-107); a long table's roundings add up to
   more: $12 of a basis of $1,250 over 27.5-year property. `RecoveredWithinRounding`
   is the bound that does hold.

5. `federal_amendment_footing`: line 17 of Form 1040-X is the corrected total
   payments (`f1040x.py` 420), which holds an earned income credit the corrected
   Form 1040 claims, while line 14 is never filled; the docstring (396) says line
   17 adds lines 12 to 15 and 16. Only a credit on the filed return is refused.
6. `federal_schedule_a`: `_should_emit_sch_a` (`orchestrator.py` 4048) reads
   `itemized_deductions`, the compute side a block it builds from Forms 1098: a
   return that itemizes on Form 1098 alone is printed without the Schedule A its
   docstring (4041) says it emits.

## Proofs

`SpreadsheetEngine_proofs`, from `ShapeAssumption`, `NullAssumption` and
`KeyAssumption` (the cache key separates requests that may be cached: it is a
hash of everything a compute depends on, and the code relies on it):

- `TypeCorrect`: `Spec => []TypeOK`. `TypeOK` is inductive.
- `Serialised`: a caller runs soffice exactly when it holds its process's lock.
  Inductive together with `TypeOK`.
- `Invariance`, assuming `Sheltered`: `Spec => []IInv`. `AnswersAreOwn` speaks
  of the last state of a compute only; `IInv` says of every earlier state which
  file or workbook in memory is already the request's own (`OwnBookInv`), and
  that a compute with an entry is one that may be cached (`OwnEntryInv`).
  `CacheSound` is a part of it, since a hit returns what an earlier compute
  stored. Each action is shown to keep it for the caller that moves and, as
  directories are not shared, for the others.
- `Sound`: `AnswersAreOwn`, `CacheSound` and `SilentExitRaises` follow.
- `ImplementsService`: under the mapping `SeenStatus`, `SeenAnswer`, every step
  is one of `AnswerService` or a stutter, so `Spec => Service!Spec`.

`AmendmentPacket_proofs`, from `FormAssumption` and, for every theorem,
`FreshDirectory` (no run starts where a manifest already is: the second finding
is what happens without it):

- `Invariance`: `Spec => []IInv`. The properties speak of a run's end; `IInv`
  says how the run gets there. `MailingInv` gives the mailing list and the
  record at each point (the record is ahead of the list by the California files
  filled but not yet renamed); `DiskInv` that the files of this run are exactly
  those in its record, since older files carry lower run numbers; `PrintableInv`
  that a refused Form 1040 stays in the queue; `ManifestInv` that there is no
  manifest before the end. One lemma per action.
- `FirstIsMember`: rendering takes a form that is still in the queue, by the
  well-foundedness of the forms' ranks.
- `ManifestIsTrue`, `RefusalIsMarked`, `CorrectionIsCarried`,
  `OnlyPrintableIsMailed`, `RecordIsTrue`: all five properties of the
  `amendment` run, for any forms, payloads and number of runs. That the
  attachments carry the correction is an argument about the two selections:
  a form neither changed nor dropped reads as it was filed.

`Depreciation_proofs`, from `AssetAssumption` and `RateAssumption` (each column
of a published table adds up to the whole basis, which every column of the
program's tables does):

- `Invariance`: `IInv` is `TypeOK`, `LifetimeWithinBasis` and that nothing is
  taken before an asset is placed in service. The last part is why a first-year
  amount, computed from an empty history, stays within basis.
- The step rests on what the gates accept: a stated prior figure is matched with
  the reconstruction or acknowledged, in which case it is used, so the ceiling
  is applied after the amount truly taken (`AmountWithin`).
- `TypeCorrect` and `BasisCeiling` follow; they use nothing of the rates but that
  they are natural numbers.
- `HistoryFound`: `HInv` says that a faithful asset's history is what its table,
  capped year by year, gives. A return extends it by the year that
  `Reconstruct` will find next time (`ReconstructIs`), so nobody who states the truth is refused.
- `BasisRecovered`: along a column the history stays within half a dollar a year
  of the exact product (`OnCourse`), the ceiling included, so a column that has
  run out leaves no more than its roundings.

`ReturnRun_proofs`, from `ReturnsAssumption` (which sets of forms one return can
emit, `Coherent`: no K-1 without its corporation's return, no gap in the copies,
no statement without its form):

- `RunInv`: `Spec => []IInv`. `IInv` is `TypeOK` and, stage by stage, what is on
  disk: the forms emitted so far are those before `step` in the plan
  (`EmittedSoFar`) and are loose (`Loose`); a packet already assembled holds every
  form its slots claim (`Held`); pruning has removed those and no others, up to
  `step` (`Pruned`); every packet on disk is a filing (`WholePackets`).
- `MembersAre`: the ranks number the members of a packet from 1, each once, so the
  ordered list holds every form a slot claims, in attachment order.
  `MainEmitted`: a run that emits any form of a packet emits its main form, from
  `Coherent`. The tables themselves (no form in two packets, one form a slot)
  are looked up by the provers, entry by entry.
- `NothingLost`: `NoFormIsLost`, for any number of copies, returns and commands.
  A form is deleted after every packet is written and only if a packet holds it.
- `FilingsAreWhole`, `RunTyped`: `PacketsAreFilings` and `TypeOK`.

`FederalReturn_proofs`, from `ScenarioAssumption` (scenarios have their
fields and are of a command the program has, one to a `california` command has a
ca540 block, without which the command raises), for any scenarios, tables and
answers of the workbook:

- `Invariant`: `Spec => []IInv`. The three properties speak of computed or
  printed returns; `IInv` carries each from the stage whose ledger establishes
  it: `ScenarioInv` and `StageInv` tie commands to stages, `FiguresInv` says when
  a Form 1040's lines exist, `AttestInv` that the attestations hold from the
  stage that asked them (which differs for a return with a corporation),
  `PrintedInv` which forms each stage finds written. One lemma per action.
- The amounts stay opaque: a ledger is a list, and a passed list passes each of
  its entries (`PassedEntries`); every stage's proof cites the entries it needs.
- `TypeCorrect`, `AttestationsHold`, `PaymentsAddUp` and `OnlyTheseArePartial` follow.
  The last says exactly which forms a refused K-1 (100S) leaves
  (`UnmarkableLeaves`), for any shareholders.
- `HouseholdAlwaysProven`, from `HouseholdAssumption` (stated days are numbers, which
  the dataclass asks for): the invariant adds what the facts' ledger leaves, from
  the stage that asks it: the guards for a computed return, the printing of
  California for FTB 3532. Whether the loader saw the configuration does not
  matter, which is the point.
- `ChangeAlwaysConsistent`, from `ChangeAssumption` (amounts are numbers, answers
  Booleans or not given): `ChangeInv` says that wherever Form 3115 is printed its
  ledger passed over the scenario in effect; only `PrintFederal` prints it. What
  the form says is derived entry by entry from the passed ledger (`ChangeLeft`):
  an amount exact to the cent prints as stated (`CentsPrinted`), so the
  election's limit, tested on the stated amount, holds of the printed one.

`Money_proofs`: sums over lists of any length. The library's induction theorems
take an operator, but a *set* of indices closed under successor is enough
(`ByPrefix`, `ByRule`): what holds of the empty prefix and is kept by one more
entry holds of the list. From it come sums of integers are integers, sums
bounded entry by entry, sums of parts, and what a selection (`Lists`) keeps.
`ShareWithinHalf`: a rounded share is within half a dollar.

`ReturnArithmetic_proofs`: what each form's operator makes of a typed scenario,
from the assumptions about the tables (`RowsAssumption`, `LossLimitAssumption`,
`SelfEmploymentAssumption`, `RatesAssumption`, `CreditsAssumption`, `FiguresAssumption`,
`FederalFormsAssumption`, `CaliforniaAssumption`, `CellsAssumption`: parameters are
natural numbers, tables start at nothing and have a row for each status) and
`NoneAssumption`.

- Every amount of every form of `IncomeFigures`, `DeductFigures`, `SpineFigures` and
  the California figures is an integer, by form, down to the table lookups.
- `LedgerLeavesNoGap`: where none of the three passive-loss refusals fires,
  section 469 disallows nothing. A case split on the pooled allowance.
- `CarryforwardConserves`, `RefundTaxesTheBenefit`, `QBICarries`: an algorithm
  arrives at its reference definition, over lists of any length in the last.
- `SpineFoots`, `AmendmentSettles`, `ScheduleXSettles`, `BottomLinesTell`,
  `OneBalance`: the formulas of the payments and balances.

`ReturnFigures_proofs`, on top of both, from `TypeAssumption` and `TablesAssumption`
(scenarios have the fields and types of the dataclasses), `ClassesAssumption` (a
class is personal property or real, each with a row of its own, as the tables of
`models.py` and `f4562.py` have it) and `AnswerAssumption` (a scenario read from
its file brings no answer to the 40% test: only the view the resolver builds of
one activity does):

- `FiguresAreComputed`: `Spec => []KnownInv`. Wherever a stage's figures are still
  known they are those the stage computes of the scenario in effect, cut to the
  workbook's cells on that route, and the refusals of every stage before passed.
  A property of the figures is then one of the forms' functions, given the
  refusals asked on the way. One lemma per action.
- `ExcessLossGuarded`: a guard on Schedule C and E losses sees every excess loss.
- `RefundTaxesWhatItSaved`, `LossIsCarriedOver`: `TaxBenefit` and
  `CarryforwardConservesLoss` of every computed return.
- `K1SharesAddUp`: over any number of shareholders.
- `QBIReducedEverywhere`: business income reduced once, on the elected side,
  however many businesses and K-1s. No rule of the loader keeps a health premium
  from being negative, and Schedule 1 refuses only a positive one beside two
  businesses: the proof rests on Form 8995's own refusal of any, which its
  comment calls unreachable.
- `TotalsAreWhole`: `NoPartialTotal`.
- `AmendmentAlwaysBalances`, `BottomLineIsOne`: two returns at once. `FiguresAreComputed`
  says what is known of the corrected return and of the one on file; `AmendInv`
  adds which of them are there: a printed Form 1040-X or Schedule X compares a
  computed return with a filed one and its refusal passed, and a Form 540 is only
  ever computed of a return with a ca540 block, the original's included.
- `Form540AlwaysBalances`: for a ca540 block without a negative contribution, penalty
  or interest. The loader refuses a negative interest only, and with either of
  the others negative and no overpayment the blank line 115 hides the difference;
  the run's scenarios state none.
- `UnrefusedLossAlwaysAllowed`, `AttachmentsAlwaysMatch`: what is in the packet.
  `PInv` adds to the figures which federal forms a printed return has written:
  exactly those its scenario calls for (`PacketOf`), and that no form asked for
  was refused. From it, a printed return's schedules are those its lines need:
  a line that is not zero has a source, a source has a form (`SumOfZeros`,
  `NoRepayment`, `RowsAreOfLots`). `GridsAssumption`, that the native route's
  years have the Schedule C family, is a fact of `years.py`.
  Two hypotheses come from what the code lets through. A K-1's carried-in loss has
  no lower bound, neither in the dataclass nor in the loader, and the native
  guards add it up: a negative one can hide a disallowed loss until Form 8582 is
  asked for, so a native return that is not printed is covered only without one. A
  negative health insurance deduction is refused by the loader, not by the
  dataclass: a natively computed scenario must state none.
- `Form4562AlwaysTies`, `ConventionIsAlwaysTheReturns`: the copies of Form 4562
  are computed at emission, one activity at a time, from a scenario of that
  activity alone. Three facts bring them back to the return: that scenario carries the
  return's answer to the 40% test, which the answer itself decides
  (`EffectiveMidQuarter`: neither a grid nor K-1s change it); the deductions of an
  activity's assets are those of its rows by class and of line 17, each asset
  in one row (`ClassesAddUp`, `Line22IsEngine`); and an activity with a copy has no
  override, since one beside property placed this year is refused at load
  (`OverridePassed`), so that what its schedule deducts is the engine's figure.
- `AuditAlwaysTiesOut`: `DInv` adds to the figures that an audit is written last,
  of a computed return whose mirror agrees, and that the audit's refusals are raised
  by its own entries alone. The mirror compares, asset by asset, the workbook's
  cells with the engine; that one test makes the copies of Form 4562, the
  schedules and the whole return tie. The other half of the property, that the
  audit refuses a federal return only for cents in a prior amount, says which
  formula leaves the engine: the one of the basis left.
- `SEHealthProbeAlwaysSound`: the probe is made at the lowest income, and a greater
  income has a greater percentage, figure and contribution (`PercentageGrows`,
  `FiguresGrow`, `ContributionGrows`) and no greater credit (`CreditFalls`), so no
  deduction in between finds a credit the probe did not. `FiguresAssumption`, that
  the applicable figures do not fall as the percentage rises, is a fact of the
  tables of `params/f8962`. The hypothesis is again one the code lets
  through: no rule of the loader or the dataclass keeps a month's premium from
  being negative, and the negative credit of such a month could hide another's.

Model-checked only: `LaunchedComputeEnds` (fairness and ENABLED are outside the
prover), and what the runs that expect a violation show. Every other property of
a passing run is a theorem, some under the hypotheses named above.

## Not modelled

- The engine: the hit and miss counters, the sanction check in front of a
  launch, a soffice orphaned by the death of its parent (the model ends it with
  the process), templates changed during a compute.
- The amendment and return runs: what the forms print, which returns each guard
  refuses, output directories written by other programs, two runs at once in one
  directory.
- Depreciation over years: stated mode, overrides and section 179 or bonus
  histories are in `DepreciationActivity`, for one return; short years are not
  modelled.
- Federal return: cell addresses and captions of the workbook, and its own
  arithmetic, which is taken to be that of the native forms; header and text
  fields, in Form 3115 and its statements too; the layouts of years and of the
  audit workbook and the cover. Alternative minimum tax, dependents and the child
  tax credit do not arise: the code refuses or asks to be told there is none.
- California: Schedule D (540), which repeats a federal figure.
- The forms of a stage are written in one step here, up to a refusal that the code
  raises between two of them: there the stage ends (`CAScorpReturn` and
  `CAScorpK1s`). Crashes between two files are the subject of `ReturnRun` and
  `AmendmentPacket`.
- Emit verification reads back the widgets of filled PDFs, whose behaviour is the
  PDF library's; mappings, declarations and parameters are data.
- The components marked `not_modelled` in `PROJECT.json`.

## Plan

Done, in this order: `SpreadsheetEngine` with `AnswerService`; `AmendmentPacket`;
`PdfPacket` with `ReturnRun`; `Depreciation`; the modules of the forms;
`FederalReturn` with its proofs; the audit workbook, head of household, Form
3115, contested positions and the summary with theirs; the types of a scenario
and what every form makes of them; the histories of `Depreciation` and the
directories of `ReturnRun`. What remains worth doing:

1. `EmitVerification`: the completeness gate over an abstract form.
2. Composition of `FederalReturn` with `SpreadsheetEngine` through
   `AnswerService`, in the place of `WorkbookAnswers`.
