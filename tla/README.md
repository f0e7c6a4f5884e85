# CharacterForge2: a verification project

CharacterForge2 keeps fictional characters on a user's own machine.  A Python
process (the *spine*, `src/app/`) owns the records and serves them over a
loopback HTTP API; a React client (`src/frontend/`) shows them and sends edits.
This directory holds TLA+ models of that program, TLC runs that check them on
small instances, and TLAPS proofs of what matters most for every instance.

All line numbers refer to `src/`.  `PROJECT.json` maps each definition to the
lines it stands for.

## 1. Inventory

| Part | State | Operations | Talks to |
|---|---|---|---|
| Character record (`app/record/model.py`) | header (age, rating), append-only identity versions, at most one draft, persona block | create, age, rating, picks, texts, name, draft, finalize, strict load, atomic save | gate, catalog, filter, persona hooks |
| Construction gate (`app/record/gate.py`) | none | per-write check, whole-state check | catalog |
| Option catalog (`app/options/catalog.py`) | groups and options, immutable after load | lookups, the visibility evaluator | read by gate, record, view |
| Option loader, validator (`loader.py`, `validate.py`) | the groups merged so far, a staged copy per file, the errors | read a file, apply its fragments to the copy, commit or skip it, judge the merge | builds the catalog; called by the spine's start, the validator, authoring |
| Safety filter (`app/safety/filter.py`, `normalize.py`) | word lists, immutable after load | check a text in a context at a rating | called by the record's text setters |
| Paragraph drafter, orphan report | none | pure functions of a record | finalization, load |
| Creator view (`app/spine/creator_view.py`) | none | assemble the served groups | record, catalog; consumed by the widgets |
| Record store and routes (`store.py`, `routes_records.py`) | per-character locks, record files, temporary files | create, load, mutate (load, attach, apply, save, re-read) | record, ledger; called from a pool of threads |
| Ledger (`app/ledger/`) | SQLite index with a cached `variable_stale` marker, sidecar receipts | index, rebuild, recompute, persona hook, staleness, grade | record (hook), sidecars |
| Spine lifecycle (`server.py`, `instance_lock.py`, `discovery.py`, `bootstrap.py`, `scripts/dev.py`) | OS lock, `runtime.json`, socket; the launcher's child | start, refuse, serve, stop, crash; launch, wait, terminate | file system, client |
| Service shell (`service.py`, `errors.py`, `schemas.py`) | token | token check, status mapping | routes |
| Audit log (`safety/audit.py`) | append-only file | append | filter, lifespan |
| Client state (`frontend/src/state`, `spine/client.ts`, `surfaces`) | bundle of four served views, tickets, busy flag, cursor | refresh, mutate, route a refusal | spine |
| Widgets (`frontend/src/widgets`) | none | compute the value to send | client state |
| Harvest tool (`tools/harvest`) | none | one-off import | none at run time |

What is hard here, and what makes each part correct:

- **Record.**  One record lives through hundreds of calls, several catalog
  releases and several ratings.  Picks and texts are checked *when they are
  written* and then copied (version to draft, draft to version) and never
  checked again until a commit.  Correct means: whatever the order of legal
  calls, the record stays loadable, no stored pick or text exceeds what the
  record's rating allows, a commit is whole across both layers, orphans are kept
  untouched, a retired option cannot be acquired, and a draft never gets into a
  state from which it cannot proceed.
- **View against gate.**  The view recomputes visibility from its own copy of
  the record's law (`creator_view.py:44-59` against `model.py:193-210`).
  Correct means: what it offers is accepted, what would be accepted is offered,
  and a blocking group can be answered.
- **Store.**  Requests on one character run concurrently on threads; any step can
  raise and the process can be killed at any point.  Correct means: calls look
  atomic, an answered edit survives a crash, a failed one has happened or not,
  no file is ever half a record, and a lock always comes back.
- **Loader.**  Files are user-editable and any of them may be broken anywhere.
  Correct means: a file applies whole or not at all, no law checked per group or
  per file is lost in the merge, later files only extend, and whatever a caller
  accepts is a catalog the rest of the program may trust.
- **Ledger.**  The marker is committed *before* the record it describes is saved,
  a rebuild is committed row by row and may break off, and the grade is derived
  on every query.  Correct means: markers agree with receipt and record, a rebuild
  derives the index from the receipts alone, and so the grade.
- **Lifecycle.**  At most one spine serves a data root, whatever crashes; the
  discovery file leads to the one that does; a start is never kept waiting, and a
  launcher that ends in order has seen the spine it started dead.
- **Client.**  Four GETs make up one view, refreshes overlap, replies get lost,
  a mutation may have happened although the client was told it failed.

`PROJECT.json` lists the hazards one by one, at the line where each bites.

## 2. Modules

```
Ratings ── OptionCatalog ── ConstructionGate ─┐
   └────── SafetyFilter ──────────────────────┴─ CharacterRecord ── CreatorView
IdentityHistory  <= (refined by) CharacterRecord

RecordCalls ── AtomicStore  <= (refined by) RecordStore ── RecordCalls

OptionCatalog ── OptionLoader

Ledger          SpineLifecycle          Client
```

What binds the separate models: `OptionLoader` shows that a catalog the spine
starts with satisfies `IsCatalog` and `CatalogLaws`, which the record modules assume
of every catalog (`CatalogAssumption`); `RecordCallsProofs` shows that a `CharacterRecord`,
seen as the three values of `RecordCalls`, does only what `RecordCalls` says; `SpineLifecycle` shows that one process at a time
owns the data root, which is why `RecordStore` may keep its locks in memory, and
its `Crash` is the one of `RecordStore`; `RecordStore` has the interleaving of a
persona edit's marker and its save, `Ledger` everything else that moves a marker.


| Module | Models | Notes |
|---|---|---|
| `Ratings` | the rating order, `gate.py:25` | written out four times in the code; one reading here |
| `OptionCatalog` | `catalog.py`, and of `loader.py` the laws a clean load guarantees (shown to hold by `OptionLoader`) | a catalog is a value; `VisibleNow` is `visible_now` |
| `SafetyFilter` | `SafetyFilter.check` | a text is reduced to the lists it hits (`Hits`) and the contextual lists hit near sexual vocabulary (`NearHits`) |
| `ConstructionGate` | `gate.py` | pure predicates; a refusal is FALSE |
| `CharacterRecord` | `model.py` | one action per mutation; a refused mutation changes nothing, so its condition is the action's guard |
| `IdentityHistory` | abstract | a history that only grows and one working copy |
| `CreatorView` | `creator_view.py`, and `toggleValue` of `WidgetHost.tsx` | operators over the record's state |
| `RecordCalls` | what each route means for one record | a record cut to live identity, draft, persona; which drafts may be committed with which persona is a constant (`Complete`) |
| `AtomicStore` | abstract | every call takes effect at one instant |
| `RecordStore` | `store.py`, `save_record`, the persona hook of `ledger/index.py` | threads, lock, temporary file, markers, failures, crash |
| `OptionLoader` | `loader.py`, and of `validate.py` and `bootstrap.py` what they make of a load | one fragment at a time, so that a file can fail half-way |
| `SpineLifecycle` | `server.py`, `instance_lock.py`, `discovery.py`, the lifespan of `service.py`, `audit.py`, `scripts/dev.py` | one action per step at which another process or a kill can intervene |
| `Ledger` | `index.py`, `receipts.py`, `grade.py` | the index against the receipt files it is derived from |
| `Client` | `recordData.ts`, `client.ts`, the surfaces, `App.tsx` | one mounted screen and the asynchronous calls it or its predecessors started |
| `MC*` | instances for TLC | |
| `*Proofs` | theorems | |

**CharacterRecord.**  `catalog` is the catalog of the running process; `Restart`
replaces it by another release and applies the strict loader's conditions
(`LoadRecord`).  Passing or not passing a filter to `set_name` and `finalize` is
the Boolean `installed`.  A pick list is a set: its order matters to display
only.  An absent key and the empty set are one thing because the code never
stores an empty list (the gate refuses it).  `NoText` as a version's
paragraph stands for the text the drafter derives.  JSON types, nulls, duplicate
picks and which of several refusals is reported first are left out.

**RecordStore.**  A worker goes through `queued`, `loading`, `applying`,
`writing`, `closing`, `replacing`, `reading`, `answering`: the points at which
another thread, an exception or a kill can intervene.  `create` holds its record
in memory before it takes the lock; `load` goes from `loading` to `reading`.
`Fail` is an exception anywhere under the lock; `Crash` kills the process and
keeps disk, temporary files and database.  `torn` is a history variable: the
receipts whose latest marker belongs to an edit that was never saved.  A creation
arrives under an id that no file and no call has (`Unused`: `uuid4`), in `AtomicStore`
too, so that no creation replaces a record.

**OptionLoader.**  `read` is the list of the files read, in load order, `groups` the
merge, `staged` the deep copy `_apply_file` works on, `at` the next fragment.
`ReadFile` is `_read_file`, `ApplyGroup` is `_apply_group` (`Applies` when it raises nothing,
`Outcome` what becomes of the group), `CommitFile` the replacement of the groups,
`RaiseFormatError` and `Skip` the two ways of `load_catalog` to meet an error: record it and
go on, or raise in strict mode.  `Judge` is the caller: the spine refuses on any
error and on an empty catalog, the validator on a missing directory too.  A
fragment is a function from the JSON keys it has, so that a key which is absent
and one that restates the old value differ (merge-locked keys).  Which file comes
next is any: the model covers every tree and every order.  Display keys and the
order of options are left out.

**SpineLifecycle.**  A *run* is one start of a process; it mints its own port and
token, so a discovery file is the run it names.  `phase` goes through
`checking` (`build_context`), `locked`, `bound`, `written` (the temporary file),
`listed` (after `os.replace`), `serving`, `draining`, `stopped` (after the lifespan),
`unlisted`, `dead`.  The lock is the operating system's, so `Crash` frees it and
leaves both files.  `Unwind` is an exception or Ctrl-C on its way through the two
`finally` clauses: one raised before the `try` of `serve` skips the removal of the file.
uvicorn hands a termination signal back to the process after a graceful stop; a
run that ends so without unwinding is a `Crash`.  A launcher is `main` of
`scripts/dev.py`: it deletes the file, spawns, reads the file and asks whoever it
names, and ends through `terminate`.  What it spawns, waits for and kills is a *process*:
the spine itself where the repository has a `.venv` (`SpawnPython`; the launcher's `child`),
else `uv run` (`SpawnUv`, no child), which starts the spine as a process of its own.  A spine under uv
is a run like the user's: it starts, is signalled and ends without regard to the launcher, and
uv may end before it, so `Reap` and `KillChild` then end the launcher and touch no run.  The launcher is
`gone` when its `finally` clause has run to the end, and `lost` when it is killed
(`KillLauncher`) or an exception or interrupt meets it where nothing catches it (`Escape`: no
command to run, between `Popen` and the `try`, inside the `finally` clause).  `delisted` is history.

**Ledger.**  `sidecar` is the receipt files, `rows` the table, `current` and `version`
what the record layer would say.  `rebuild` is the running one: directories to be
listed, paths listed and not read, the values its caller gave it.  `ReadSidecar` loads and
commits one row, or ends the rebuild at a file `load_receipt` refuses; the caller
sees the exception, the table stays as it is.  `settled` and `whole` are history: the
premises of the properties.  `Render`, `Spoil`, `Index` are the outside: nothing in the
program writes receipts yet or calls `rebuild`, `recompute_variable_stale` or
`index_receipt` (the tests do).  One rebuild runs at a time; an outside caller loads a receipt
and indexes it in one step.  An edit is one step that succeeds: the marker of an edit whose save fails
is `RecordStore`'s subject, and here looks like a damaged cache (`CorruptMarker`).

**Client.**  A record on the server is the number of its saves, so a bundle is, per
surface, the save it was read at.  `ui` is the mounted component with the hook's
state; `tasks` are the calls of `run`, `refresh` and `create` that have not
ended.  `Show` is `setView`: another kind of screen is a new component (calls of
the old one become orphans: they go on, but their state setters do nothing), the
same kind keeps its component, its tickets and its busy flag, because `App.tsx`
gives no `key`.  A call keeps the closure it started with: the character it
writes (`target`), the one it will refetch (`char`), whether it goes to the
workbench at the end (`last`).  `StrictMode` is the doubled mount effect of
development mode, the only mode the launcher starts.  `Tear` is a 2xx body that
breaks off: `response.json()` throws outside the `try` of `request`, `toFailure`
throws it on, and what waited is never told.  `acked` and `heard` are history.
Left out: the roster's own list (a card is of an existing record, since nothing
deletes), the session's cursor, stamps, toasts and the fault screen after a 401.

## 3. Runs

| Run | World | Question |
|---|---|---|
| `record_calls` | one catalog, six groups (required, tag-conditional, rating-gated capped multi-pick, persona group conditional on another, session, free text), ages around both limits, a text unlocked at `mature` and one a contextual list blocks, 2 versions | does any sequence of calls break the record's shape, strand it, block a required group, keep an unlawful text, make it unloadable or commit something not whole; does the identity layer refine `IdentityHistory` |
| `record_paragraph` | one pick group, and a text over the cap | finding 1 |
| `view_offers` | three releases that retire, drop and re-rate options and groups; groups of both layers, one conditional on the other layer; restarts | does the view agree with the gate in every reachable record; ratings, retired options and orphans across releases |
| `store_calls` | two workers, one character, one receipt | refinement of atomic calls; the persona marker; the lock is held by the one worker in its section, and comes back (liveness) |
| `store_claim` | two receipts (of persona values; of both layers) | finding 3 |
| `client_screens` | two characters, two of the four surfaces, four clicks, two saves each, another client, refused, lost and broken answers | can a screen go back in time, miss its own edit, wait for a call nobody answers, or wait for ever |
| `client_other_record` | as `client_screens` | finding 4 |
| `client_late_ack` | as `client_screens` | finding 5 |
| `loader_trees` | twenty files that define, extend and break four groups, one or two fragments each, two of them unreadable or unrated; three in a tree; the three callers, any directories | is the merge what the good files declare; is what a caller accepts lawful; do later files only extend |
| `spine_lives` | two runs, two launchers, each with python or uv | one spine, its file, its log lines; a launcher that ends in order and its own spine; does every start and every wait end |
| `spine_unlisted` | two runs, one launcher | finding 2 |
| `ledger_index` | two characters, two sidecars in two directories (a portrait; a LoRA, active or not), two finalizations of one character and one of the other | markers, rebuilds and grades across renders, edits, damaged files and caches, broken rebuilds |

**Bounds and why they are enough.**  `MaxVersions` (2) bounds the commits:
the code looks only at the newest version and the draft, so a second version, with a
draft on top, exercises everything a tenth would.  Picks: one or two options for each thing a
rule distinguishes (rated, retired, tagged, plain).  Two workers: the lock
admits one, and every hazard is between a holder and one other.  One character
in the store runs: state of different characters is disjoint (a lock, a file and
receipts each), and the proof covers any number.  The record runs share the three
worlds out (few texts where picks are explored, no texts across releases), since
texts and picks meet nowhere but in the fields a commit copies.
In the client's runs two surfaces are enough for a bundle whose parts are read at
different saves, and four clicks for an open, an edit and two changes of screen
around it, or a creation, an open, an edit and one more; the safety properties
are proved without bounds.

Three files in a tree are a definition, an extension and a third that fails, or an
option declared three times; two fragments are enough for a file to fail half-way.
Two runs are a holder and one other, and there is a third role only for launchers;
two launchers are one that deletes the file the other waits for.  Two sidecars in
two directories are a row before and a row after anything that happens during a
rebuild.  All safety properties of these three models are proved without bounds.

**Deadlock** is checked except in `loader_trees`, `spine_lives` and `spine_unlisted`: a
load ends when it is judged, and a life of spines ends when every start is used up
and every process is gone.

**Fairness.**  Three runs use it.  `store_calls`: `WF_vars(Advance(w))`, a thread inside
its critical section keeps taking steps.  Those steps are file operations and
SQLite calls with a five-second busy timeout; nothing inside the `with` waits for
another thread's lock.  No fairness is assumed for arrivals, for failures or for
the granting of a lock (`threading.Lock` promises no order), so the project does
not claim that every call is eventually served: only that a lock is released.
`client_screens`: weak fairness of `Progress`, that is, a request is answered or
refused and an answer reaches its callback, which is what `fetch` and the event
loop promise.  Clicks, other clients, lost and broken answers have none.
`spine_lives`: `WF_vars(Advance(r))`, a process that is not killed gets on with starting
and, once it has been told to stop, with stopping; `WF_vars(Poll(l))`, a launcher's wait
has a deadline (`READY_DEADLINE`) and `terminate` a timeout, after which it kills.  Nobody has to
start, stop or kill anything.  `Drain` has no fairness: a spine serves as long as nobody
signals it.

## 4. Proofs

Every invariant and every action property that a passing run checks is a theorem
here, and so are the two refinements; only liveness is left to TLC.  Some theorems
state more than a run does, where TLC would need one more run for each.

**`CharacterRecordProofs`.**  The inductive invariant is `Structure`: the type
invariant, the live pointer equal to the number of versions or a draft open, and a
mark on the name exactly when there is a name.  Two further invariants are proved on
top of it, because the properties need them: *no session value in any layer*
(`NoSessionHeld`; a saved record would otherwise not load under the next release,
`RecordReloads`) and *the two layers hold only groups of their own home*
(`LayersApart`; the setter's and finalization's visibility agree, `RequiredSettable`,
only because a persona key can never sit in the identity layer).  On these rest:
types, `NeverStranded`, `RecordReloads`, `StoredTextsPass` and `RatingCovered`
(both because the rating only rises and filter and gate are monotone in it),
`ClearNamePasses`, `RetiredNeverNew`, `OrphansInert`, `CommitIsWhole`,
`RequiredSettable`, and the refinement `ImplementsHistory`.  Two theorems speak of whole
behaviours rather than steps: once version `i` is committed as `v` it is so for good
(`CommittedForGood`), and what a record's rating admits it admits for good
(`RatedForGood`), across edits, commits and reloads under other catalogs.

**`RecordCallsProofs`.**  `RecordServesCalls` binds the record to the store.  Seen through
the selections of its live version, draft and persona block (`Seen`), a record is created as
`Fresh`, is always one of the `StoredRecords`, and each of its steps changes nothing that is
seen or is an edit `RecordCalls` accepts, with the result `Applied` gives
(`EditsAreCalls`).  `Complete` is there the set of pairs that `CheckFullState` passes for some
catalog, age and rating: an empty draft is among them where no group is required.
`RecordCalls` cannot say which catalog or rating a call meets, so it accepts at least what the
record accepts; the store's theorems hold for any such choice.  That the instance satisfies
`CallsAssumption` is proved too (`CutLawful`).

**`CreatorViewProofs`.**  `OffersAccepted`, `NothingWithheld`, `BlockersServed`,
from the lemma that the view's basis equals the record's (`BasisAgrees`) and the
record's invariant.

**`RecordStoreProofs`.**  For any number of workers, characters, receipts and values:

- `StoreTypeCorrect`, and `StoreIsAtomic`: the store implements `AtomicStore`.  The
  invariant `StoreInv` adds to the types that every worker is `Sound`: in its section it
  holds the lock, and it remembers the truth (`Remembers`: the record in its memory is
  still what the file says, with its edit applied once accepted).  Without that,
  `Replace` could not be shown to take effect on the current record; it is precisely
  the lost update.
- `LocksAreWorked`.  `Sound` is one half of it (who is in the section holds the lock);
  the other (a lock is held by nobody else) is `Held`, inductive by the lemma that a
  step gives a lock to the worker that takes it or to no one (`HeldByOne`).  It is the
  safety half of `LockReleased`: whoever holds a lock is at one of the steps of the
  section, and each of them leads on to the one that gives it back.
- `EveryChangeIsMutation`: a file changes only by the creation of a record that was not
  there or by one whole mutation accepted on the record it replaces.  It needs `Newborn`:
  a character under creation has no file and one creator, because ids are new (`Unused`).
  From it follow `FilesAlwaysStored` (the files a killed process leaves are the ones
  `Init` starts from, so the model's restarts are the code's) and `SavedRecordsStay`
  (no record is ever lost, nor does one that has a live version come to have none).
- `MarkersAlwaysTrue`.  `MarkersTrue` says nothing of the moments in which an edit is
  being saved, so it is not inductive; `MarkInv` says what holds then: the marker is the mismatch with the
  edited record in memory, and otherwise with the file, unless the receipt is torn.

**`ClientProofs`.**  `ClientTypes`, `NeverShowsOlder`, `ReadsItsWrites` and
`NeverAwaitedInVain`.  The
invariant (`ScreenInv`) says that the refresh holding the newest ticket is the
only one of its ticket and has fetched nothing older than what is shown or was
acknowledged (`Tickets`, `Monotone`), that a busy screen waits for one call
(`OneAtATime`), and that what is shown includes the last acknowledged edit unless
that call is still fetching or broke off (`Told`).  It is stated about a screen
and a set of calls rather than about the variables, so that an action that ends a
call and then changes the screen is taken in two steps (`FreedKeeps`,
`ShowKeeps`).  `NeverAwaitedInVain` is the safety half of `BusyResolves` and
`LoadingResolves`: a busy screen has a live call that will free it, a loading one the
refresh that holds its newest ticket, unless an answer broke off.  Its invariant
(`Awaited`) is stated of a screen and a set of calls too: each lemma says that ending,
replacing or adding calls leaves someone to wait for.

**`OptionLoaderProofs`.**  `LoaderTypes`, `AcceptedAlwaysLawful`, `ShapeAlwaysLocked`,
`NothingEverVanishes` and `MergeFollowsDeclarations`, for every set of files and every length of tree.  The invariant
(`LoaderInv`): merge and copy consist of legal groups of the declared form, the copy
keeps what the merge has (`Keeps`: nothing is lost between the start of a file and its
commit, which is one step of `groups`), and every file read was applied or skipped.
That the state of *each* group is checked again after every extension is what makes
the first part inductive.  `MergeFollowsDeclarations` says that merging fragment by
fragment gives what a definition without a merge says of the whole list: each key is
what the last file that has it says, each option what the last file that declares it
says.  Its invariant (`DeclaredInv`) says so of the fragments read so far, of the copy
as well as of the merge; one more fragment at the end changes the last word on just the
keys and options it has (`SaidNext`, `OptionsNext`, `DeclaredNext`), so no induction over the
list is needed: the behaviour is the induction.

**`SpineLifecycleProofs`.**  `AlwaysOneSpine`, `DiscoveryAlwaysTrue`, `AuditAlwaysSerial`, `NeverOrphans`,
for any number of starts and launchers.  `NeverOrphans` is about a launcher that started the
spine itself and whose `finally` clause ran to its end; the steps that lead elsewhere are in the model
and excepted in the statement.  `LifeInv` adds that the temporary file is
that of the run about to publish it (it survives crashes, and the next run
overwrites it before it publishes), that a launcher's child is a run that was started,
and that a log line of a run that has not ended its lifespan is its start line and the last.

**`LedgerProofs`.**  `LedgerTypes`, `SettledStayTrue`, `RebuildDerives`, `GradeFromReceipts`, and
`TableIsDerived`, which puts the second and the third together: after a rebuild that went through, with
every character's markers settled, the table is a function of the receipt files and the
current values (`DerivedRow`), so it may be thrown away at any time.
`RebuildTrue` says what an undisturbed rebuild has done so far: a path agrees with its
file, or has no row and is still to be listed or read.  For `SettledMarkersTrue` the step that matters is
`EditPersona`: a row whose receipt does not mention the group keeps its mismatch.

**Assumptions.**  `LoaderAssumption`, `LifecycleAssumption` and `LedgerAssumption` (types of the constants),  `ClientAssumption` (types), `CatalogAssumption` (the loader's laws; the spine refuses to
start without them), `StableShape` (a group keeps its kind and home across
releases: the code enforces it within one load, across releases it is a rule for
data authors), `FilterAssumption`, `RecordAssumption`, `CallsAssumption`,
`StoreAssumption` (types of the constants), `ClosedAssumption` and
`BarAssumption` (model values are not records).  TLC evaluates each on every run.

**Only model-checked.**  `LockReleased`, `BusyResolves`, `LoadingResolves`, `StartEnds`, `WaitEnds`:
liveness under fairness is out of the prover's reach.  Of the first three the safety half is
proved (`LocksAreWorked`, `NeverAwaitedInVain`): whoever is waited for exists and is at
work; what stays with TLC is that work under fairness ends.

## 5. Findings

1. `record_paragraph`.  A comment (`app/record/model.py:119-121`) says user text
   "must not survive an identity change it might misdescribe".  Within one draft
   it does: write a paragraph, change a pick, finalize; the stale paragraph is
   committed as the user's.  `open_draft` does drop it, which `ImplementsHistory`
   checks.
2. `spine_unlisted`.  `O5_INPUTS.md:62-64` says the runtime file is there "so a shell or
   front-end can find the spine".  The launcher deletes it before it starts a spine
   (`dev.py:90-91`), whoever wrote it; if a spine is serving, the launcher's own is
   refused and the serving one cannot be found until it is restarted.  `DiscoveryTrue` states what
   does hold: nobody but a launcher takes the file away.
3. `store_claim`.  The ledger's notes say that edits mark exactly what they
   touch and that the cached marker agrees with its receipt.  An edit whose save
   fails leaves a marker of something that never happened; a finalization moves
   live identity values and marks nothing; no route recomputes.  `MarkersTrue`
   states what does hold.
4. `client_other_record`.  `recordData.ts:1` says opening a record loads its
   surfaces.  A creation that is answered late turns the session the user has
   opened meanwhile into the new character's; the component stays, and an edit in
   flight refetches the *old* character under the newest ticket.  The screen of one
   character then shows the other, and the next pick, chosen from what is shown, is
   written to the one that is not.
5. `client_late_ack`.  `recordData.ts:2-4` and `O6_INPUTS.md:116` say that every
   successful mutation is followed by a refetch of the served state.  "Skip to the
   workbench" and the header buttons work while an edit is in flight; when the new
   screen loads before the edit is saved, the refetch goes into the screen that is
   gone, and the open one keeps showing the record without the edit.

Limits met while modelling that no run states:

- Toggling off the last chip of a multi-pick group sends an empty list
  (`WidgetHost.tsx:104`), which the gate refuses; the group's Clear button works.
  `OffersAccepted` excludes the empty list.
- A launcher can become ready on a spine another launcher started, since it asks the
  spine the discovery file names and not its child (`dev.py:44-67`).
- "The spine terminates when the launcher exits, both platforms" (`dev.py:6-7`) holds of a
  launcher that started the spine with the repository's own python and whose `finally`
  clause runs to its end (`NoOrphan`).  It does not hold of a launcher that is killed; that fell
  back to `uv run` (`dev.py:38-41`), where `wait` and `kill` reach uv, as the comment at
  `dev.py:31-32` has it; that is interrupted between lines 93 and 95, before its `try`; or that is
  interrupted a second time inside `finally` (lines 110-112).
- A rebuild given a character's values before an edit marks the rows it reads after the edit with
  the old ones (`index.py:127`); they stay so until a recompute.  `SettledMarkersTrue` counts the
  character as unsettled from then on.
- A finalization leaves the markers of receipts of identity values as they are
  until something recomputes them; `SettledMarkersTrue` says which events unsettle.
- A *required persona*
  group whose condition looks at the *identity* layer is judged by the setter on
  the live version and by finalization on the draft (`model.py:204-210` against
  `gate.py:190-233`).  With both open, finalization can demand a value the setter
  refuses.  `RequiredSettable` and `BlockersServed` exclude exactly these groups
  (`SelfContained`).  The bundled catalog has no required group.

## 6. Not modelled, and why

- *Text normalisation and term scanning* (`normalize.py`, the pattern building of
  `filter.py`): string processing; a text is its hits.
- *Drafter and orphan report*: pure functions of a record, no state.
- *Token check and payload schemas*: stateless; `Healthy` uses that only the run that
  minted a token answers to it.
- *The audit log's other lines* (verdicts of the filter) and its daily files: append-only
  output.
- *The roster listing*: keeps no state; a record file damaged from outside makes it
  refuse as a whole, and no model damages record files.
- *The staleness and grade routes read record and ledger at two instants*
  (`routes_ledger.py:35-42`).  While nothing in the program indexes receipts the answer is
  empty either way; to be modelled with the renderer.
- *SQLite's busy errors* outside the store's mutation (there they are `Fail`).
- *Toggles computed from a stale bundle*: `Client` counts saves and has no pick lists.
- *The roster's list, the session's cursor, stamps, toasts, the fault screen after a
  401, rendering, fuzzy search*: presentation.
- *The harvest tool*: a frozen importer outside the running program.

## 7. What would add most next

1. `Client` with contents: the pick lists of `CreatorView` in the bundle in place of the
   number of saves, composed with `RecordCalls` as the server.  Property: a toggle
   undoes no pick its user was not shown.
2. The two-instant reads of the ledger routes, once a renderer indexes receipts.
3. The term scanner on a small alphabet, against a reference definition of a match.
