# TLA+ models of celery_cnc / celery_root

This directory holds TLA+ models of the stateful parts of the code under
`src/`. Each model is checked with TLC, and `PROJECT.json` lists:

- the components;
- the runs and what each one shows;
- the mutants that show each property can fail;
- the source lines each definition translates;
- the findings;
- the hazards that the properties guard.

## The system and its parts

The repository is a control plane for a Celery cluster. It ingests events, serves a dashboard, runs schedules and supervises sibling processes. Much of that core is specified in `spec.md` but is not under `src/`: the event store, the RPC transport, the schedule store and the process supervisor. The code that is under `src/` is:

| Part | Source | State and operations | Interacts with |
|---|---|---|---|
| Subprocess log funnel | `celery_root/core/logging/queue.py` | The parent's logger tree. `create_log_runtime` picks a base logger and snapshots its handlers and level into a `QueueListener`. `configure_subprocess_logging` rewires a child's root logger to a `QueueHandler`. `start`/`stop` control the listener thread. | Every child process. The supervisor starts and stops children and the listener. |
| File log controller | `celery_cnc/core/logging/adapters/file.py` (and its older copy `celery_cnc/logging/file_handler.py`) | `_configured`, `_config`, `_log_level`, and a per-name handler cache. Operations are `configure`, `get_logger` and `shutdown`. | The process-wide `logging` registry. |
| Process logging setup | `celery_cnc/logging/setup.py` | The root logger's level and its file handlers, found again by `_find_handler`. | The same registry, called from `web/devserver.py`. |
| Log viewer | `celery_root/components/web/views/logs.py` | Reads the tail of a log file backwards in chunks, filters by severity and selects a file. | Files written by the two parts above. |
| Settings | `celery_root/config.py` | Cached settings with `get`/`set`/`reset`, plus field validators. | Every component reads them. |
| Entry point | `celery_cnc/__init__.py` | Retention checks, database path preparation, and the store factory handed to each process. | The supervisor (spec) and the store. |
| Component links | `celery_root/components/web/components.py` | `component_snapshot` and the URL helpers build the links the web UI shows for Prometheus, the web frontend and MCP from the settings. | The settings and their path validators. |
| Dev server | `celery_cnc/web/devserver.py` | `serve()` runs a shutdown-event watcher thread beside `serve_forever`. | The supervisor's stop event. |
| Metrics exporters | `celery_cnc/monitoring/prometheus.py`, `celery_cnc/components/metrics/opentelemetry/exporter.py` | Prometheus counters and gauges with an HTTP server; OpenTelemetry spans in an in-memory exporter under a process-global tracer provider. | The store pushes events and statistics to them (spec 4.5). |

Django settings and views, optional-dependency checks and the control/inspect wrappers are thin I/O wrappers with no state a property could tell apart. They are listed in `PROJECT.json` as not modelled.

## Modules

### `LogFunnel.tla`: the subprocess log funnel (`queue.py`)

**Parent logger tree.** The state is `tree`, a function from a small set of loggers to `[handlers, level, propagate]`. The loggers are root, `celery_root`, `celery_root.x` and an application logger `myapp`. Initial trees are enumerated by `InitTrees` in the MC module (288 trees).

**Setup operators.** These are pure operators:

- `EffectiveLevel` is `getEffectiveLevel`.
- `Chain` is the propagation chain.
- `CollectHandlers` is `_collect_handlers`. It is a fold over the chain that skips `QueueHandler`s and handlers already seen.
- `EnsureBaseLogger` is `_ensure_base_logger`, with its three cases: no logger, a `celery_root*` logger, and any other logger.

**Runtime creation.** `CreateLogRuntime(arg)` is the whole of `create_log_runtime`. It covers the fallback `StreamHandler` (`NewStream`), the listener's handler snapshot `handlers` and the level snapshot `childLevel`.

**Children.** `ChildTree` is the child's tree after `configure_subprocess_logging`. Under `fork` it starts from the parent's tree; under `spawn` it starts from a fresh one. `Emit(c, l, lv)` is one logging call in a child:

- the effective-level check;
- `callHandlers` up the chain, including `lastResort`;
- a record given to the `QueueHandler` goes into that child's feeder `buffer`;
- any other handler writes `direct`ly.

**Queue and listener.** `Flush(c)` is the feeder thread moving a record to the shared `queue`; it keeps each child's FIFO order. `Dispatch` is the listener's loop: it delivers to each snapshotted handler whose level the record passes (`respect_handler_level=True`) and stops at the sentinel. `StopListener` is `LogQueueRuntime.stop`, which enqueues the sentinel. `SupStopListener` is the supervisor calling it once every child has exited or been killed. That order is the supervisor's (spec 4.4, `spec_modelled`), not `queue.py`'s, so no property of the project rests on it.

**Supervisor steps (from spec 4.4).** Starting a child, its exit, the stop request, killing a child after its grace period, and termination are modelled from spec 4.4. They are marked `spec_modelled`.

### `LogChannel.tla`: what the funnel promises (spec 4.4)

`LogChannel` is the abstract specification: per child, `sent[c]` is the sequence of records the child has handed over and `recv[c]` the prefix the single consumer has taken. `Send` appends a record newer than the child's last one, `Receive` takes the child's oldest untaken record (weakly fair), and `Drop` loses the newest untaken records of a terminated child. Its actions are `spec_modelled`.

`LogFunnel` implements it through a refinement mapping (`Channel == INSTANCE LogChannel WITH ...`): `recv[c]` is the child's dispatched records in logging order (`Received`), and `sent[c]` is that followed by the child's records still in the shared queue and then in its feeder buffer (`InFlight`). A record written directly to a handler is not part of the channel. The property `FunnelIsFifoChannel` is `Channel!Spec`, so the check covers per-child order, no duplicates, losses only at the tail, and eventual delivery at once.

### `FileLogging.tla`: file handlers in one process (`file.py`, `setup.py`)

**Registry and files.** `loggers` is the registry: the root and each name, each with a level and a handler *list*. Files are `(directory, name)` pairs; `files` holds the record ids written to each.

**FileLogController.** `configure` only stores the directory and level. `get_logger` sets the logger's level, then `_attach_handlers` does its three steps: look up the cached handler, create one if there is none, and add it unless it is already attached (`AttachHandler`). `shutdown` closes the cached handlers. They stay attached, and `FileHandler.emit` reopens them.

**configure_process_logging.** This sets the root level, then finds or creates the root handler for the component file and sets its level. `FindHandler` models `_find_handler`'s comparison of `Path.resolve()` with `baseFilename` (which is `abspath`). The two differ exactly when the directory is reached through a symbolic link (`LinkedDirs`).

**Logging calls and history.** `Log(n, lv)` is a stdlib logging call: the effective-level check, then the logger's handlers followed by the root's. `logged` is a history variable. For each record it stores the file the configuration in force owes it to.

### `LogTail.tla`: the log viewer (`logs.py`)

A file is a sequence of lines. Each line has a severity tag (the marker `_detect_severity` finds, or `NoLevel` for traceback and continuation lines) and a byte length. Offsets are computed from those lengths:

- `Size` is the file size.
- `NewlinesFrom` is `data.count(b"\n")`.
- `ReadLoop` is `_read_tail`'s backward chunked loop, a RECURSIVE operator returning the offset where the data starts.
- `Pieces` is `splitlines()` of that data. When the data starts inside a line, the first piece is a fragment; it is an empty piece when the data starts at that line's newline.
- `FilterBySeverity` is a fold with `last_level` as the accumulator.

A fragment loses its level marker, which the log format puts at the start of the line. `Write` appends a whole line, as the logging handler does. `Logs(req, sev)` is the view's content path: clamp the line count, normalise the severity, read the tail, filter. It records the file it read, so the properties can compare the result with reference definitions: the last lines of that file, and the record each line belongs to.

**File selection.** `dir` is the log directory, fixed for a behaviour. It is a set of files, each a name and an mtime, and mtimes are distinct. A name is a record: the component stem (`DefaultStem` for the prefix-only `<prefix>.log`) and whether it is a rotated backup.

- `ComponentFromFilename` is `_component_from_filename`. It gives `"default"` for `<prefix>.log` and `None` for its rotated backups, since those do not start with `<prefix>-`. So those backups are never listed.
- `GroupLogFiles` is `_list_log_files` followed by `_group_log_files`: each component's files, newest first.
- `Select` is the view's choice of component and file.

`Logs(req, sev, file, component)` selects and then reads. Only the content of the file the handler writes (`Active`) is modelled; any other selected file reads as empty. `LOG_FILE_PREFIX`, which `logs.py` imports from `celery_root/core/logging/utils.py`, is not defined in that module in this repository, so the name prefix is abstract here.

### `DevServer.tla`: the dev server's shutdown (`devserver.py`)

The state is the main thread's position in `serve()` (`mpc`) and the watcher thread's position (`wpc`). It also holds the two pieces of `socketserver.BaseServer` state they share:

- `request` is `__shutdown_request`. `shutdown()` sets it and the loop resets it.
- `isShutDown` is the `__is_shut_down` event. `serve_forever` clears it on entry and sets it in its finally. `shutdown()` waits for it.

**Main thread.** The actions follow `serve()` in order:

- `StartServer` builds the server, starts the watcher when there is a shutdown event, and enters the try.
- `EnterServeForever` is `serve_forever`'s entry.
- `ServeLoopExit` is the loop seeing the request.
- `MainShutdown` and `MainShutdownReturns` are the finally's `shutdown()` and its wait.
- `ServerClose` is `server_close()`.

**Interrupts.** `Interrupt` is a `KeyboardInterrupt` at any of those positions, with the handling Python gives it there.

**Watcher.** `WatcherShutdown` and `WatcherDone` are `_wait_for_shutdown`.

**Supervisor (spec 4.4).** `SupStop` sets the event, `SupJoined` is the join, and `SupKill` is the terminate after the grace period. These are `spec_modelled`. `withEvent` tells the supervised call, which has an event, from `main()`'s, which has none.

### `ComponentUrls.tla`: the component links (`components.py`, `config.py`)

Strings are sequences of characters over a small alphabet: `"a"` stands for a letter or a non-zero digit, `"m"` for the letters of the default paths, and a port is one token. These are pure operators:

- `PromNormalizePath` and `McpNormalizePath` are the two `_normalize_path` validators. `Strip` and `RStripSlash` are `str.strip()` and `str.rstrip("/")`.
- `BracketHost` is the host step that every helper repeats: a wildcard becomes `127.0.0.1`, and a host with a colon that is not yet bracketed is bracketed.
- `MetricsUrl`, `FrontendUrl`, `McpUrl` and `ComponentSnapshot` are `_metrics_url`, `_frontend_url`, `_mcp_url` and `component_snapshot`. The display-only `config` dicts are left out.
- `Frontends`, `Proms`, `Mcps` and `Configs` are the settings pydantic can build: the raw paths pass through the validators.

`ParseUrl` is the reference. It models how `urllib.parse` splits `http://` + authority + path. The authority runs to the first `/`. A bracketed host runs to `]`; otherwise the host runs to the first `:`.

`MC_DevServer` composes this with `DevServer`: the process's `settings` are chosen in `Init` from `Configs` and do not change while it serves. `LinksReachServers` is checked in every state of the server.

### `Metrics.tla`: the two metrics exporters (`prometheus.py`, `opentelemetry/exporter.py`)

**Prometheus.** `prom` is the `PrometheusExporter`:

- the task counter, a bag of task states;
- the runtime histogram, as its observation count;
- the worker gauge, over online, offline and other;
- the runtime gauges;
- `_started_server`.

`binds` lists the ports `start_http_server` has bound. The actions are the constructor and the four push and serve methods.

**OpenTelemetry.** `provider` is the global tracer provider. `tracerOf[i]` is the provider an `OTelExporter`'s tracer came from, and `spans[i]` is its in-memory span exporter. `NewOTel` follows the OpenTelemetry API: `set_tracer_provider` takes effect only the first time in a process. `OTelSpan(i)` is any of the three push methods, each of which records one span. `given` is a history of what was pushed to each exporter.

### `CnCEntry.tla`: the entry point and the settings (`celery_cnc/__init__.py`, `config.py`)

**Settings.** A configuration is a mutable object in a heap `objs`. `cache` and `runtime` are `_SettingsState`. `GetSettings`, `SetSettings` and `ResetSettings` translate `get_settings`, `set_settings` and `reset_settings`. The repository's copy of the config module is `celery_root/config.py`; `celery_cnc/config.py`, which `__init__.py` imports, is not in the repository, so the defaults of its configuration class are `spec_modelled`.

**Constructor.** `Construct` is the whole constructor:

- the lookup, then the retention check;
- the two `model_copy` overrides, then `set_settings`;
- `_ensure_sqlite_db_path` (`EnsuredDbPath`);
- `_purge_existing_db` (`PurgePath`, `PurgeRaises`, `Purged`).

A call that raises leaves what it did before the raise.

**Run.** `Run(i)` is `run()` and its factory (`StoreOf`). It reads the configuration object at that moment.

**Disk and paths.** The disk maps each resolved path to absent, a file with data, or a directory. Paths are model values that resolve against one working directory.

## Runs

| Run | Expect | Shows |
|---|---|---|
| `logfunnel_spawn` | pass | `FunnelIsFifoChannel`: the funnel implements `LogChannel`. Each child's records reach the listener in the child's order, none twice, only a killed child's newest ones lost, and every other one eventually dispatched. `ExactlyOnce`: no sink receives a record twice. `DeliveryMatchesBase`: a dispatched record reaches exactly the base logger's handlers that its level passes. |
| `logfunnel_fork` | violation | `ExactlyOnce` fails under `fork`. A handler that `_ensure_base_logger` copied from an application logger is still on that logger in the child, so the record is written once directly and once through the listener. The spec says all child logs go through the one queue. |
| `logtail` | pass | `TailIsLastLines`: the pieces are the file's last lines, with a fragment first only when the read stopped at `_MAX_BYTES`, and as many lines as requested otherwise; the read never goes more than a chunk past `_MAX_BYTES` (a loop that dropped the byte cap reads a 12-byte file whole). `FilterKeepsRecords`: with a severity chosen, the result holds exactly the lines whose record in the file has that severity, from the first visible marker on. `SelectionFollowsRequest`: the file shown belongs to the component shown; it is the named file when that file is one of the component's, and otherwise the newest. A request with no hint is shown a file whenever some component has one. |
| `filelogging` | pass | `NoDuplicateWrites`: no file ever holds a record twice. `SetupFollowsLatest`: the component file receives exactly the records that pass the latest `configure_process_logging` level, whatever earlier calls set. |
| `filelogging_linked` | violation | With a linked log directory, a second `configure_process_logging` call adds a second handler on the same file, so every record is written twice. |
| `devserver` | pass | `LinksReachServers`: for every host and path setting, each link on the components page parses to a host a client can reach for the configured bind, the configured port, and the configured path; the MCP path is the configured one with its trailing slashes replaced by exactly one. The server runs under the supervisor or from `main()` with up to two Ctrl-Cs anywhere in `serve()`, which fires every action of `DevServer`. |
| `devserver_startup` | violation | `ServerEnds` fails from `main()`. One Ctrl-C after `serve()` entered its try, but before `serve_forever` entered its own, leaves the finally's `shutdown()` waiting forever for `__is_shut_down`. |
| `metrics` | pass | `PromServesOnce`: a Prometheus exporter starts one HTTP server whatever the order of construction and `serve()`. `TypeOK` includes the worker gauge's online/offline/other series. The one OpenTelemetry exporter of this run is stepped through construction, spans and `shutdown()`; with a single exporter nothing about its spans can go wrong that `shutdown()`'s `clear()` does not decide, so its span store is checked only in the violation run below. |
| `metrics_two_otel` | violation | `SpansAreOwnEvents` fails with two `OTelExporter`s in one process. Only the first `set_tracer_provider` takes effect, so the second exporter's spans land in the first exporter's store. |
| `cncentry` | pass | `RunUsesPreparedStore`: `run()` opens the SQLite file that construction resolved and purged. It holds for one `CeleryCnC` call with any controller argument, override and disk state. |
| `cncentry_two` | violation | `RunUsesPreparedStore` fails with two `CeleryCnC` objects in one process. The second one assigns `db_path` on the configuration object that `get_settings()` shares with the first, so the first one's `run()` opens the second one's database. |
| `filelogging_reconfigure` | violation | After a second `configure()`, `get_logger` attaches the handler cached under the first configuration. The record is written to the old directory, or dropped between the old and new level. |

Every property of a passing run has a mutant in `PROJECT.json`: a plausible bug in a mapped definition, such as a dropped dedup, a dropped `QueueHandler` skip, a missing level update, a `_find_handler` that never matches, or a read loop that stops one newline early. TLC finds each of these properties violated when its mutant is in place.

## Bounds

- **LogFunnel.** Two children, three handlers (`hA` at level 0, `hB` at WARNING, and a `QueueHandler` `hQ`), record levels {10, 30}, one record per child. The initial trees cover every placement of these handlers on the four loggers, both levels and both propagate flags. They cover every branch of `_ensure_base_logger` and `_collect_handlers`, including a handler met twice on the chain and a `QueueHandler` on `celery_root`. The passing run allows two records per child and two in all (`MaxTotal`). Two records of one child are needed for the per-child order of `FunnelIsFifoChannel` to mean anything; the total cap keeps the run under three minutes.
- **FileLogging.** One logger name, one component, two directories, two levels, three handler objects and two records. Two directories and two levels are the least that make a reconfiguration change something. Three handlers allow the controller's handler plus a second setup handler on the same file.

- **LogTail.** `_CHUNK_SIZE` 2, `_MAX_BYTES` 8 (a multiple of the chunk, as 1 MiB is of 8 KiB), `_MAX_LINES` 3, `_DEFAULT_LINES` 2. Files have up to three lines of 1 or 3 bytes, so a chunk can end inside a line, on a newline or at a line start, and a file can be larger than the byte cap. Requests are an unparsable value, 0, and one above the maximum, each with and without a severity filter. The directory is either empty, or holds web's file and its rotated backup, a beat file, and a rotated `<prefix>.log` backup. Requests name no file, the web backup or the prefix-only backup, and no component or `web`. Together these reach every branch of the selection: the first component, the named file, the newest file, and the "not found" error.

- **DevServer.** Up to two interrupts, at six positions, with and without the supervisor. Two are enough for an interrupt to hit the finally that a first interrupt started. The violation run uses one interrupt and no supervisor: the hang needs only that.

- **ComponentUrls.** Hosts: a name, `0.0.0.0`, `::`, `::1` and `[::1]`. `[::]` is left out because no server binds it. Raw paths: empty, blank, `/`, `a`, `a/` and ` a`. These reach every branch of both validators and of `_mcp_url`'s path step: the default, a missing leading slash, surrounding blanks and trailing slashes. Each section may be unset, so every `None` branch of the snapshot is reached. The metrics link also covers the case with no frontend.

- **Metrics.** Three pushes; two task states, one runtime, the three worker event kinds, and two runtime gauges. One exporter of each kind in the passing run and two `OTelExporter`s in the violation run. Three pushes are enough for a span before and after a `shutdown()`.
- **CnCEntry.** One relative and one absolute path besides the default, one working directory, and every disk state of the three resolved files. Every controller kind, including a `SQLiteController` with a relative path, an absolute path, or no `_path`. Retentions 0 and 3. The passing run has one call, which is enough for every branch of the constructor and the factory. The violation run needs two calls.

## Fairness

`LogFunnel` assumes weak fairness of:

- the supervisor's steps;
- each child's feeder flush, which is a daemon thread that runs whenever the buffer is non-empty;
- the listener's dispatch, which is a thread blocked on the queue.

The supervisor's kill after the grace period is also weakly fair: spec 4.4 says a child still alive after its grace period is terminated. No fairness is assumed for a child's own logging calls. `FileLogging` has no liveness properties.

The refinement's abstract `Receive` is weakly fair. The listener's weak fairness and the feeders' weak fairness justify this: a record that is handed over and not lost is flushed and then dispatched.

`DevServer` assumes weak fairness of the main thread, of the watcher thread and of the supervisor's join-or-terminate: each is a thread or process that runs when it can. The user's Ctrl-C and the supervisor's decision to stop get no fairness. The only liveness property checked is `ServerEnds`, in the run from `main()`, where there is no supervisor. Under the supervisor the spec's terminate is enabled for as long as the child lives, so any "the stop completes" property would hold whatever `serve()` does; the project does not check one.

## Not modelled, and why

- **Formatting, rotation, flushing.** They do not change which records reach which file.
- **A torn pipe write by a killed child.** The model lets a killed child's buffered records be lost, but not half-written.
- **Thread safety inside `logging`.** It holds its own locks.
- **What the supervisor's stop order guarantees.** With the spec's order (children gone, then the sentinel), no record is left behind and the stop completes, but both follow from that order and the fairness of the supervisor's steps, not from `queue.py`. A handler that blocks in `emit` would hang `stop()`'s join; handlers are modelled as writing at once.
- **A stale listener snapshot** (`queue.py:54-55`). The logger tree is fixed before `create_log_runtime` and never changes, so the snapshot of handlers and level cannot go stale in any run.
- **The retention check** (`__init__.py:39-41`). A property that every configuration has a positive retention would only restate the `retention_days <= 0` guard; it is not checked.
- **The file controller's `handler not in logger.handlers` test** (`file.py:65`). `Logger.addHandler` refuses a handler the logger already holds, so dropping the test changes nothing; no property is spent on it.
- **The listing racing the handler's rotation** (`logs.py:59`). A rotated-away file makes the sort key's `stat()` raise outside the view's `try`. Modelling it is straightforward, but it can only be shown by a run that expects the violation, and every such run so far shows a finding already made.
- **The Django settings module's import-time copy of the settings** (`celery_cnc/web/settings.py:11`). It goes stale if `set_settings` runs after the import. Whether it does depends on the process supervisor, which is not in the repository. It is listed as a hazard without a property.
- **The rest of `config.py`.** The numeric range checks, `_coerce_database`, `DatabaseConfigSqlite`'s `mkdir` of the parent directory and `_default_rpc_socket_path` check or derive single values and hold no state.
- **`log_level_name`, `require_optional_scope`, the Django settings module and the page views.** These are pure lookups and I/O. No caller of `log_level_name` is in the repository.
- **Where the metrics link points.** `_metrics_url` uses the frontend's host. No Prometheus server of `celery_root` is in the repository; `celery_cnc`'s exporter binds all IPv4 interfaces. Whether the host serves metrics is therefore not checked, only that the link names the configured port and path on a reachable form of that host.
- **`celery_cnc/logging/file_handler.py`** is an older copy of the file controller with the same logic. `FileLogging` maps the `core/logging/adapters/file.py` copy.

## Plan

The modules below are ordered by how much of the system's behaviour depends on them.

1. **LogFunnel** (done, with the refinement to `LogChannel`). Still to add: a run with a handler added after `create_log_runtime` that shows the snapshot.
2. **FileLogging** (done).
3. **LogTail** (`logs.py`, listing, selection and content path done). Still to add: the listing racing the handler's rotation. A file renamed or deleted between the glob and the `stat` in the sort key raises `FileNotFoundError` out of the view. This needs `Logs` split at the glob and a rotation action of the handler.
4. **Settings** (partly: the store in `CnCEntry`, the path validators in `ComponentUrls`, which is done). The numeric range checks are left, because they check single values.
5. **CnCEntry** (done). Still to add: a run that expects `RunUsesPreparedStore` to fail when the working directory changes between construction and the children opening the store. A relative `SQLiteController` path is resolved at construction for the purge, but handed raw to the children (hazard at `__init__.py:66`).
6. **Metrics** (done).
7. **DevServer** (done).
8. Spec-modelled cores, with these abstract specifications:
   - **EventStore**: last-writer-wins upsert under out-of-order arrival, refined against an abstract "latest event per task" spec.
   - **RpcTransport**: length framing, authentication, an in-flight bound and timeouts, refining an abstract request/response spec with `INSTANCE ... WITH`.
   - **ScheduleStore**: upsert, app isolation and run-state write-back.
