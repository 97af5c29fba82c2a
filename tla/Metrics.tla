------------------------------- MODULE Metrics -------------------------------
(***************************************************************************)
(* The two metrics exporters of one process, as the store pushes events to *)
(* them: PrometheusExporter (celery_cnc/monitoring/prometheus.py) and      *)
(* OTelExporter (celery_cnc/components/metrics/opentelemetry/exporter.py). *)
(*                                                                         *)
(* PrometheusExporter owns a registry of a task counter labelled by state, *)
(* a runtime histogram, a worker gauge labelled online/offline/other and   *)
(* five runtime gauges, and starts an HTTP server on a port.  Worker and   *)
(* task names only label series and are left out; a histogram is          *)
(* represented by its observation count.                                   *)
(*                                                                         *)
(* OTelExporter builds a TracerProvider that feeds its own in-memory span  *)
(* exporter and installs it with trace.set_tracer_provider, which the      *)
(* OpenTelemetry API lets succeed only once per process: later calls are   *)
(* ignored with a warning.  trace.get_tracer then hands out a tracer of    *)
(* the provider installed first.                                           *)
(***************************************************************************)
EXTENDS Naturals, Sequences, Bags, BagsExt

CONSTANTS
  TaskStates,    \* states a TaskEvent may carry
  NoRuntime,     \* event.runtime is None
  Runtimes,      \* runtimes a TaskEvent may carry
  WorkerKinds,   \* WorkerEvent.event values: online, offline, heartbeat
  StatFields,    \* the TaskStats fields with a gauge
  NoValue,       \* a TaskStats field that is None
  StatValues,    \* values a TaskStats field may have
  Ports,         \* port arguments of PrometheusExporter besides None
  NoPort,        \* port=None
  DefaultPort,   \* the port serve() falls back to (8001)
  MaxOTel,       \* OTelExporter instances built in the process
  MaxPushes      \* bound on the events and stats pushed

NoExporter == 0
Labels == {"online", "offline", "other"}

VARIABLES
  prom,       \* the PrometheusExporter, or a record with up = FALSE
  binds,      \* ports start_http_server has bound, in order
  provider,   \* the exporter whose TracerProvider is installed, or NoExporter
  tracerOf,   \* the provider each OTelExporter's tracer records to
  spans,      \* each OTelExporter's InMemorySpanExporter contents
  given,      \* history: what was pushed to each OTelExporter since its last
              \* shutdown
  pushes      \* events and stats pushed so far

vars == <<prom, binds, provider, tracerOf, spans, given, pushes>>

NoProm == [up |-> FALSE, started |-> FALSE, tasks |-> EmptyBag, observed |-> 0,
           workers |-> [l \in Labels |-> 0], gauges |-> [f \in StatFields |-> NoValue]]

TaskEvent == [state : TaskStates, runtime : Runtimes \cup {NoRuntime}]
TaskStats == [StatFields -> StatValues \cup {NoValue}]

Init ==
  /\ prom = NoProm
  /\ binds = <<>>
  /\ provider = NoExporter
  /\ tracerOf = <<>>
  /\ spans = <<>>
  /\ given = <<>>
  /\ pushes = 0

-----------------------------------------------------------------------------
(* PrometheusExporter.__init__: fresh metrics in a fresh registry; with a  *)
(* port, start_http_server binds it and _started_server is set.            *)
NewPrometheus(port) ==
  /\ ~prom.up
  /\ prom' = [NoProm EXCEPT !.up = TRUE, !.started = (port # NoPort)]
  /\ binds' = IF port # NoPort THEN Append(binds, port) ELSE binds
  /\ UNCHANGED <<provider, tracerOf, spans, given, pushes>>

(* on_task_event: count the event under its state; observe its runtime    *)
(* when there is one.                                                       *)
PromTaskEvent(e) ==
  /\ prom.up
  /\ pushes < MaxPushes
  /\ prom' = [prom EXCEPT !.tasks = BagAdd(@, e.state),
                          !.observed = IF e.runtime # NoRuntime THEN @ + 1 ELSE @]
  /\ pushes' = pushes + 1
  /\ UNCHANGED <<binds, provider, tracerOf, spans, given>>

(* on_worker_event labelling the gauge by the raw event name. *)
PromWorkerEventRaw(k) ==
  /\ prom.up
  /\ pushes < MaxPushes
  /\ prom' = [prom EXCEPT !.workers = BagAdd(@, k)]
  /\ pushes' = pushes + 1
  /\ UNCHANGED <<binds, provider, tracerOf, spans, given>>
(* on_worker_event: increment the gauge of online, offline or other. *)
PromWorkerEvent(k) ==
  /\ prom.up
  /\ pushes < MaxPushes
  /\ LET l == IF k \in {"online", "offline"} THEN k ELSE "other"
     IN prom' = [prom EXCEPT !.workers[l] = @ + 1]
  /\ pushes' = pushes + 1
  /\ UNCHANGED <<binds, provider, tracerOf, spans, given>>

(* update_stats: set each runtime gauge whose statistic is not None. *)
PromUpdateStats(s) ==
  /\ prom.up
  /\ pushes < MaxPushes
  /\ prom' = [prom EXCEPT !.gauges = [f \in StatFields |->
                                        IF s[f] # NoValue THEN s[f] ELSE @[f]]]
  /\ pushes' = pushes + 1
  /\ UNCHANGED <<binds, provider, tracerOf, spans, given>>

(* serve without the _started_server check. *)
PromServeAlways ==
  /\ prom.up
  /\ binds' = Append(binds, DefaultPort)
  /\ prom' = [prom EXCEPT !.started = TRUE]
  /\ UNCHANGED <<provider, tracerOf, spans, given, pushes>>
(* serve: start the HTTP server on the default port unless one was       *)
(* started.                                                               *)
PromServe ==
  /\ prom.up
  /\ ~prom.started
  /\ binds' = Append(binds, DefaultPort)
  /\ prom' = [prom EXCEPT !.started = TRUE]
  /\ UNCHANGED <<provider, tracerOf, spans, given, pushes>>

-----------------------------------------------------------------------------
(* OTelExporter.__init__: a TracerProvider feeding a new in-memory span    *)
(* exporter is installed, which takes effect only if none was installed    *)
(* before; the exporter's tracer comes from the installed provider.        *)
NewOTel ==
  /\ Len(tracerOf) < MaxOTel
  /\ LET i == Len(tracerOf) + 1
         p == IF provider = NoExporter THEN i ELSE provider
     IN /\ provider' = p
        /\ tracerOf' = Append(tracerOf, p)
  /\ spans' = Append(spans, <<>>)
  /\ given' = Append(given, <<>>)
  /\ UNCHANGED <<prom, binds, pushes>>

(* on_task_event, on_worker_event and update_stats each end one span of   *)
(* the exporter's tracer; the SimpleSpanProcessor of that tracer's         *)
(* provider hands it to its in-memory exporter at once.  A span is         *)
(* identified by the number of the push; its attributes are left out.      *)
OTelSpan(i) ==
  /\ i \in 1..Len(tracerOf)
  /\ pushes < MaxPushes
  /\ pushes' = pushes + 1
  /\ spans' = [spans EXCEPT ![tracerOf[i]] = Append(@, pushes')]
  /\ given' = [given EXCEPT ![i] = Append(@, pushes')]
  /\ UNCHANGED <<prom, binds, provider, tracerOf>>

(* shutdown: clear the exporter's own in-memory span exporter. *)
OTelShutdown(i) ==
  /\ i \in 1..Len(tracerOf)
  /\ spans' = [spans EXCEPT ![i] = <<>>]
  /\ given' = [given EXCEPT ![i] = <<>>]
  /\ UNCHANGED <<prom, binds, provider, tracerOf, pushes>>

Next ==
  \/ \E port \in Ports \cup {NoPort} : NewPrometheus(port)
  \/ \E e \in TaskEvent : PromTaskEvent(e)
  \/ \E k \in WorkerKinds : PromWorkerEvent(k)
  \/ \E s \in TaskStats : PromUpdateStats(s)
  \/ PromServe
  \/ NewOTel
  \/ \E i \in 1..MaxOTel : OTelSpan(i) \/ OTelShutdown(i)

Spec == Init /\ [][Next]_vars

-----------------------------------------------------------------------------
(* Type invariant. *)
TypeOK ==
  /\ DOMAIN prom.tasks \subseteq TaskStates
  /\ \A t \in DOMAIN prom.tasks : prom.tasks[t] \in 1..MaxPushes
  /\ prom.workers \in [Labels -> Nat]
  /\ prom.gauges \in [StatFields -> StatValues \cup {NoValue}]
  /\ binds \in Seq(Ports \cup {DefaultPort})
  /\ provider \in 0..MaxOTel
  /\ Len(tracerOf) = Len(spans) /\ Len(spans) = Len(given)

(* A PrometheusExporter starts at most one HTTP server over its            *)
(* construction and any number of serve() calls, and it is serving once    *)
(* serve() has run or a port was given.                                    *)
PromServesOnce == Len(binds) <= 1 /\ (prom.started <=> Len(binds) = 1)

(* What an OTelExporter's in-memory exporter holds is exactly the spans of *)
(* the events and statistics pushed to that exporter since its last        *)
(* shutdown, in order.                                                     *)
SpansAreOwnEvents == \A i \in 1..Len(spans) : spans[i] = given[i]
=============================================================================
