------------------------------- MODULE Tracer -------------------------------
(***************************************************************************)
(* src/observability/tracer/tracer.go: New builds a Provider and installs  *)
(* it in the globals of OpenTelemetry, one after the other, while other    *)
(* goroutines open spans and send their context to other services;         *)
(* Shutdown takes the SDK's function out of an unsynchronised field and    *)
(* calls it. The SDK is modelled by what the code relies on: a queue per   *)
(* Provider, emptied in the background and by the first shutdown.          *)
(***************************************************************************)
EXTENDS Naturals

CONSTANTS
    Providers,      (* what New is to make                                  *)
    Workers,        (* goroutines that trace, each one span at a time       *)
    Callers,        (* goroutines that call Shutdown                        *)
    NoProvider,     (* the initial global, which records nothing            *)
    SpanQueueSize

ASSUME NoProviderAssumption == NoProvider \notin Providers
ASSUME SpanQueueSizeAssumption == SpanQueueSize \in Nat

VARIABLES
    installed,  (* the global tracer provider                               *)
    propagates, (* the global propagator writes traceparent                 *)
    stage,      (* where the running New stands                             *)
    making,     (* the Provider it makes                                    *)
    provider,   (* what has become of a Provider                            *)
    exporter,   (* its exporter                                             *)
    shutdown,   (* its field `shutdown` is not nil                          *)
    stopped,    (* the SDK was told to shut it down                         *)
    queue,      (* its spans that have ended and are not exported           *)
    span,       (* the Provider that records the open span of a worker      *)
    call,       (* a caller's call of Shutdown                              *)
    (* History, read by the properties alone.                               *)
    made,       (* some New has returned an enabled Provider                *)
    late,       (* a worker's span was begun after that                     *)
    broken,     (* its context was sent out without a traceparent           *)
    raced,      (* two calls of Shutdown met before either cleared the field *)
    unflushed   (* a flush was given up                                     *)

globalVars == <<installed, propagates>>
newVars == <<stage, making, provider, exporter, made>>
spanVars == <<span, late, broken>>
callVars == <<call, shutdown, raced>>
tracerVars == <<globalVars, newVars, spanVars, callVars, stopped, queue, unflushed>>

Exporters == {"noop", "stdout", "otlp_http", "unsupported", "override"}
Batched == {"stdout", "otlp_http"}
Calls == [on : Providers \cup {NoProvider}, fn : BOOLEAN,
          at : {"idle", "checked", "took", "cleared", "flushing", "returned", "failed", "panicked"}]

TracerTypeOK ==
    /\ installed \in Providers \cup {NoProvider}
    /\ propagates \in BOOLEAN
    /\ stage \in {"idle", "building", "tracer", "meter", "propagator"}
    /\ making \in Providers \cup {NoProvider}
    /\ provider \in [Providers -> {"none", "disabled", "enabled"}]
    /\ exporter \in [Providers -> Exporters]
    /\ shutdown \in [Providers -> BOOLEAN]
    /\ stopped \in [Providers -> BOOLEAN]
    /\ queue \in [Providers -> 0..SpanQueueSize]
    /\ span \in [Workers -> Providers \cup {NoProvider}]
    /\ call \in [Callers -> Calls]
    /\ made \in BOOLEAN
    /\ late \in [Workers -> BOOLEAN]
    /\ broken \in [Workers -> BOOLEAN]
    /\ raced \in [Providers -> BOOLEAN]
    /\ unflushed \in [Providers -> BOOLEAN]

TracerInit ==
    /\ installed = NoProvider
    /\ propagates = FALSE
    /\ stage = "idle"
    /\ making = NoProvider
    /\ provider = [p \in Providers |-> "none"]
    /\ exporter = [p \in Providers |-> "noop"]
    /\ shutdown = [p \in Providers |-> FALSE]
    /\ stopped = [p \in Providers |-> FALSE]
    /\ queue = [p \in Providers |-> 0]
    /\ span = [w \in Workers |-> NoProvider]
    /\ call = [c \in Callers |-> [on |-> NoProvider, fn |-> FALSE, at |-> "idle"]]
    /\ made = FALSE
    /\ late = [w \in Workers |-> FALSE]
    /\ broken = [w \in Workers |-> FALSE]
    /\ raced = [p \in Providers |-> FALSE]
    /\ unflushed = [p \in Providers |-> FALSE]

-----------------------------------------------------------------------------
(* New: the application calls it from one goroutine, and a test perhaps    *)
(* more than once.                                                         *)

NewDisabled(p) ==
    /\ stage = "idle" /\ provider[p] = "none"
    /\ provider' = [provider EXCEPT ![p] = "disabled"]
    /\ UNCHANGED <<globalVars, stage, making, exporter, made, spanVars, callVars, stopped, queue, unflushed>>

(* What a Config that is enabled tells apart: the exporter. How a service  *)
(* is named and spans are sampled makes no difference here.                *)
Configured(p) == \E e \in Exporters : exporter' = [exporter EXCEPT ![p] = e]

New(p) ==
    /\ stage = "idle" /\ provider[p] = "none"
    /\ stage' = "building"
    /\ making' = p
    /\ Configured(p)
    /\ UNCHANGED <<globalVars, provider, made, spanVars, callVars, stopped, queue, unflushed>>

(* An override is there already, and noop means none.                      *)
buildSpanExporter ==
    /\ stage = "building"
    /\ \/ /\ exporter[making] # "unsupported"
          /\ stage' = "tracer"
          /\ UNCHANGED <<making, exporter>>
       \/ /\ exporter[making] \in Batched \cup {"unsupported"}
          /\ stage' = "idle"
          /\ making' = NoProvider
          /\ exporter' = [exporter EXCEPT ![making] = "noop"]
    /\ UNCHANGED <<globalVars, provider, made, spanVars, callVars, stopped, queue, unflushed>>

SetTracerProvider ==
    /\ stage = "tracer"
    /\ installed' = making
    /\ stage' = "meter"
    /\ UNCHANGED <<propagates, making, provider, exporter, made, spanVars, callVars, stopped, queue, unflushed>>

(* Its meters record nothing, before and after.                            *)
SetMeterProvider ==
    /\ stage = "meter"
    /\ stage' = "propagator"
    /\ UNCHANGED <<globalVars, making, provider, exporter, made, spanVars, callVars, stopped, queue, unflushed>>

(* The last global, and New returns its Provider.                          *)
PropagatorForgotten == propagates
Propagator == TRUE

SetTextMapPropagator ==
    /\ stage = "propagator"
    /\ propagates' = Propagator
    /\ provider' = [provider EXCEPT ![making] = "enabled"]
    /\ shutdown' = [shutdown EXCEPT ![making] = TRUE]
    /\ made' = TRUE
    /\ stage' = "idle"
    /\ making' = NoProvider
    /\ UNCHANGED <<installed, exporter, spanVars, call, raced, stopped, queue, unflushed>>

-----------------------------------------------------------------------------
(* Spans, by the global provider and propagator.                           *)

StartSpan(w) ==
    /\ span[w] = NoProvider
    /\ installed # NoProvider /\ ~stopped[installed]
    /\ span' = [span EXCEPT ![w] = installed]
    /\ late' = [late EXCEPT ![w] = made]
    /\ broken' = [broken EXCEPT ![w] = FALSE]
    /\ UNCHANGED <<globalVars, newVars, callVars, stopped, queue, unflushed>>

(* The worker calls another service.                                       *)
Inject(w) ==
    /\ span[w] # NoProvider
    /\ broken' = [broken EXCEPT ![w] = @ \/ ~propagates]
    /\ UNCHANGED <<globalVars, newVars, span, late, callVars, stopped, queue, unflushed>>

(* A full queue drops the span; without a batch there is none to wait in.  *)
EndSpan(w) ==
    LET p == span[w] IN
    /\ p # NoProvider
    /\ span' = [span EXCEPT ![w] = NoProvider]
    /\ queue' = IF exporter[p] \in Batched /\ ~stopped[p] /\ queue[p] < SpanQueueSize
                THEN [queue EXCEPT ![p] = @ + 1] ELSE queue
    /\ UNCHANGED <<globalVars, newVars, late, broken, callVars, stopped, unflushed>>

ExportBatch(p) ==
    /\ queue[p] > 0
    /\ queue' = [queue EXCEPT ![p] = 0]
    /\ UNCHANGED <<globalVars, newVars, spanVars, callVars, stopped, unflushed>>

-----------------------------------------------------------------------------
(* Shutdown                                                                *)

Moves(c, at) == call' = [call EXCEPT ![c].at = at]
Ends(c, at) == call' = [call EXCEPT ![c].at = at, ![c].fn = FALSE]

(* `if p.shutdown == nil`                                                  *)
Shutdown(c, p) ==
    /\ call[c].at \in {"idle", "returned", "failed"}
    /\ provider[p] # "none"
    /\ call' = [call EXCEPT ![c] = [on |-> p, fn |-> FALSE,
                                    at |-> IF shutdown[p] THEN "checked" ELSE "returned"]]
    /\ raced' = [raced EXCEPT ![p] = @ \/ \E d \in Callers \ {c} :
                                             call[d].on = p /\ call[d].at \in {"checked", "took"}]
    /\ UNCHANGED <<globalVars, newVars, spanVars, shutdown, stopped, queue, unflushed>>

(* `fn := p.shutdown`                                                      *)
Take(c) ==
    /\ call[c].at = "checked"
    /\ call' = [call EXCEPT ![c].at = "took", ![c].fn = shutdown[call[c].on]]
    /\ UNCHANGED <<globalVars, newVars, spanVars, shutdown, raced, stopped, queue, unflushed>>

(* `p.shutdown = nil`                                                      *)
Clear(c) ==
    /\ call[c].at = "took"
    /\ Moves(c, "cleared")
    /\ shutdown' = [shutdown EXCEPT ![call[c].on] = FALSE]
    /\ UNCHANGED <<globalVars, newVars, spanVars, raced, stopped, queue, unflushed>>

(* `fn(ctx)`: a call of nil panics; a second shutdown of the SDK is empty. *)
CallFnUnwaited(c) ==
    LET p == call[c].on IN
    /\ call[c].at = "cleared"
    /\ Ends(c, IF call[c].fn THEN "returned" ELSE "panicked")
    /\ stopped' = IF call[c].fn THEN [stopped EXCEPT ![p] = TRUE] ELSE stopped
    /\ UNCHANGED <<globalVars, newVars, spanVars, shutdown, raced, queue, unflushed>>

CallFn(c) ==
    LET p == call[c].on IN
    /\ call[c].at = "cleared"
    /\ \/ ~call[c].fn /\ Ends(c, "panicked") /\ UNCHANGED stopped
       \/ call[c].fn /\ stopped[p] /\ Ends(c, "returned") /\ UNCHANGED stopped
       \/ call[c].fn /\ ~stopped[p] /\ Moves(c, "flushing") /\ stopped' = [stopped EXCEPT ![p] = TRUE]
    /\ UNCHANGED <<globalVars, newVars, spanVars, shutdown, raced, queue, unflushed>>

FlushEnds(c) ==
    /\ call[c].at = "flushing"
    /\ Ends(c, "returned")
    /\ queue' = [queue EXCEPT ![call[c].on] = 0]
    /\ UNCHANGED <<globalVars, newVars, spanVars, shutdown, raced, stopped, unflushed>>

(* The context's deadline passes, or the collector does not answer.        *)
FlushFails(c) ==
    /\ call[c].at = "flushing"
    /\ Ends(c, "failed")
    /\ unflushed' = [unflushed EXCEPT ![call[c].on] = TRUE]
    /\ UNCHANGED <<globalVars, newVars, spanVars, shutdown, raced, stopped, queue>>

-----------------------------------------------------------------------------

Installing == buildSpanExporter \/ SetTracerProvider \/ SetMeterProvider \/ SetTextMapPropagator
Tracing(w) == StartSpan(w) \/ Inject(w) \/ EndSpan(w)
Stopping(c) == Take(c) \/ Clear(c) \/ CallFn(c) \/ FlushEnds(c) \/ FlushFails(c)

TracerNext ==
    \/ \E p \in Providers : NewDisabled(p) \/ New(p) \/ ExportBatch(p)
    \/ Installing
    \/ \E w \in Workers : Tracing(w)
    \/ \E c \in Callers : Stopping(c) \/ \E p \in Providers : Shutdown(c, p)

TracerSpec == TracerInit /\ [][TracerNext]_tracerVars

-----------------------------------------------------------------------------
(* Properties                                                              *)

(* "Partial state is impossible" (tracer.go:136), for whoever traces: the  *)
(* global provider is one that New returned or is about to return, never   *)
(* one whose construction failed; and although the globals are set one by  *)
(* one, a span begun after a New has returned is never sent out without    *)
(* its traceparent, also while a second New replaces the globals. Spans    *)
(* begun within the first installation (179-181) may be.                   *)
TracesHoldTogether ==
    /\ \A w \in Workers : broken[w] => ~late[w]
    /\ installed # NoProvider =>
          provider[installed] = "enabled" \/ (making = installed /\ stage \in {"meter", "propagator"})

(* "Shutdown flushes any in-flight spans ... a second invocation is a      *)
(* no-op that returns nil" (tracer.go:229-231). When a call has returned   *)
(* nil, no span of the Provider waits for its export, unless another call  *)
(* has the function and is not done, or has given up. And only calls that  *)
(* overlap before the field is cleared can panic.                          *)
Flushing(d, p) ==
    call[d].on = p /\ call[d].fn /\ call[d].at \in {"cleared", "flushing"}
ShutdownIsHonest ==
    \A c \in Callers : LET p == call[c].on IN
        /\ call[c].at = "returned" =>
              queue[p] = 0 \/ unflushed[p] \/ \E d \in Callers \ {c} : Flushing(d, p)
        /\ call[c].at = "panicked" => raced[p]

=============================================================================
