------------------------- MODULE LibraryPartsProofs -------------------------
(***************************************************************************)
(* Proofs about Tracer, Upload and ErrorTexts, and that the parts side by  *)
(* side are each as proved on their own.                                   *)
(*                                                                         *)
(* Tracer: the invariant follows the two lives of a Provider: until New    *)
(* installs it nobody can have a span of it (Construction, Tracing), and   *)
(* once New has returned it either its field holds the function, or a call *)
(* holds it, or the SDK has been told (Field). Race says which calls met.  *)
(*                                                                         *)
(* Upload: a call's object is made of its own source alone (Made); names   *)
(* are given out once (Naming), so that what a call has stored stays as it *)
(* is (Stored).                                                            *)
(*                                                                         *)
(* ErrorTexts: the registries hold what was told last of each code         *)
(* (AsTold), and a text is its template with those details filled in that  *)
(* had their turn (FilledSoFar).                                           *)
(***************************************************************************)
EXTENDS LibraryParts, SetupProofs, PagingProofs, WellFoundedInduction

-----------------------------------------------------------------------------
(* Tracer                                                                  *)

(* It never was the global provider.                                       *)
Fresh(p) == provider[p] # "enabled" /\ ~(making = p /\ stage \in {"meter", "propagator"})

Construction ==
    /\ stage = "idle" <=> making = NoProvider
    /\ stage # "idle" => provider[making] = "none"
    /\ stage \in {"meter", "propagator"} => installed = making
    /\ installed # NoProvider => ~Fresh(installed)

TracingInv ==
    /\ made => propagates
    /\ \A w \in Workers : /\ late[w] => made /\ ~broken[w]
                          /\ span[w] # NoProvider => ~Fresh(span[w])
    /\ \A p \in Providers : Fresh(p) => queue[p] = 0

(* A call knows its Provider, and what it has done to the field.           *)
CallInv ==
    \A c \in Callers :
        /\ call[c].at # "idle" => call[c].on \in Providers /\ provider[call[c].on] # "none"
        /\ call[c].at \in {"checked", "took", "cleared", "flushing"} => provider[call[c].on] = "enabled"
        /\ call[c].at = "flushing" => call[c].fn
        /\ call[c].fn => call[c].at \in {"took", "cleared", "flushing"}
        /\ call[c].at \notin {"idle", "checked", "took"} => ~shutdown[call[c].on]

(* Somebody always holds the function, until the SDK was told.             *)
Field ==
    \A p \in Providers :
        /\ provider[p] # "enabled" => ~shutdown[p] /\ ~stopped[p]
        /\ provider[p] = "enabled" => \/ shutdown[p] \/ stopped[p]
                                      \/ \E d \in Callers : Flushing(d, p)
        /\ stopped[p] => \/ queue[p] = 0 \/ unflushed[p]
                         \/ \E d \in Callers : call[d].on = p /\ call[d].at = "flushing"

Meets(c) == call[c].at \in {"checked", "took"}
Race ==
    /\ \A c, d \in Callers :
          c # d /\ Meets(c) /\ Meets(d) /\ call[c].on = call[d].on => raced[call[c].on]
    /\ \A c \in Callers :
          /\ call[c].at = "checked" /\ ~shutdown[call[c].on] => raced[call[c].on]
          /\ call[c].at \in {"took", "cleared"} /\ ~call[c].fn =>
                ~shutdown[call[c].on] /\ raced[call[c].on]
          /\ call[c].at = "panicked" => raced[call[c].on]

TracerInv == TracerTypeOK /\ Construction /\ TracingInv /\ CallInv /\ Field /\ Race

USE NoProviderAssumption, SpanQueueSizeAssumption

LEMMA TracerInitInv == TracerInit => TracerInv
  <1> SUFFICES ASSUME TracerInit
               PROVE  TracerInv
    OBVIOUS
  <1> USE DEF TracerInit
  <1>1. TracerTypeOK
    <2>1. call \in [Callers -> Calls]
      BY DEF Calls
    <2>2. /\ queue \in [Providers -> 0..SpanQueueSize]
          /\ exporter \in [Providers -> Exporters]
      BY DEF Exporters
    <2> QED
      BY <2>1, <2>2 DEF TracerTypeOK
  <1>2. Construction /\ TracingInv
    BY DEF Construction, TracingInv
  <1>3. CallInv /\ Field /\ Race
    BY DEF CallInv, Field, Race, Meets
  <1> QED
    BY <1>1, <1>2, <1>3 DEF TracerInv

(* What a step of one call does to the calls.                              *)
LEMMA CallMoves ==
    ASSUME call \in [Callers -> Calls], NEW c \in Callers, NEW at, Moves(c, at),
           at \in {"cleared", "flushing"}
    PROVE  /\ call' \in [Callers -> Calls]
           /\ \A d \in Callers \ {c} : call'[d] = call[d]
           /\ call'[c].on = call[c].on /\ call'[c].fn = call[c].fn /\ call'[c].at = at
  BY DEF Moves, Calls

LEMMA CallEnds ==
    ASSUME call \in [Callers -> Calls], NEW c \in Callers, NEW at, Ends(c, at),
           at \in {"returned", "failed", "panicked"}
    PROVE  /\ call' \in [Callers -> Calls]
           /\ \A d \in Callers \ {c} : call'[d] = call[d]
           /\ call'[c].on = call[c].on /\ ~call'[c].fn /\ call'[c].at = at
  BY DEF Ends, Calls

LEMMA CallTakes ==
    ASSUME call \in [Callers -> Calls], NEW c \in Callers, call[c].on \in Providers,
           shutdown \in [Providers -> BOOLEAN],
           call' = [call EXCEPT ![c].at = "took", ![c].fn = shutdown[call[c].on]]
    PROVE  call' \in [Callers -> Calls]
  <1> DEFINE b == shutdown[call[c].on]
  <1>1. b \in BOOLEAN
    OBVIOUS
  <1> HIDE DEF b
  <1>2. [[call[c] EXCEPT !.at = "took"] EXCEPT !.fn = b] \in Calls
    BY <1>1 DEF Calls
  <1>3. call' = [call EXCEPT ![c] = [[@ EXCEPT !.at = "took"] EXCEPT !.fn = b]]
    BY DEF b
  <1> QED
    BY <1>2, <1>3

Others(c) == \A d \in Callers \ {c} : call'[d] = call[d]
FnCalled(c) ==
    /\ call' \in [Callers -> Calls] /\ Others(c)
    /\ call[c].at = "cleared" /\ call'[c].on = call[c].on
    /\ \/ /\ ~call[c].fn /\ ~call'[c].fn /\ call'[c].at = "panicked"
          /\ UNCHANGED stopped
       \/ /\ call[c].fn /\ stopped[call[c].on] /\ ~call'[c].fn /\ call'[c].at = "returned"
          /\ UNCHANGED stopped
       \/ /\ call[c].fn /\ ~stopped[call[c].on] /\ call'[c].fn /\ call'[c].at = "flushing"
          /\ stopped' = [stopped EXCEPT ![call[c].on] = TRUE]
    /\ UNCHANGED <<globalVars, newVars, spanVars, shutdown, raced, queue, unflushed>>

LEMMA CallFnDoes ==
    ASSUME call \in [Callers -> Calls], NEW c \in Callers, CallFn(c)
    PROVE  FnCalled(c)
  <1> USE DEF FnCalled, Others
  <1>1. CASE ~call[c].fn /\ Ends(c, "panicked") /\ UNCHANGED stopped
    BY <1>1, CallEnds DEF CallFn
  <1>2. CASE call[c].fn /\ stopped[call[c].on] /\ Ends(c, "returned") /\ UNCHANGED stopped
    BY <1>2, CallEnds DEF CallFn
  <1>3. CASE /\ call[c].fn /\ ~stopped[call[c].on] /\ Moves(c, "flushing")
             /\ stopped' = [stopped EXCEPT ![call[c].on] = TRUE]
    BY <1>3, CallMoves DEF CallFn
  <1> QED
    BY <1>1, <1>2, <1>3 DEF CallFn

LEMMA TypeStep == TracerInv /\ [TracerNext]_tracerVars => TracerTypeOK'
  <1> SUFFICES ASSUME TracerInv, [TracerNext]_tracerVars
               PROVE  TracerTypeOK'
    OBVIOUS
  <1> USE DEF TracerInv, TracerTypeOK, Construction, CallInv, Calls, Exporters, globalVars, newVars, spanVars, callVars
  <1>1. ASSUME NEW p \in Providers, NewDisabled(p)
        PROVE  TracerTypeOK'
    BY <1>1 DEF NewDisabled
  <1>2. ASSUME NEW p \in Providers, New(p)
        PROVE  TracerTypeOK'
    BY <1>2 DEF New, Configured
  <1>3. ASSUME NEW p \in Providers, ExportBatch(p)
        PROVE  TracerTypeOK'
    BY <1>3 DEF ExportBatch
  <1>4. CASE buildSpanExporter
    BY <1>4 DEF buildSpanExporter
  <1>5. CASE SetTracerProvider
    BY <1>5 DEF SetTracerProvider
  <1>6. CASE SetMeterProvider
    BY <1>6 DEF SetMeterProvider
  <1>7. CASE SetTextMapPropagator
    BY <1>7 DEF SetTextMapPropagator, Propagator
  <1>8. ASSUME NEW w \in Workers, StartSpan(w)
        PROVE  TracerTypeOK'
    BY <1>8 DEF StartSpan
  <1>9. ASSUME NEW w \in Workers, Inject(w)
        PROVE  TracerTypeOK'
    BY <1>9 DEF Inject
  <1>10. ASSUME NEW w \in Workers, EndSpan(w)
        PROVE  TracerTypeOK'
    BY <1>10 DEF EndSpan
  <1>11. ASSUME NEW c \in Callers, Take(c)
        PROVE  TracerTypeOK'
    <2>1. call' \in [Callers -> Calls]
      BY <1>11, CallTakes DEF Take
    <2>2. UNCHANGED <<globalVars, newVars, spanVars, shutdown, raced, stopped, queue, unflushed>>
      BY <1>11 DEF Take
    <2> QED
      BY <2>1, <2>2
  <1>12. ASSUME NEW c \in Callers, Clear(c)
        PROVE  TracerTypeOK'
    BY <1>12 DEF Clear, Moves
  <1>13. ASSUME NEW c \in Callers, CallFn(c)
        PROVE  TracerTypeOK'
    <2>1. FnCalled(c)
      BY <1>13, CallFnDoes
    <2> QED
      BY <2>1 DEF FnCalled, Others
  <1>14. ASSUME NEW c \in Callers, FlushEnds(c)
        PROVE  TracerTypeOK'
    BY <1>14 DEF FlushEnds, Ends
  <1>15. ASSUME NEW c \in Callers, FlushFails(c)
        PROVE  TracerTypeOK'
    BY <1>15 DEF FlushFails, Ends
  <1>16. ASSUME NEW c \in Callers, NEW p \in Providers, Shutdown(c, p)
        PROVE  TracerTypeOK'
    BY <1>16 DEF Shutdown
  <1>17. CASE UNCHANGED tracerVars
    BY <1>17 DEF tracerVars
  <1> QED
    BY <1>1, <1>2, <1>3, <1>4, <1>5, <1>6, <1>7, <1>8, <1>9, <1>10, <1>11, <1>12, <1>13, <1>14, <1>15, <1>16, <1>17
    DEF TracerNext, Installing, Tracing, Stopping

LEMMA ConstructionStep == TracerInv /\ [TracerNext]_tracerVars => Construction'
  <1> SUFFICES ASSUME TracerInv, [TracerNext]_tracerVars
               PROVE  Construction'
    OBVIOUS
  <1> USE DEF TracerInv, TracerTypeOK, Construction, Fresh, globalVars, newVars, spanVars, callVars
  <1>1. ASSUME NEW p \in Providers, NewDisabled(p)
        PROVE  Construction'
    BY <1>1 DEF NewDisabled
  <1>2. ASSUME NEW p \in Providers, New(p)
        PROVE  Construction'
    BY <1>2 DEF New, Configured
  <1>3. ASSUME NEW p \in Providers, ExportBatch(p)
        PROVE  Construction'
    BY <1>3 DEF ExportBatch
  <1>4. CASE buildSpanExporter
    BY <1>4 DEF buildSpanExporter
  <1>5. CASE SetTracerProvider
    BY <1>5 DEF SetTracerProvider
  <1>6. CASE SetMeterProvider
    BY <1>6 DEF SetMeterProvider
  <1>7. CASE SetTextMapPropagator
    BY <1>7 DEF SetTextMapPropagator
  <1>8. ASSUME NEW w \in Workers, StartSpan(w)
        PROVE  Construction'
    BY <1>8 DEF StartSpan
  <1>9. ASSUME NEW w \in Workers, Inject(w)
        PROVE  Construction'
    BY <1>9 DEF Inject
  <1>10. ASSUME NEW w \in Workers, EndSpan(w)
        PROVE  Construction'
    BY <1>10 DEF EndSpan
  <1>11. ASSUME NEW c \in Callers, Take(c)
        PROVE  Construction'
    BY <1>11 DEF Take
  <1>12. ASSUME NEW c \in Callers, Clear(c)
        PROVE  Construction'
    BY <1>12 DEF Clear
  <1>13. ASSUME NEW c \in Callers, CallFn(c)
        PROVE  Construction'
    BY <1>13 DEF CallFn
  <1>14. ASSUME NEW c \in Callers, FlushEnds(c)
        PROVE  Construction'
    BY <1>14 DEF FlushEnds
  <1>15. ASSUME NEW c \in Callers, FlushFails(c)
        PROVE  Construction'
    BY <1>15 DEF FlushFails
  <1>16. ASSUME NEW c \in Callers, NEW p \in Providers, Shutdown(c, p)
        PROVE  Construction'
    BY <1>16 DEF Shutdown
  <1>17. CASE UNCHANGED tracerVars
    BY <1>17 DEF tracerVars
  <1> QED
    BY <1>1, <1>2, <1>3, <1>4, <1>5, <1>6, <1>7, <1>8, <1>9, <1>10, <1>11, <1>12, <1>13, <1>14, <1>15, <1>16, <1>17
    DEF TracerNext, Installing, Tracing, Stopping

LEMMA TracingStep == TracerInv /\ [TracerNext]_tracerVars => TracingInv'
  <1> SUFFICES ASSUME TracerInv, [TracerNext]_tracerVars
               PROVE  TracingInv'
    OBVIOUS
  <1> USE DEF TracerInv, TracerTypeOK, Construction, TracingInv, Fresh, globalVars, newVars, spanVars, callVars
  <1>1. ASSUME NEW p \in Providers, NewDisabled(p)
        PROVE  TracingInv'
    BY <1>1 DEF NewDisabled
  <1>2. ASSUME NEW p \in Providers, New(p)
        PROVE  TracingInv'
    BY <1>2 DEF New, Configured
  <1>3. ASSUME NEW p \in Providers, ExportBatch(p)
        PROVE  TracingInv'
    BY <1>3 DEF ExportBatch
  <1>4. CASE buildSpanExporter
    BY <1>4 DEF buildSpanExporter
  <1>5. CASE SetTracerProvider
    BY <1>5 DEF SetTracerProvider
  <1>6. CASE SetMeterProvider
    BY <1>6 DEF SetMeterProvider
  <1>7. CASE SetTextMapPropagator
    BY <1>7 DEF SetTextMapPropagator, Propagator
  <1>8. ASSUME NEW w \in Workers, StartSpan(w)
        PROVE  TracingInv'
    BY <1>8 DEF StartSpan
  <1>9. ASSUME NEW w \in Workers, Inject(w)
        PROVE  TracingInv'
    BY <1>9 DEF Inject
  <1>10. ASSUME NEW w \in Workers, EndSpan(w)
        PROVE  TracingInv'
    BY <1>10 DEF EndSpan
  <1>11. ASSUME NEW c \in Callers, Take(c)
        PROVE  TracingInv'
    BY <1>11 DEF Take
  <1>12. ASSUME NEW c \in Callers, Clear(c)
        PROVE  TracingInv'
    BY <1>12 DEF Clear
  <1>13. ASSUME NEW c \in Callers, CallFn(c)
        PROVE  TracingInv'
    BY <1>13 DEF CallFn
  <1>14. ASSUME NEW c \in Callers, FlushEnds(c)
        PROVE  TracingInv'
    BY <1>14 DEF FlushEnds
  <1>15. ASSUME NEW c \in Callers, FlushFails(c)
        PROVE  TracingInv'
    BY <1>15 DEF FlushFails
  <1>16. ASSUME NEW c \in Callers, NEW p \in Providers, Shutdown(c, p)
        PROVE  TracingInv'
    BY <1>16 DEF Shutdown
  <1>17. CASE UNCHANGED tracerVars
    BY <1>17 DEF tracerVars
  <1> QED
    BY <1>1, <1>2, <1>3, <1>4, <1>5, <1>6, <1>7, <1>8, <1>9, <1>10, <1>11, <1>12, <1>13, <1>14, <1>15, <1>16, <1>17
    DEF TracerNext, Installing, Tracing, Stopping

LEMMA TracerCallStep == TracerInv /\ [TracerNext]_tracerVars => CallInv'
  <1> SUFFICES ASSUME TracerInv, [TracerNext]_tracerVars
               PROVE  CallInv'
    OBVIOUS
  <1> USE DEF TracerInv, TracerTypeOK, Construction, CallInv, Field, Calls, globalVars, newVars, spanVars, callVars
  <1>1. ASSUME NEW p \in Providers, NewDisabled(p)
        PROVE  CallInv'
    BY <1>1 DEF NewDisabled
  <1>2. ASSUME NEW p \in Providers, New(p)
        PROVE  CallInv'
    BY <1>2 DEF New, Configured
  <1>3. ASSUME NEW p \in Providers, ExportBatch(p)
        PROVE  CallInv'
    BY <1>3 DEF ExportBatch
  <1>4. CASE buildSpanExporter
    BY <1>4 DEF buildSpanExporter
  <1>5. CASE SetTracerProvider
    BY <1>5 DEF SetTracerProvider
  <1>6. CASE SetMeterProvider
    BY <1>6 DEF SetMeterProvider
  <1>7. CASE SetTextMapPropagator
    BY <1>7 DEF SetTextMapPropagator
  <1>8. ASSUME NEW w \in Workers, StartSpan(w)
        PROVE  CallInv'
    BY <1>8 DEF StartSpan
  <1>9. ASSUME NEW w \in Workers, Inject(w)
        PROVE  CallInv'
    BY <1>9 DEF Inject
  <1>10. ASSUME NEW w \in Workers, EndSpan(w)
        PROVE  CallInv'
    BY <1>10 DEF EndSpan
  <1>11. ASSUME NEW c \in Callers, Take(c)
        PROVE  CallInv'
    BY <1>11 DEF Take
  <1>12. ASSUME NEW c \in Callers, Clear(c)
        PROVE  CallInv'
    BY <1>12 DEF Clear, Moves
  <1>13. ASSUME NEW c \in Callers, CallFn(c)
        PROVE  CallInv'
    <2>1. FnCalled(c)
      BY <1>13, CallFnDoes
    <2> QED
      BY <2>1 DEF FnCalled, Others
  <1>14. ASSUME NEW c \in Callers, FlushEnds(c)
        PROVE  CallInv'
    BY <1>14 DEF FlushEnds, Ends
  <1>15. ASSUME NEW c \in Callers, FlushFails(c)
        PROVE  CallInv'
    BY <1>15 DEF FlushFails, Ends
  <1>16. ASSUME NEW c \in Callers, NEW p \in Providers, Shutdown(c, p)
        PROVE  CallInv'
    BY <1>16 DEF Shutdown
  <1>17. CASE UNCHANGED tracerVars
    BY <1>17 DEF tracerVars
  <1> QED
    BY <1>1, <1>2, <1>3, <1>4, <1>5, <1>6, <1>7, <1>8, <1>9, <1>10, <1>11, <1>12, <1>13, <1>14, <1>15, <1>16, <1>17
    DEF TracerNext, Installing, Tracing, Stopping

LEMMA FieldStep == TracerInv /\ [TracerNext]_tracerVars => Field'
  <1> SUFFICES ASSUME TracerInv, [TracerNext]_tracerVars
               PROVE  Field'
    OBVIOUS
  <1> USE DEF TracerInv, TracerTypeOK, Construction, TracingInv, CallInv, Field, Race, Fresh, Flushing, Calls, globalVars, newVars, spanVars, callVars
  <1>1. ASSUME NEW p \in Providers, NewDisabled(p)
        PROVE  Field'
    BY <1>1 DEF NewDisabled
  <1>2. ASSUME NEW p \in Providers, New(p)
        PROVE  Field'
    BY <1>2 DEF New, Configured
  <1>3. ASSUME NEW p \in Providers, ExportBatch(p)
        PROVE  Field'
    BY <1>3 DEF ExportBatch
  <1>4. CASE buildSpanExporter
    BY <1>4 DEF buildSpanExporter
  <1>5. CASE SetTracerProvider
    BY <1>5 DEF SetTracerProvider
  <1>6. CASE SetMeterProvider
    BY <1>6 DEF SetMeterProvider
  <1>7. CASE SetTextMapPropagator
    BY <1>7 DEF SetTextMapPropagator
  <1>8. ASSUME NEW w \in Workers, StartSpan(w)
        PROVE  Field'
    BY <1>8 DEF StartSpan
  <1>9. ASSUME NEW w \in Workers, Inject(w)
        PROVE  Field'
    BY <1>9 DEF Inject
  <1>10. ASSUME NEW w \in Workers, EndSpan(w)
        PROVE  Field'
    BY <1>10 DEF EndSpan
  <1>11. ASSUME NEW c \in Callers, Take(c)
        PROVE  Field'
    BY <1>11 DEF Take
  <1>12. ASSUME NEW c \in Callers, Clear(c)
        PROVE  Field'
    BY <1>12 DEF Clear, Moves
  <1>13. ASSUME NEW c \in Callers, CallFn(c)
        PROVE  Field'
    <2>1. FnCalled(c)
      BY <1>13, CallFnDoes
    <2>2. /\ UNCHANGED <<shutdown, raced, provider, queue, unflushed>>
          /\ \A d \in Callers \ {c} : call'[d] = call[d]
          /\ call[c].at = "cleared" /\ call'[c].on = call[c].on
          /\ call'[c].at \in {"panicked", "returned", "flushing"}
      BY <2>1 DEF FnCalled, Others
    <2>3. Field /\ CallInv /\ call[c].on \in Providers /\ stopped \in [Providers -> BOOLEAN]
      BY <2>2
    <2> DEFINE q == call[c].on
    <2>4. CASE call'[c].at = "panicked"
      <3>1. ~call[c].fn /\ UNCHANGED stopped
        BY <2>1, <2>4 DEF FnCalled
      <3> HIDE DEF TracerInv, TracerTypeOK, Calls, Construction, TracingInv, Race
      <3> QED
        BY <2>2, <2>3, <2>4, <3>1
    <2>5. CASE call'[c].at = "returned"
      <3>1. stopped[q] /\ UNCHANGED stopped
        BY <2>1, <2>5 DEF FnCalled
      <3> HIDE DEF TracerInv, TracerTypeOK, Calls, Construction, TracingInv, Race
      <3> QED
        BY <2>2, <2>3, <2>5, <3>1
    <2>6. CASE call'[c].at = "flushing"
      <3>1. call'[c].fn /\ stopped' = [stopped EXCEPT ![q] = TRUE]
        BY <2>1, <2>6 DEF FnCalled
      <3> HIDE DEF TracerInv, TracerTypeOK, Calls, Construction, TracingInv, Race
      <3> QED
        BY <2>2, <2>3, <2>6, <3>1
    <2> QED
      BY <2>2, <2>4, <2>5, <2>6
  <1>14. ASSUME NEW c \in Callers, FlushEnds(c)
        PROVE  Field'
    BY <1>14 DEF FlushEnds, Ends
  <1>15. ASSUME NEW c \in Callers, FlushFails(c)
        PROVE  Field'
    BY <1>15 DEF FlushFails, Ends
  <1>16. ASSUME NEW c \in Callers, NEW p \in Providers, Shutdown(c, p)
        PROVE  Field'
    BY <1>16 DEF Shutdown
  <1>17. CASE UNCHANGED tracerVars
    BY <1>17 DEF tracerVars
  <1> QED
    BY <1>1, <1>2, <1>3, <1>4, <1>5, <1>6, <1>7, <1>8, <1>9, <1>10, <1>11, <1>12, <1>13, <1>14, <1>15, <1>16, <1>17
    DEF TracerNext, Installing, Tracing, Stopping

LEMMA RaceStep == TracerInv /\ [TracerNext]_tracerVars => Race'
  <1> SUFFICES ASSUME TracerInv, [TracerNext]_tracerVars
               PROVE  Race'
    OBVIOUS
  <1> USE DEF TracerInv, TracerTypeOK, Construction, CallInv, Field, Race, Meets, Calls, globalVars, newVars, spanVars, callVars
  <1>1. ASSUME NEW p \in Providers, NewDisabled(p)
        PROVE  Race'
    BY <1>1 DEF NewDisabled
  <1>2. ASSUME NEW p \in Providers, New(p)
        PROVE  Race'
    BY <1>2 DEF New, Configured
  <1>3. ASSUME NEW p \in Providers, ExportBatch(p)
        PROVE  Race'
    BY <1>3 DEF ExportBatch
  <1>4. CASE buildSpanExporter
    BY <1>4 DEF buildSpanExporter
  <1>5. CASE SetTracerProvider
    BY <1>5 DEF SetTracerProvider
  <1>6. CASE SetMeterProvider
    BY <1>6 DEF SetMeterProvider
  <1>7. CASE SetTextMapPropagator
    BY <1>7 DEF SetTextMapPropagator
  <1>8. ASSUME NEW w \in Workers, StartSpan(w)
        PROVE  Race'
    BY <1>8 DEF StartSpan
  <1>9. ASSUME NEW w \in Workers, Inject(w)
        PROVE  Race'
    BY <1>9 DEF Inject
  <1>10. ASSUME NEW w \in Workers, EndSpan(w)
        PROVE  Race'
    BY <1>10 DEF EndSpan
  <1>11. ASSUME NEW c \in Callers, Take(c)
        PROVE  Race'
    BY <1>11 DEF Take
  <1>12. ASSUME NEW c \in Callers, Clear(c)
        PROVE  Race'
    BY <1>12 DEF Clear, Moves
  <1>13. ASSUME NEW c \in Callers, CallFn(c)
        PROVE  Race'
    <2>1. FnCalled(c)
      BY <1>13, CallFnDoes
    <2>2. /\ UNCHANGED <<shutdown, raced, provider, queue, unflushed>>
          /\ \A d \in Callers \ {c} : call'[d] = call[d]
          /\ call[c].at = "cleared" /\ call'[c].on = call[c].on
          /\ call'[c].at \in {"panicked", "returned", "flushing"}
      BY <2>1 DEF FnCalled, Others
    <2>3. call'[c].at = "panicked" => ~call[c].fn
      BY <2>1 DEF FnCalled
    <2>4. Race
      OBVIOUS
    <2> HIDE DEF TracerInv, TracerTypeOK, Calls, Construction, CallInv, Field
    <2> QED
      BY <2>2, <2>3, <2>4 DEF Race, Meets
  <1>14. ASSUME NEW c \in Callers, FlushEnds(c)
        PROVE  Race'
    BY <1>14 DEF FlushEnds, Ends
  <1>15. ASSUME NEW c \in Callers, FlushFails(c)
        PROVE  Race'
    BY <1>15 DEF FlushFails, Ends
  <1>16. ASSUME NEW c \in Callers, NEW p \in Providers, Shutdown(c, p)
        PROVE  Race'
    BY <1>16 DEF Shutdown
  <1>17. CASE UNCHANGED tracerVars
    BY <1>17 DEF tracerVars
  <1> QED
    BY <1>1, <1>2, <1>3, <1>4, <1>5, <1>6, <1>7, <1>8, <1>9, <1>10, <1>11, <1>12, <1>13, <1>14, <1>15, <1>16, <1>17
    DEF TracerNext, Installing, Tracing, Stopping

THEOREM TracerInvariance == TracerSpec => []TracerInv
  <1>1. TracerInv /\ [TracerNext]_tracerVars => TracerInv'
    BY TypeStep, ConstructionStep, TracingStep, TracerCallStep, FieldStep, RaceStep DEF TracerInv
  <1> QED
    BY TracerInitInv, <1>1, PTL DEF TracerSpec

(* Type correctness: a queue never outgrows its bound, and a call of       *)
(* Shutdown always has a Provider to work on.                              *)
THEOREM TracerTypeCorrect == TracerSpec => []TracerTypeOK
  BY TracerInvariance, PTL DEF TracerInv

(* tracer.go:136, 176-178: only a Provider that New has finished, or is    *)
(* about to, ever is the global one; and a span begun after a New has      *)
(* returned is never sent out without its traceparent.                     *)
THEOREM TracesHold == TracerSpec => []TracesHoldTogether
  <1>1. TracerInv => TracesHoldTogether
    BY DEF TracerInv, TracerTypeOK, Construction, TracingInv, Fresh, TracesHoldTogether
  <1> QED
    BY <1>1, TracerInvariance, PTL

(* tracer.go:229-231: a nil of Shutdown means that nothing waits for its   *)
(* export, unless another call is at it or gave up; only calls that met    *)
(* panic. For any number of callers and of Providers.                      *)
THEOREM ShutdownHonest == TracerSpec => []ShutdownIsHonest
  <1>1. TracerInv => ShutdownIsHonest
    <2> SUFFICES ASSUME TracerInv, NEW c \in Callers
                 PROVE  /\ call[c].at = "returned" =>
                              \/ queue[call[c].on] = 0 \/ unflushed[call[c].on]
                              \/ \E d \in Callers \ {c} : Flushing(d, call[c].on)
                        /\ call[c].at = "panicked" => raced[call[c].on]
      BY DEF ShutdownIsHonest
    <2>1. CASE call[c].at = "returned"
      <3>1. call[c].on \in Providers /\ ~shutdown[call[c].on]
        BY <2>1 DEF TracerInv, CallInv
      <3>2. CASE provider[call[c].on] = "enabled"
        BY <2>1, <3>1, <3>2 DEF TracerInv, CallInv, Field, Flushing
      <3>3. CASE provider[call[c].on] # "enabled"
        BY <2>1, <3>1, <3>3 DEF TracerInv, CallInv, TracingInv, Construction, Fresh
      <3> QED
        BY <3>2, <3>3
    <2> QED
      BY <2>1 DEF TracerInv, Race
  <1> QED
    BY <1>1, TracerInvariance, PTL

-----------------------------------------------------------------------------
(* Upload                                                                  *)

Named == {n \in ObjectKeys : upload[n].name # 0}

Past(n, ats) == upload[n].at \in ats
Decoded == {"decoded", "signed in", "stored", "returned"}
HasType == Decoded \cup {"typed"}
HasName == HasType \cup {"named"}

Made(n) == LET u == upload[n] IN
    /\ Past(n, HasName \cup {"extended"}) =>
          u.extension = getExtension(u.src.subtype) /\ u.extension # Unknown
    /\ Past(n, HasType) => u.object.type = setDefaultContentType(u.extension)
    /\ Past(n, Decoded) =>
          u.object.data = IF u.src.comma THEN u.src.payload ELSE ItsHeader
    /\ Past(n, Decoded) => u.object \in Objects
    /\ u.at # "panicked"

Uploads == [at : {"idle", "extended", "named", "typed", "decoded", "signed in",
                  "stored", "returned", "failed", "panicked"},
            src : Sources, extension : FileExtensions \cup {Unknown}, name : 0..MaxUploads,
            object : [type : ContentTypes \cup {Unknown}, data : Payloads \cup {ItsHeader, Garbled}]]

Naming ==
    /\ uuids = Cardinality(Named)
    /\ \A n \in ObjectKeys : upload[n].name <= uuids
    /\ \A n \in ObjectKeys : Past(n, {"idle", "extended"}) => upload[n].name = 0
    /\ \A n \in ObjectKeys : Past(n, HasName) => upload[n].name # 0
    /\ \A n, m \in ObjectKeys : n # m /\ upload[n].name = upload[m].name => upload[n].name = 0

Stored ==
    /\ \A n \in ObjectKeys : Past(n, {"stored", "returned"}) => bucket[upload[n].name] = upload[n].object
    /\ \A k \in ObjectKeys : bucket[k] # NoObject =>
          \E n \in ObjectKeys : /\ upload[n].name = k /\ bucket[k] = upload[n].object
                                /\ Past(n, {"stored", "returned", "failed"})

UploadInv ==
    /\ upload \in [ObjectKeys -> Uploads]
    /\ bucket \in [ObjectKeys -> Objects \cup {NoObject}]
    /\ uuids \in 0..MaxUploads
    /\ \A n \in ObjectKeys : Made(n)
    /\ Naming
    /\ Stored

USE MaxUploadsAssumption

-----------------------------------------------------------------------------
(* The two tables                                                          *)

(* aws.go:80-111: only jpeg and jpg share an extension.                    *)
LEMMA ExtensionTells ==
    ASSUME NEW s \in Subtypes, NEW t \in Subtypes,
           getExtension(s) = getExtension(t), getExtension(s) # Unknown
    PROVE  s = t \/ {s, t} = {"jpeg", "jpg"}
  <1>1. s # "no slash" /\ s # "other" /\ t # "no slash" /\ t # "other"
    BY DEF getExtension, Unknown
  <1>2. CASE s \in {"jpeg", "jpg"}
    <2>1. getExtension(t) = "jpeg"
      BY <1>2 DEF getExtension
    <2>2. t \in {"jpeg", "jpg"}
      BY <1>1, <2>1 DEF getExtension, Subtypes
    <2> QED
      BY <1>2, <2>2
  <1>3. CASE s = "plain"
    <2>1. getExtension(t) = "txt"
      BY <1>3 DEF getExtension
    <2> QED
      BY <1>1, <1>3, <2>1 DEF getExtension, Subtypes
  <1>4. CASE s \notin {"jpeg", "jpg", "plain"}
    <2>1. getExtension(t) = s
      BY <1>1, <1>4 DEF getExtension
    <2> QED
      BY <1>1, <1>4, <2>1 DEF getExtension, Subtypes
  <1> QED
    BY <1>2, <1>3, <1>4

LEMMA ExtensionIn ==
    ASSUME NEW s \in Subtypes
    PROVE  getExtension(s) \in FileExtensions \cup {Unknown}
  BY DEF Subtypes, getExtension, FileExtensions, Unknown

(* aws.go:130-155: every extension has a type, and no two the same.        *)
LEMMA TypeIn ==
    ASSUME NEW e \in FileExtensions
    PROVE  setDefaultContentType(e) \in ContentTypes /\ setDefaultContentType(e) # Unknown
  BY DEF FileExtensions, setDefaultContentType, ContentTypes, MimeTypes, Unknown

LEMMA TypeTells ==
    ASSUME NEW e \in FileExtensions, NEW f \in FileExtensions,
           setDefaultContentType(e) = setDefaultContentType(f)
    PROVE  e = f
  BY DEF FileExtensions, setDefaultContentType, MimeTypes

LEMMA MimeTable ==
    /\ setDefaultContentType("jpeg") = "image/jpeg" /\ setDefaultContentType("png") = "image/png"
    /\ setDefaultContentType("gif") = "image/gif" /\ setDefaultContentType("bmp") = "image/bmp"
    /\ setDefaultContentType("webp") = "image/webp" /\ setDefaultContentType("tiff") = "image/tiff"
    /\ setDefaultContentType("pdf") = "application/pdf" /\ setDefaultContentType("txt") = "text/plain"
    /\ setDefaultContentType("zip") = "application/zip" /\ setDefaultContentType("mp4") = "video/mp4"
  BY DEF setDefaultContentType, MimeTypes

LEMMA KindKept ==
    ASSUME NEW s \in Subtypes, getExtension(s) # Unknown
    PROVE  setDefaultContentType(getExtension(s)) \in TypeSent(s)
  <1>1. s # "no slash" /\ s # "other"
    BY DEF getExtension, Unknown
  <1>2. CASE s = "pdf"
    BY <1>2, MimeTable DEF getExtension, TypeSent
  <1>3. CASE s = "zip"
    BY <1>3, MimeTable DEF getExtension, TypeSent
  <1>4. CASE s = "mp4"
    BY <1>4, MimeTable DEF getExtension, TypeSent
  <1>5. CASE s = "plain"
    BY <1>5, MimeTable DEF getExtension, TypeSent
  <1>6. CASE s \in {"jpeg", "jpg"}
    <2>1. getExtension(s) = "jpeg"
      BY <1>6 DEF getExtension
    <2> QED
      BY <1>6, <2>1, MimeTable, TypeIn DEF FileExtensions, TypeSent
  <1>7. CASE s \in {"png", "gif", "bmp", "webp", "tiff"}
    <2>1. getExtension(s) = s
      BY <1>7 DEF getExtension
    <2>2. setDefaultContentType(s) \in {"image/png", "image/gif", "image/bmp", "image/webp", "image/tiff"}
      BY <1>7, MimeTable
    <2>3. setDefaultContentType(s) \in ContentTypes
      BY <1>7, TypeIn DEF FileExtensions
    <2> QED
      BY <1>7, <2>1, <2>2, <2>3 DEF TypeSent
  <1> QED
    BY <1>1, <1>2, <1>3, <1>4, <1>5, <1>6, <1>7 DEF Subtypes

-----------------------------------------------------------------------------
(* Init, and the steps                                                     *)

LEMMA UploadInitInv == UploadInit => UploadInv
  <1> SUFFICES ASSUME UploadInit
               PROVE  UploadInv
    OBVIOUS
  <1> USE DEF UploadInit
  <1>1. upload \in [ObjectKeys -> Uploads] /\ bucket \in [ObjectKeys -> Objects \cup {NoObject}]
    <2>1. NoSource \in Sources
      BY DEF NoSource, Sources, Subtypes
    <2>2. NoObject \in [type : ContentTypes \cup {Unknown}, data : Payloads \cup {ItsHeader, Garbled}]
      BY DEF NoObject
    <2>3. NoUpload \in Uploads
      BY <2>1, <2>2 DEF NoUpload, Uploads
    <2> QED
      BY <2>3
  <1>2. \A n \in ObjectKeys : Made(n)
    BY DEF Made, Past, HasName, HasType, Decoded, NoUpload
  <1>3. Naming
    <2>1. Named = {}
      BY DEF Named, NoUpload
    <2> QED
      <3>1. \A n \in ObjectKeys : upload[n].name = 0 /\ upload[n].at = "idle"
        BY DEF NoUpload
      <3>2. uuids = 0 /\ Cardinality(Named) = 0
        BY <2>1, FS_EmptySet
      <3> HIDE DEF UploadInit
      <3>3. \A n \in ObjectKeys : ~Past(n, HasName)
        BY <3>1 DEF Past, HasName, HasType, Decoded
      <3>4. \A n \in ObjectKeys : upload[n].name <= uuids
        BY <3>1, <3>2
      <3> QED
        BY <3>1, <3>2, <3>3, <3>4 DEF Naming
  <1>4. Stored
    BY DEF Stored, Past, NoUpload
  <1> QED
    BY <1>1, <1>2, <1>3, <1>4 DEF UploadInv

LEMMA NameIn ==
    ASSUME UploadInv, NEW n \in ObjectKeys
    PROVE  /\ upload[n].name \in Nat /\ upload[n].name <= uuids
           /\ upload[n].name # 0 => upload[n].name \in ObjectKeys
  <1>1. upload[n] \in Uploads
    BY DEF UploadInv
  <1>2. upload[n].name \in 0..MaxUploads
    BY <1>1 DEF Uploads
  <1> QED
    BY <1>2 DEF UploadInv, Naming, ObjectKeys

(* A step of one call that gives no name and stores nothing.               *)
LEMMA QuietStep ==
    ASSUME UploadInv, NEW n \in ObjectKeys, NEW v \in Uploads,
           upload' = [upload EXCEPT ![n] = v], UNCHANGED <<bucket, uuids>>,
           v.name = upload[n].name,
           v.at \in HasName => upload[n].at \in HasName,
           v.at \in {"idle", "extended"} => upload[n].at \in {"idle", "extended"},
           v.at \in {"stored", "returned"} => upload[n].at \in {"stored", "returned"},
           upload[n].at \in {"stored", "returned", "failed"} =>
              v.at \in {"stored", "returned", "failed"} /\ v.object = upload[n].object,
           Made(n)'
    PROVE  UploadInv'
  <1>1. /\ upload' \in [ObjectKeys -> Uploads] /\ upload'[n] = v
        /\ \A m \in ObjectKeys \ {n} : upload'[m] = upload[m]
    BY DEF UploadInv
  <1>2. \A m \in ObjectKeys : upload'[m].name = upload[m].name
    BY <1>1
  <1>3. \A m \in ObjectKeys : Made(m)'
    BY <1>1 DEF UploadInv, Made, Past
  <1>4. Naming'
    <2>1. Named' = Named
      BY <1>2 DEF Named
    <2> QED
      BY <1>1, <1>2, <2>1 DEF UploadInv, Naming, Past
  <1>5. Stored'
    <2>1. ASSUME NEW m \in ObjectKeys, Past(m, {"stored", "returned"})'
          PROVE  bucket[upload'[m].name] = upload'[m].object
      BY <1>1, <2>1 DEF UploadInv, Stored, Past
    <2>2. ASSUME NEW k \in ObjectKeys, bucket[k] # NoObject
          PROVE  \E m \in ObjectKeys : /\ upload'[m].name = k /\ bucket[k] = upload'[m].object
                                       /\ Past(m, {"stored", "returned", "failed"})'
      <3>1. PICK m \in ObjectKeys : /\ upload[m].name = k /\ bucket[k] = upload[m].object
                                    /\ Past(m, {"stored", "returned", "failed"})
        BY <2>2 DEF UploadInv, Stored
      <3> QED
        BY <1>1, <3>1 DEF Past
    <2> QED
      BY <2>1, <2>2 DEF Stored
  <1> QED
    BY <1>1, <1>3, <1>4, <1>5 DEF UploadInv

LEMMA FailStep ==
    ASSUME UploadInv, NEW n \in ObjectKeys, FailsAt(n, upload[n].at)
    PROVE  UploadInv'
  <1> DEFINE v == [upload[n] EXCEPT !.at = "failed"]
  <1>1. upload[n] \in Uploads
    BY DEF UploadInv
  <1>2. /\ v \in Uploads /\ v.at = "failed" /\ v.name = upload[n].name
        /\ v.object = upload[n].object
    BY <1>1 DEF Uploads
  <1>3. upload' = [upload EXCEPT ![n] = v] /\ UNCHANGED <<bucket, uuids>>
    BY DEF FailsAt, Reaches
  <1> HIDE DEF v
  <1>4. upload'[n].at = "failed"
    BY <1>2, <1>3 DEF UploadInv
  <1>5. Made(n)'
    BY <1>4 DEF Made, Past, HasName, HasType, Decoded
  <1> QED
    BY <1>2, <1>3, <1>5, QuietStep DEF HasName, HasType, Decoded

LEMMA UploadCallStep ==
    ASSUME UploadInv, NEW n \in ObjectKeys, NEW src \in Sources, CallUpload(n, src)
    PROVE  UploadInv'
  <1> DEFINE e == getExtension(src.subtype)
             v == [upload[n] EXCEPT !.src = src, !.extension = e,
                                    !.at = IF e = Unknown THEN "failed" ELSE "extended"]
  <1>1. upload[n] \in Uploads /\ upload[n].at = "idle"
    BY DEF UploadInv, CallUpload, IsAt
  <1>2. upload' = [upload EXCEPT ![n] = v] /\ UNCHANGED <<bucket, uuids>>
    BY DEF CallUpload
  <1>3. e \in FileExtensions \cup {Unknown}
    BY ExtensionIn DEF Sources
  <1>4. /\ v \in Uploads /\ v.src = src /\ v.extension = e /\ v.name = upload[n].name
        /\ v.at = IF e = Unknown THEN "failed" ELSE "extended"
    <2> HIDE DEF e
    <2> QED
      BY <1>1, <1>3 DEF Uploads
  <1>5. e = getExtension(v.src.subtype)
    BY <1>4
  <1> HIDE DEF v, e
  <1>6. upload'[n] = v
    BY <1>2, <1>4 DEF UploadInv
  <1>7. Made(n)'
    BY <1>4, <1>5, <1>6 DEF Made, Past, HasName, HasType, Decoded
  <1> QED
    BY <1>1, <1>2, <1>4, <1>7, QuietStep DEF HasName, HasType, Decoded

LEMMA TypeSetStep ==
    ASSUME UploadInv, NEW n \in ObjectKeys, TypeSet(n)
    PROVE  UploadInv'
  <1> DEFINE u == upload[n]
             type == setDefaultContentType(u.extension)
             v == [u EXCEPT !.object.type = type,
                            !.at = IF type = Unknown THEN "panicked" ELSE "typed"]
  <1>1. u \in Uploads /\ u.at = "named" /\ Made(n)
    BY DEF UploadInv, TypeSet, IsAt
  <1>2. u.extension \in FileExtensions /\ u.extension = getExtension(u.src.subtype)
    BY <1>1 DEF Made, Past, HasName, Uploads
  <1>3. type \in ContentTypes /\ type # Unknown
    BY <1>2, TypeIn
  <1>4. upload' = [upload EXCEPT ![n] = v] /\ UNCHANGED <<bucket, uuids>>
    BY DEF TypeSet
  <1> HIDE DEF type
  <1>5. [u.object EXCEPT !.type = type] \in
            [type : ContentTypes \cup {Unknown}, data : Payloads \cup {ItsHeader, Garbled}]
    BY <1>1, <1>3 DEF Uploads
  <1>6. v = [[u EXCEPT !.object = [u.object EXCEPT !.type = type]] EXCEPT !.at = "typed"]
    BY <1>1, <1>3 DEF Uploads
  <1>7. [u.object EXCEPT !.type = type].type = type
    BY <1>1 DEF Uploads
  <1> DEFINE o == [u.object EXCEPT !.type = type]
  <1> HIDE DEF u, v, o
  <1>8. /\ v \in Uploads /\ v.at = "typed" /\ v.name = u.name /\ v.src = u.src
        /\ v.extension = u.extension /\ v.object = o
    BY <1>1, <1>5, <1>6 DEF Uploads, o
  <1>9. upload'[n] = v
    BY <1>4, <1>8 DEF UploadInv
  <1>10. o.type = setDefaultContentType(u.extension)
    BY <1>7 DEF o, type
  <1>11. u.extension # Unknown /\ u.extension = getExtension(u.src.subtype)
    BY <1>1, <1>2 DEF Made, Past, HasName, u
  <1>12. Made(n)'
    BY <1>8, <1>9, <1>10, <1>11 DEF Made, Past, HasName, HasType, Decoded
  <1> QED
    BY <1>1, <1>4, <1>8, <1>12, QuietStep DEF HasName, HasType, Decoded, u

LEMMA DecodeStep ==
    ASSUME UploadInv, NEW n \in ObjectKeys, Decode(n)
    PROVE  UploadInv'
  <1>1. CASE FailsAt(n, "typed")
    BY <1>1, FailStep DEF FailsAt, IsAt
  <1> DEFINE u == upload[n]
             data == IF u.src.comma THEN u.src.payload ELSE ItsHeader
             v == [u EXCEPT !.object.data = data, !.at = "decoded"]
  <1>2. CASE /\ IsAt(n, "typed")
             /\ ~u.src.comma \/ u.src.payload # Garbled
             /\ upload' = [upload EXCEPT ![n] = v]
             /\ UNCHANGED <<bucket, uuids>>
    <2>1. u \in Uploads /\ u.at = "typed" /\ Made(n)
      BY <1>2 DEF UploadInv, IsAt
    <2>2. data \in Payloads \cup {ItsHeader}
      BY <1>2, <2>1 DEF Uploads, Sources
    <2> HIDE DEF data
    <2>3. [u.object EXCEPT !.data = data] \in
              [type : ContentTypes \cup {Unknown}, data : Payloads \cup {ItsHeader, Garbled}]
      BY <2>1, <2>2 DEF Uploads
    <2>4. v = [[u EXCEPT !.object = [u.object EXCEPT !.data = data]] EXCEPT !.at = "decoded"]
      BY <2>1 DEF Uploads
    <2>5. u.extension \in FileExtensions /\ u.object.type \in ContentTypes
      BY <2>1, TypeIn DEF Made, Past, HasName, HasType, Uploads
    <2>6. /\ [u.object EXCEPT !.data = data].data = data
          /\ [u.object EXCEPT !.data = data].type = u.object.type
          /\ [u.object EXCEPT !.data = data] \in Objects
      BY <2>1, <2>2, <2>5 DEF Uploads, Objects
    <2> DEFINE o == [u.object EXCEPT !.data = data]
    <2> HIDE DEF u, v, o
    <2>7. /\ v \in Uploads /\ v.at = "decoded" /\ v.name = u.name /\ v.src = u.src
          /\ v.extension = u.extension /\ v.object = o
      BY <2>1, <2>3, <2>4 DEF Uploads, o
    <2>8. upload'[n] = v
      BY <1>2, <2>7 DEF UploadInv
    <2>9. Made(n)'
      BY <2>1, <2>6, <2>7, <2>8 DEF Made, Past, HasName, HasType, Decoded, o, u, data
    <2> QED
      BY <1>2, <2>1, <2>7, <2>9, QuietStep DEF HasName, HasType, Decoded, u
  <1> QED
    BY <1>1, <1>2 DEF Decode

(* A step that only goes on.                                               *)
LEMMA GoOnStep ==
    ASSUME UploadInv, NEW n \in ObjectKeys, NEW at, Reaches(n, at), UNCHANGED <<bucket, uuids>>,
           \/ IsAt(n, "decoded") /\ at = "signed in"
           \/ IsAt(n, "stored") /\ at = "returned"
    PROVE  UploadInv'
  <1> DEFINE u == upload[n]
             v == [u EXCEPT !.at = at]
  <1>1. u \in Uploads /\ Made(n) /\ upload' = [upload EXCEPT ![n] = v]
    BY DEF UploadInv, Reaches
  <1>2. /\ v \in Uploads /\ v.at = at /\ v.name = u.name /\ v.src = u.src
        /\ v.extension = u.extension /\ v.object = u.object
    BY <1>1 DEF Uploads
  <1> HIDE DEF v
  <1>3. upload'[n] = v
    BY <1>1, <1>2 DEF UploadInv
  <1>4. Made(n)'
    BY <1>1, <1>2, <1>3 DEF Made, Past, HasName, HasType, Decoded, IsAt
  <1> QED
    BY <1>1, <1>2, <1>4, QuietStep DEF HasName, HasType, Decoded, IsAt

(* The step that gives a name: it is fresh, and there is one left.         *)
LEMMA NameStep ==
    ASSUME UploadInv, NEW n \in ObjectKeys, setDefaultFileName(n)
    PROVE  UploadInv'
  <1> DEFINE u == upload[n]
             name == uuids + 1
             v == [u EXCEPT !.name = name, !.at = "named"]
  <1>1. u \in Uploads /\ Made(n) /\ u.at = "extended" /\ Naming /\ Stored /\ uuids \in Nat
    BY DEF UploadInv, setDefaultFileName, IsAt
  <1>2. upload' = [upload EXCEPT ![n] = v] /\ uuids' = name /\ UNCHANGED bucket
    BY DEF setDefaultFileName, NewUuid
  <1>3. u.name = 0
    BY <1>1 DEF Naming, Past
  <1>4. Cardinality(Named \cup {n}) = name /\ name <= MaxUploads
    <2>1. IsFiniteSet(ObjectKeys) /\ Cardinality(ObjectKeys) = MaxUploads
      BY FS_Interval DEF ObjectKeys
    <2>2. Named \in SUBSET ObjectKeys /\ n \notin Named
      BY <1>3 DEF Named
    <2>3. IsFiniteSet(Named)
      BY <2>1, <2>2, FS_Subset
    <2>4. Cardinality(Named \cup {n}) = name
      BY <1>1, <2>2, <2>3, FS_AddElement DEF Naming
    <2>5. Named \cup {n} \in SUBSET ObjectKeys
      BY <2>2
    <2>6. Cardinality(Named \cup {n}) <= MaxUploads
      BY <2>1, <2>5, FS_Subset
    <2> QED
      BY <2>4, <2>6
  <1>5. name \in 1..MaxUploads
    BY <1>1, <1>4
  <1> HIDE DEF name
  <1>6. /\ v \in Uploads /\ v.at = "named" /\ v.name = name /\ v.src = u.src
        /\ v.extension = u.extension
    <2>1. v = [[u EXCEPT !.name = name] EXCEPT !.at = "named"] /\ name \in 0..MaxUploads
      BY <1>5
    <2> HIDE DEF u, v
    <2> QED
      BY <1>1, <2>1 DEF Uploads
  <1> HIDE DEF v
  <1>7. /\ upload' \in [ObjectKeys -> Uploads] /\ upload'[n] = v
        /\ \A m \in ObjectKeys \ {n} : upload'[m] = upload[m]
    BY <1>2, <1>6 DEF UploadInv
  <1>8. \A m \in ObjectKeys : Made(m)'
    <2>1. Made(n)'
      BY <1>1, <1>6, <1>7 DEF Made, Past, HasName, HasType, Decoded
    <2>2. \A m \in ObjectKeys \ {n} : Made(m)'
      BY <1>7 DEF UploadInv, Made, Past
    <2> QED
      BY <2>1, <2>2
  <1>9. \A m \in ObjectKeys : upload[m].name \in Nat /\ upload[m].name < name
    BY <1>1, NameIn DEF name
  <1>10. Naming'
    <2>1. Named' = Named \cup {n}
      BY <1>5, <1>6, <1>7 DEF Named
    <2>2. \A m \in ObjectKeys : upload'[m].name <= name
      BY <1>5, <1>6, <1>7, <1>9
    <2>3. \A m \in ObjectKeys : /\ Past(m, {"idle", "extended"})' => upload'[m].name = 0
                                /\ Past(m, HasName)' => upload'[m].name # 0
      BY <1>1, <1>5, <1>6, <1>7 DEF Naming, Past
    <2>4. \A m, k \in ObjectKeys : m # k /\ upload'[m].name = upload'[k].name => upload'[m].name = 0
      BY <1>1, <1>5, <1>6, <1>7, <1>9 DEF Naming
    <2> QED
      BY <1>2, <1>4, <2>1, <2>2, <2>3, <2>4 DEF Naming, HasName, HasType, Decoded
  <1>11. Stored'
    <2>1. \A m \in ObjectKeys : Past(m, {"stored", "returned"})' =>
              bucket[upload'[m].name] = upload'[m].object
      BY <1>1, <1>6, <1>7 DEF Stored, Past
    <2>2. ASSUME NEW k \in ObjectKeys, bucket[k] # NoObject
          PROVE  \E m \in ObjectKeys : /\ upload'[m].name = k /\ bucket[k] = upload'[m].object
                                       /\ Past(m, {"stored", "returned", "failed"})'
      <3>1. PICK m \in ObjectKeys : /\ upload[m].name = k /\ bucket[k] = upload[m].object
                                    /\ Past(m, {"stored", "returned", "failed"})
        BY <1>1, <2>2 DEF Stored
      <3>2. m # n
        BY <1>1, <3>1 DEF Past
      <3> QED
        BY <1>7, <3>1, <3>2 DEF Past
    <2> QED
      BY <1>2, <2>1, <2>2 DEF Stored
  <1> QED
    BY <1>2, <1>5, <1>7, <1>8, <1>10, <1>11 DEF UploadInv

(* The step that stores: under a name nobody else has.                     *)
LEMMA PutStep ==
    ASSUME UploadInv, NEW n \in ObjectKeys, IsAt(n, "signed in"),
           bucket' = [bucket EXCEPT ![upload[n].name] = upload[n].object],
           Reaches(n, "stored") \/ Reaches(n, "failed"), UNCHANGED uuids
    PROVE  UploadInv'
  <1> DEFINE u == upload[n]
  <1>1. PICK at \in {"stored", "failed"} : upload' = [upload EXCEPT ![n] = [u EXCEPT !.at = at]]
    BY DEF Reaches
  <1> DEFINE v == [u EXCEPT !.at = at]
  <1>2. /\ u \in Uploads /\ Made(n) /\ u.at = "signed in" /\ Naming /\ Stored
        /\ bucket \in [ObjectKeys -> Objects \cup {NoObject}]
    BY DEF UploadInv, IsAt
  <1>3. /\ v \in Uploads /\ v.at = at /\ v.name = u.name /\ v.src = u.src
        /\ v.extension = u.extension /\ v.object = u.object
    BY <1>2 DEF Uploads
  <1>4. upload' = [upload EXCEPT ![n] = v]
    BY <1>1
  <1>5. u.object \in Objects /\ u.name \in ObjectKeys
    <2>1. u.name # 0 /\ u.object \in Objects
      BY <1>2 DEF Naming, Made, Past, HasName, HasType, Decoded
    <2> QED
      BY <2>1, NameIn
  <1> HIDE DEF v
  <1>6. /\ upload' \in [ObjectKeys -> Uploads] /\ upload'[n] = v
        /\ \A m \in ObjectKeys \ {n} : upload'[m] = upload[m]
    BY <1>3, <1>4 DEF UploadInv
  <1>7. /\ bucket' \in [ObjectKeys -> Objects \cup {NoObject}] /\ bucket'[u.name] = u.object
        /\ \A k \in ObjectKeys \ {u.name} : bucket'[k] = bucket[k]
    BY <1>2, <1>5
  <1>8. \A m \in ObjectKeys : Made(m)'
    <2>1. Made(n)'
      BY <1>1, <1>2, <1>3, <1>6 DEF Made, Past, HasName, HasType, Decoded
    <2>2. \A m \in ObjectKeys \ {n} : Made(m)'
      BY <1>6 DEF UploadInv, Made, Past
    <2> QED
      BY <2>1, <2>2
  <1>9. \A m \in ObjectKeys : upload'[m].name = upload[m].name
    BY <1>3, <1>6
  <1>10. Naming'
    <2>1. Named' = Named
      BY <1>9 DEF Named
    <2>2. \A m \in ObjectKeys :
              /\ Past(m, HasName)' => upload[m].name # 0
              /\ Past(m, {"idle", "extended"})' => upload[m].name = 0
      <3>1. /\ Past(n, HasName) /\ ~Past(n, {"idle", "extended"})'
        BY <1>1, <1>2, <1>3, <1>6 DEF Past, HasName, HasType, Decoded
      <3>2. \A m \in ObjectKeys \ {n} : upload'[m].at = upload[m].at
        BY <1>6
      <3> HIDE DEF u, HasName
      <3> QED
        BY <1>2, <3>1, <3>2 DEF Naming, Past
    <2> HIDE DEF u
    <2> QED
      BY <1>2, <1>9, <2>1, <2>2 DEF Naming
  <1>11. Stored'
    <2>1. ASSUME NEW m \in ObjectKeys \ {n}, Past(m, {"stored", "returned"})'
          PROVE  bucket'[upload'[m].name] = upload'[m].object
      <3>1. Past(m, {"stored", "returned"}) /\ Past(m, HasName)
        BY <1>6, <2>1 DEF Past, HasName, HasType, Decoded
      <3>2. bucket[upload[m].name] = upload[m].object /\ upload[m].name # 0
        BY <1>2, <3>1 DEF Stored, Naming
      <3>3. upload[m].name \in ObjectKeys
        BY <3>2, NameIn
      <3>4. upload[m].name # u.name
        BY <1>2, <3>2 DEF Naming
      <3> HIDE DEF u
      <3> QED
        BY <1>6, <1>7, <3>2, <3>3, <3>4
    <2>2. bucket'[upload'[n].name] = upload'[n].object
      BY <1>3, <1>6, <1>7
    <2>3. ASSUME NEW k \in ObjectKeys, bucket'[k] # NoObject
          PROVE  \E m \in ObjectKeys : /\ upload'[m].name = k /\ bucket'[k] = upload'[m].object
                                       /\ Past(m, {"stored", "returned", "failed"})'
      <3>1. CASE k = u.name
        BY <1>1, <1>3, <1>6, <1>7, <3>1 DEF Past
      <3>2. CASE k # u.name
        <4>1. PICK m \in ObjectKeys : /\ upload[m].name = k /\ bucket[k] = upload[m].object
                                      /\ Past(m, {"stored", "returned", "failed"})
          BY <1>2, <1>7, <2>3, <3>2 DEF Stored
        <4> QED
          BY <1>6, <1>7, <3>2, <4>1 DEF Past
      <3> QED
        BY <3>1, <3>2
    <2> QED
      BY <2>1, <2>2, <2>3 DEF Stored
  <1> QED
    BY <1>6, <1>7, <1>8, <1>10, <1>11 DEF UploadInv

-----------------------------------------------------------------------------

THEOREM UploadInvariance == UploadSpec => []UploadInv
  <1>1. ASSUME UploadInv, [UploadNext]_uploadVars
        PROVE  UploadInv'
    <2>1. CASE UNCHANGED uploadVars
      BY <1>1, <2>1 DEF uploadVars, UploadInv, Made, Naming, Named, Stored, Past
    <2>2. ASSUME NEW n \in ObjectKeys, NEW src \in Sources, CallUpload(n, src)
          PROVE  UploadInv'
      BY <1>1, <2>2, UploadCallStep
    <2>3. ASSUME NEW n \in ObjectKeys, setDefaultFileName(n)
          PROVE  UploadInv'
      BY <1>1, <2>3, NameStep
    <2>4. ASSUME NEW n \in ObjectKeys, TypeSet(n)
          PROVE  UploadInv'
      BY <1>1, <2>4, TypeSetStep
    <2>5. ASSUME NEW n \in ObjectKeys, Decode(n)
          PROVE  UploadInv'
      BY <1>1, <2>5, DecodeStep
    <2>6. ASSUME NEW n \in ObjectKeys, NEW at, FailsAt(n, at)
          PROVE  UploadInv'
      <3>1. FailsAt(n, upload[n].at)
        BY <2>6 DEF FailsAt, IsAt
      <3> QED
        BY <1>1, <3>1, FailStep
    <2>7. ASSUME NEW n \in ObjectKeys, GetCredentials(n)
          PROVE  UploadInv'
      <3>1. CASE FailsAt(n, "decoded")
        BY <2>6, <3>1
      <3>2. CASE IsAt(n, "decoded") /\ Reaches(n, "signed in") /\ UNCHANGED <<bucket, uuids>>
        BY <1>1, <3>2, GoOnStep
      <3> QED
        BY <2>7, <3>1, <3>2 DEF GetCredentials
    <2>8. ASSUME NEW n \in ObjectKeys, PutObject(n)
          PROVE  UploadInv'
      <3>1. CASE FailsAt(n, "signed in")
        BY <2>6, <3>1
      <3>2. CASE ~FailsAt(n, "signed in")
        BY <1>1, <2>8, <3>2, PutStep DEF PutObject
      <3> QED
        BY <3>1, <3>2
    <2>9. ASSUME NEW n \in ObjectKeys, Presign(n)
          PROVE  UploadInv'
      <3>1. CASE FailsAt(n, "stored")
        BY <2>6, <3>1
      <3>2. CASE IsAt(n, "stored") /\ Reaches(n, "returned") /\ UNCHANGED <<bucket, uuids>>
        BY <1>1, <3>2, GoOnStep
      <3> QED
        BY <2>9, <3>1, <3>2 DEF Presign
    <2> QED
      BY <1>1, <2>1, <2>2, <2>3, <2>4, <2>5, <2>7, <2>8, <2>9 DEF UploadNext
  <1> QED
    BY <1>1, UploadInitInv, PTL DEF UploadSpec

(* aws.go:117-119: there is always a name left for a call to take, and the *)
(* calls and the objects are of their types.                               *)
THEOREM UploadTypeCorrect == UploadSpec => []UploadTypeOK
  <1>1. UploadInv => UploadTypeOK
    <2> SUFFICES ASSUME UploadInv
                 PROVE  UploadTypeOK
      OBVIOUS
    <2>1. \A n \in ObjectKeys : upload[n] \in Uploads
      BY DEF UploadInv
    <2>2. ASSUME NEW n \in ObjectKeys
          PROVE  /\ upload[n].at \in {"idle", "extended", "named", "typed", "decoded", "signed in",
                                      "stored", "returned", "failed", "panicked"}
                 /\ upload[n].src \in Sources
                 /\ upload[n].extension \in FileExtensions \cup {Unknown}
                 /\ upload[n].name \in 0..MaxUploads
      BY <2>1 DEF Uploads
    <2> QED
      BY <2>2 DEF UploadInv, UploadTypeOK
  <1> QED
    BY <1>1, UploadInvariance, PTL

(* aws.go:181-232: what a returned URL names has the data sent and a type  *)
(* of its kind, is nobody else's, and an object without a URL is that of a *)
(* call that sent it.                                                      *)
THEOREM UrlsNameThem == UploadSpec => []UrlsNameTheirObjects
  <1>1. UploadInv => UrlsNameTheirObjects
    <2> SUFFICES ASSUME UploadInv
                 PROVE  UrlsNameTheirObjects
      OBVIOUS
    <2>1. ASSUME NEW n \in ObjectKeys, upload[n].at = "returned"
          PROVE  LET u == upload[n] IN
                 /\ u.src.subtype \in Subtypes /\ getExtension(u.src.subtype) # Unknown
                 /\ getExtension(u.src.subtype) \in FileExtensions
                 /\ bucket[u.name] = u.object
                 /\ u.object.type = setDefaultContentType(getExtension(u.src.subtype))
                 /\ u.object.data = IF u.src.comma THEN u.src.payload ELSE ItsHeader
                 /\ Past(n, HasName) /\ u.name # 0
      <3>1. Past(n, HasName) /\ Past(n, HasType) /\ Past(n, Decoded) /\ Past(n, {"stored", "returned"})
        BY <2>1 DEF Past, HasName, HasType, Decoded
      <3>2. Past(n, HasName \cup {"extended"})
        BY <3>1 DEF Past
      <3>3. upload[n] \in Uploads /\ Made(n) /\ Naming /\ Stored
        BY DEF UploadInv
      <3>4. upload[n].src.subtype \in Subtypes
        BY <3>3 DEF Uploads, Sources
      <3>5. /\ upload[n].extension = getExtension(upload[n].src.subtype)
            /\ upload[n].extension # Unknown
            /\ upload[n].object.type = setDefaultContentType(upload[n].extension)
            /\ upload[n].object.data =
                  IF upload[n].src.comma THEN upload[n].src.payload ELSE ItsHeader
        BY <3>1, <3>2, <3>3 DEF Made
      <3>6. bucket[upload[n].name] = upload[n].object /\ upload[n].name # 0
        BY <3>1, <3>3 DEF Naming, Stored
      <3> QED
        BY <3>1, <3>4, <3>5, <3>6, ExtensionIn
    <2>2. ASSUME NEW n \in ObjectKeys
          PROVE  /\ upload[n].at # "panicked"
                 /\ upload[n].at = "returned" =>
                       /\ bucket[upload[n].name].type \in TypeSent(upload[n].src.subtype)
                       /\ bucket[upload[n].name].data =
                             IF upload[n].src.comma THEN upload[n].src.payload ELSE ItsHeader
      <3>1. upload[n].at # "panicked"
        BY DEF UploadInv, Made
      <3>2. ASSUME upload[n].at = "returned"
            PROVE  bucket[upload[n].name].type \in TypeSent(upload[n].src.subtype)
        BY <2>1, <3>2, KindKept
      <3> QED
        BY <2>1, <3>1, <3>2
    <2>3. ASSUME NEW n \in ObjectKeys, NEW m \in ObjectKeys,
                 upload[n].at = "returned", upload[m].at = "returned", n # m
          PROVE  /\ upload[n].name # upload[m].name
                 /\ bucket[upload[n].name].type = bucket[upload[m].name].type =>
                       \/ upload[n].src.subtype = upload[m].src.subtype
                       \/ {upload[n].src.subtype, upload[m].src.subtype} = {"jpeg", "jpg"}
      <3>1. upload[n].name # upload[m].name
        BY <2>1, <2>3 DEF UploadInv, Naming
      <3>2. ASSUME bucket[upload[n].name].type = bucket[upload[m].name].type
            PROVE  \/ upload[n].src.subtype = upload[m].src.subtype
                   \/ {upload[n].src.subtype, upload[m].src.subtype} = {"jpeg", "jpg"}
        <4>1. getExtension(upload[n].src.subtype) = getExtension(upload[m].src.subtype)
          BY <2>1, <2>3, <3>2, TypeTells
        <4> QED
          BY <2>1, <2>3, <4>1, ExtensionTells
      <3> QED
        BY <3>1, <3>2
    <2>4. ASSUME NEW k \in ObjectKeys, bucket[k] # NoObject
          PROVE  \E n \in ObjectKeys : /\ upload[n].name = k /\ bucket[k] = upload[n].object
                                       /\ upload[n].at \in {"stored", "returned", "failed"}
      BY <2>4 DEF UploadInv, Stored, Past
    <2> QED
      BY <2>2, <2>3, <2>4 DEF UrlsNameTheirObjects
  <1> QED
    BY <1>1, UploadInvariance, PTL

-----------------------------------------------------------------------------
(* ErrorTexts                                                              *)

LEMMA Least ==
  ASSUME NEW T \in SUBSET Nat, T # {}
  PROVE  \E x \in T : \A y \in T : x <= y
  <1> DEFINE R == {ss \in Nat \X Nat : ss[1] < ss[2]}
  <1>1. IsWellFoundedOn(R, Nat)
    BY NatLessThanWellFounded DEF OpToRel
  <1>2. PICK x \in T : \A y \in T : ~ (<<y, x>> \in R)
    <2> HIDE DEF R
    <2> QED
      BY <1>1, WFMin
  <1>3. ASSUME NEW y \in T
        PROVE  x <= y
    <2>1. x \in Nat /\ y \in Nat /\ (y < x => <<y, x>> \in R)
      OBVIOUS
    <2> HIDE DEF R
    <2> QED
      BY <1>2, <2>1
  <1> QED
    BY <1>3

TextWords == Keys \cup Values \cup {"of", "message", "about", "validation", "failed"} \cup ErrorCodes
                 \cup {"BAD_REQUEST", "UNAUTHORIZED", "FORBIDDEN", "NOT_FOUND", "CONFLICT",
                       "INTERNAL_SERVER_ERROR", "VALIDATION_FAILED"}
CodeMaps == One(ErrorCodes, {409, 422})
TextMaps == One(ErrorCodes, PartialMaps(supportedLanguages, Texts))
Registrations == [of : {"codes"}, map : CodeMaps] \cup [of : {"texts"}, map : TextMaps]
AnswerStatuses == {400, 401, 403, 404, 409, 422, 500}
TextAnswers ==
    [error : Errors, header : AcceptLanguages, status : AnswerStatuses,
     field : {"", "email"}, text : Seq(TextWords)]

TextTyped ==
    /\ registry \in PartialMaps(ErrorCodes, {409, 422})
    /\ translations \in PartialMaps(ErrorCodes, PartialMaps(supportedLanguages, Texts))
    /\ answering \in {"startup", "serving", "filling"}
    /\ answering # "filling" => answer = NoAnswer /\ unfilled = {}
    /\ answering = "filling" => answer \in TextAnswers /\ unfilled \subseteq DOMAIN answer.error.details
    /\ told \in Seq(Registrations) /\ Len(told) <= MaxRegistrations

(* The registries hold what was told last of each code.                    *)
AsTold ==
    \A code :
        /\ LastTold("codes", code) = IF code \in DOMAIN registry THEN {registry[code]} ELSE {}
        /\ LastTold("texts", code) = IF code \in DOMAIN translations THEN {translations[code]} ELSE {}

HasEmpty(e) == e.code = "" \/ \E k \in DOMAIN e.details : e.details[k] = ""

Plain(details) == \A k, l \in DOMAIN details : details[k] # l

(* The text is the template, with the details filled that had their turn.  *)
FilledSoFar ==
    LET details == answer.error.details
        template == Template(answer.error, ResolveLanguage(answer.header))
        filled == DOMAIN details \ unfilled
        text == answer.text
    IN  /\ DOMAIN text = DOMAIN template /\ template # <<>>
        /\ Plain(details) => \A i \in DOMAIN text :
              text[i] = IF template[i] \in filled THEN details[template[i]] ELSE template[i]
        /\ \A i \in DOMAIN text : text[i] \in filled => \E l \in DOMAIN details : details[l] = text[i]
        /\ Blank(text) => HasEmpty(answer.error)

TextIInv ==
    /\ TextTyped
    /\ AsTold
    /\ answering = "filling" =>
          /\ answer.status = Status(answer.error) /\ answer.field = answer.error.field
          /\ FilledSoFar

LEMMA LanguageIs ==
  ASSUME NEW header \in AcceptLanguages
  PROVE  ClientLanguages(header) = {ResolveLanguage(header)}
  <1> DEFINE I == {i \in 1..Len(header) : header[i] \in supportedLanguages}
             i == SelectInSeq(header, LAMBDA tag : tag \in supportedLanguages)
  <1>1. PICK n \in 0..MaxTags : header \in [1..n -> Tags]
    BY DEF AcceptLanguages
  <1>2. header \in Seq(Tags) /\ DOMAIN header = 1..Len(header)
    <2>1. n \in Nat
      BY MaxTagsAssumption
    <2>2. header \in Seq(Tags)
      BY <1>1, <2>1, SeqDef
    <2> QED
      BY <2>2, LenProperties
  <1>3. i = IF I # {} THEN CHOOSE x \in I : \A y \in I : x <= y ELSE 0
    BY DEF SelectInSeq, Min
  <1> DEFINE first == {header[k] : k \in {j \in DOMAIN header : FirstSupported(header, j)}}
  <1>0. ClientLanguages(header) = IF first = {} THEN {defaultLanguage} ELSE first
    BY DEF ClientLanguages
  <1>4. CASE I = {}
    <2>1. first = {}
      BY <1>2, <1>4 DEF FirstSupported
    <2>2. ResolveLanguage(header) = defaultLanguage
      BY <1>3, <1>4 DEF ResolveLanguage
    <2> HIDE DEF first
    <2> QED
      BY <1>0, <2>1, <2>2
  <1>5. CASE I # {}
    <2>1. I \in SUBSET Nat
      OBVIOUS
    <2>2. \E x \in I : \A y \in I : x <= y
      <3> HIDE DEF I
      <3> QED
        BY <1>5, <2>1, Least
    <2>3. i \in I /\ \A y \in I : i <= y
      <3> HIDE DEF I
      <3> QED
        BY <1>3, <1>5, <2>2
    <2>4. ResolveLanguage(header) = header[i]
      <3>1. i # 0
        BY <2>3
      <3> QED
        BY <3>1 DEF ResolveLanguage
    <2>5. ASSUME NEW j \in DOMAIN header
          PROVE  FirstSupported(header, j) <=> j = i
      <3>1. j \in 1..Len(header) /\ i \in 1..Len(header) /\ \A k \in DOMAIN header : k \in 1..Len(header)
        BY <1>2, <2>3
      <3>2. \A k \in DOMAIN header : k < i => header[k] \notin supportedLanguages
        <4> SUFFICES ASSUME NEW k \in DOMAIN header, k < i, header[k] \in supportedLanguages
                     PROVE  FALSE
          OBVIOUS
        <4>1. k \in I
          BY <3>1
        <4>2. i <= k
          BY <2>3, <4>1
        <4> HIDE DEF I, i
        <4> QED
          BY <3>1, <4>2
      <3>3. header[i] \in supportedLanguages /\ i \in DOMAIN header
        BY <1>2, <2>3
      <3>4. ASSUME FirstSupported(header, j)
            PROVE  j = i
        <4>1. j \in I
          BY <3>1, <3>4 DEF FirstSupported
        <4>2. i <= j
          BY <2>3, <4>1
        <4>3. ~ (i < j)
          BY <3>3, <3>4 DEF FirstSupported
        <4> HIDE DEF I, i
        <4> QED
          BY <3>1, <4>2, <4>3
      <3> QED
        BY <3>2, <3>3, <3>4 DEF FirstSupported
    <2>6. first = {header[i]}
      <3>1. i \in DOMAIN header
        BY <1>2, <2>3
      <3> HIDE DEF i, I
      <3>2. {j \in DOMAIN header : FirstSupported(header, j)} = {i}
        BY <2>5, <3>1
      <3> QED
        BY <3>2
    <2> HIDE DEF first, i
    <2> QED
      BY <1>0, <2>4, <2>6
  <1> QED
    BY <1>4, <1>5

Messages == {<<>>, <<"message", "about", "name">>, <<"validation", "failed">>}
OwnStatuses == {0, 400, 401, 403, 404, 409, 500}
ErrorRecords ==
    [code : TextWords, message : Messages, field : {"", "email"}, details : PartialMaps(Keys, Values),
     statusCode : OwnStatuses]

LEMMA FieldsOfErrors ==
  ASSUME NEW A, NEW B, NEW C, NEW D, NEW S,
         NEW e \in [code : A, message : B, field : C, details : D, statusCode : S]
  PROVE  /\ e.code \in A /\ e.message \in B /\ e.field \in C /\ e.details \in D /\ e.statusCode \in S
         /\ \A d \in D : [e EXCEPT !.details = d] \in [code : A, message : B, field : C, details : D, statusCode : S]
         /\ \A f \in C : [e EXCEPT !.field = f] \in [code : A, message : B, field : C, details : D, statusCode : S]
  OBVIOUS

LEMMA ErrorIs == Errors \subseteq ErrorRecords
  <1>1. <<>> \in PartialMaps(Keys, Values) /\ [name |-> "value"] \in PartialMaps(Keys, Values)
    <2>1. <<>> \in [{} -> Values] /\ [name |-> "value"] \in [{"name"} -> Values]
      <3>1. "value" \in Values
        BY DEF Values
      <3> QED
        BY <3>1
    <2> QED
      BY <2>1 DEF PartialMaps, Keys
  <1>2. ASSUME NEW c \in TextWords, NEW m \in Messages, NEW n \in OwnStatuses
        PROVE  NewAppError(c, m, n) \in ErrorRecords
    BY <1>1 DEF NewAppError, ErrorRecords
  <1>3. ASSUME NEW e \in ErrorRecords, NEW d \in PartialMaps(Keys, Values)
        PROVE  WithDetails(e, d) \in ErrorRecords
    BY FieldsOfErrors DEF WithDetails, ErrorRecords
  <1>4. ASSUME NEW e \in ErrorRecords
        PROVE  WithField(e, "email") \in ErrorRecords
    BY FieldsOfErrors DEF WithField, ErrorRecords
  <1>5. ASSUME NEW c \in ErrorCodes
        PROVE  NewCoded(c) \in ErrorRecords
    BY <1>2 DEF NewCoded, Messages, TextWords, OwnStatuses
  <1>6. ASSUME NEW m \in Messages, NEW d \in PartialMaps(Keys, Values), NEW e \in Helped(m, d)
        PROVE  e \in ErrorRecords
    <2>1. NewValidationError(d) \in ErrorRecords
      BY <1>2, <1>3 DEF NewValidationError, Messages, TextWords, OwnStatuses
    <2>2. \/ e = NewValidationError(d)
          \/ \E c \in {"BAD_REQUEST", "UNAUTHORIZED", "FORBIDDEN", "NOT_FOUND", "CONFLICT",
                       "INTERNAL_SERVER_ERROR"}, n \in OwnStatuses : e = NewAppError(c, m, n)
      BY <1>6 DEF Helped, NewBadRequest, NewUnauthorized, NewForbidden, NewNotFound, NewConflict,
                  NewInternalServerError, OwnStatuses
    <2>3. \A c \in {"BAD_REQUEST", "UNAUTHORIZED", "FORBIDDEN", "NOT_FOUND", "CONFLICT",
                    "INTERNAL_SERVER_ERROR"} : c \in TextWords
      BY DEF TextWords
    <2> QED
      BY <1>2, <2>1, <2>2, <2>3
  <1>7. <<"message", "about", "name">> \in Messages
    BY DEF Messages
  <1>8. Details \subseteq PartialMaps(Keys, Values)
    BY DEF Details
  <1>9. <<>> \in PartialMaps(Keys, Values)
    BY <1>1
  <1> QED
    BY <1>1, <1>3, <1>4, <1>5, <1>6, <1>7, <1>8, <1>9 DEF Errors

LEMMA FieldsOfError ==
  ASSUME NEW e \in Errors
  PROVE  /\ e.statusCode \in OwnStatuses /\ e.field \in {"", "email"} /\ e.message \in Messages
         /\ e.code \in TextWords /\ e.details \in PartialMaps(Keys, Values)
  <1>1. e \in ErrorRecords
    BY ErrorIs
  <1> QED
    BY <1>1, FieldsOfErrors DEF ErrorRecords

LEMMA OverSays ==
  ASSUME NEW new, NEW old, NEW k
  PROVE  /\ k \in DOMAIN Over(new, old) <=> k \in DOMAIN new \/ k \in DOMAIN old
         /\ k \in DOMAIN Over(new, old) => Over(new, old)[k] = IF k \in DOMAIN new THEN new[k] ELSE old[k]
  <1>1. DOMAIN Over(new, old) = DOMAIN new \cup DOMAIN old
    BY OverIs
  <1>2. \A j \in DOMAIN Over(new, old) : Over(new, old)[j] = IF j \in DOMAIN new THEN new[j] ELSE old[j]
    BY DEF Over
  <1> QED
    BY <1>1, <1>2

LEMMA OverTyped ==
  ASSUME NEW S, NEW T, NEW new \in One(S, T), NEW old \in PartialMaps(S, T)
  PROVE  Over(new, old) \in PartialMaps(S, T)
  <1>1. PICK s \in S : new \in [{s} -> T]
    BY DEF One
  <1>2. PICK D \in SUBSET S : old \in [D -> T]
    BY DEF PartialMaps
  <1>3. Over(new, old) \in [{s} \cup D -> T]
    BY <1>1, <1>2 DEF Over
  <1> QED
    BY <1>1, <1>2, <1>3 DEF PartialMaps

(* What a call at start-up says is the last that is told.                  *)
LEMMA ToldNext ==
  ASSUME told \in Seq(Registrations), NEW news \in Registrations, told' = Append(told, news), NEW what, NEW code
  PROVE  LastTold(what, code)' = IF news.of = what /\ code \in DOMAIN news.map THEN {news.map[code]}
                                 ELSE LastTold(what, code)
  <1>0. PICK n \in Nat : n = Len(told)
    BY LenProperties
  <1>1. /\ DOMAIN told' = 1..(n + 1) /\ DOMAIN told = 1..n
        /\ \A i \in 1..n : told'[i] = told[i]
        /\ told'[n + 1] = news
    BY <1>0, AppendProperties, LenProperties
  <1>2. \A i \in DOMAIN told' : i \in 1..n \/ i = n + 1
    BY <1>1
  <1>3. \A i \in 1..n : About(i, what, code)' <=> About(i, what, code)
    BY <1>1 DEF About
  <1>4. About(n + 1, what, code)' <=> news.of = what /\ code \in DOMAIN news.map
    BY <1>1 DEF About
  <1>5. CASE news.of = what /\ code \in DOMAIN news.map
    <2>1. \A i \in DOMAIN told' : IsLast(i, what, code)' <=> i = n + 1
      BY <1>1, <1>2, <1>4, <1>5 DEF IsLast
    <2> QED
      BY <1>1, <1>5, <2>1 DEF LastTold
  <1>6. CASE ~(news.of = what /\ code \in DOMAIN news.map)
    <2>1. \A i \in DOMAIN told' : IsLast(i, what, code)' <=> i \in 1..n /\ IsLast(i, what, code)
      BY <1>1, <1>2, <1>3, <1>4, <1>6 DEF IsLast
    <2>2. LastTold(what, code)' = {told'[i].map[code] : i \in {j \in 1..n : IsLast(j, what, code)}}
      BY <1>1, <1>2, <2>1 DEF LastTold
    <2> QED
      BY <1>1, <1>6, <2>2 DEF LastTold
  <1> QED
    BY <1>5, <1>6

LEMMA TextInitInv == TextInit => TextIInv
  <1> SUFFICES ASSUME TextInit PROVE TextIInv
    OBVIOUS
  <1>1. registry = <<>> /\ translations = <<>> /\ DOMAIN <<>> = {} /\ DOMAIN told = {} /\ told = <<>>
    BY DEF TextInit
  <1>2. registry \in PartialMaps(ErrorCodes, {409, 422})
        /\ translations \in PartialMaps(ErrorCodes, PartialMaps(supportedLanguages, Texts))
    <2>1. ASSUME NEW S, NEW T
          PROVE  <<>> \in PartialMaps(S, T)
      <3>1. <<>> \in [{} -> T] /\ {} \in SUBSET S
        OBVIOUS
      <3> QED
        BY <3>1 DEF PartialMaps
    <2> QED
      BY <1>1, <2>1
  <1>3. told \in Seq(Registrations) /\ Len(told) <= MaxRegistrations
    BY <1>1, MaxRegistrationsAssumption
  <1>4. AsTold
    BY <1>1 DEF AsTold, LastTold
  <1> QED
    BY <1>2, <1>3, <1>4 DEF TextInit, TextIInv, TextTyped

(* The step of a registration: what is told, and the map it is written to. *)
LEMMA RegisterCodesInv ==
  ASSUME TextIInv, NEW codes \in CodeMaps, RegisterCodes(codes)
  PROVE  TextIInv'
  <1>1. PICK news : news = [of |-> "codes", map |-> codes]
    OBVIOUS
  <1>2. /\ answering = "startup" /\ Len(told) < MaxRegistrations
        /\ registry' = Over(codes, registry) /\ told' = Append(told, news)
        /\ translations' = translations /\ answering' = answering /\ answer' = answer /\ unfilled' = unfilled
    BY <1>1 DEF RegisterCodes, Starting
  <1>3. news \in Registrations /\ news.of = "codes" /\ news.map = codes
    BY <1>1 DEF Registrations
  <1>4. registry' \in PartialMaps(ErrorCodes, {409, 422})
    BY <1>2, OverTyped DEF CodeMaps, TextIInv, TextTyped
  <1>5. told' \in Seq(Registrations) /\ Len(told') <= MaxRegistrations
    BY <1>2, <1>3, MaxRegistrationsAssumption, AppendProperties, LenProperties DEF TextIInv, TextTyped
  <1>6. ASSUME NEW code
        PROVE  /\ LastTold("codes", code)' = IF code \in DOMAIN registry' THEN {registry'[code]} ELSE {}
               /\ LastTold("texts", code)' = LastTold("texts", code)
    <2>1. told \in Seq(Registrations)
      BY DEF TextIInv, TextTyped
    <2>2. LastTold("texts", code)' = LastTold("texts", code)
      BY <1>2, <1>3, <2>1, ToldNext
    <2>3. LastTold("codes", code)' = IF code \in DOMAIN codes THEN {codes[code]} ELSE LastTold("codes", code)
      BY <1>2, <1>3, <2>1, ToldNext
    <2>4. LastTold("codes", code) = IF code \in DOMAIN registry THEN {registry[code]} ELSE {}
      BY DEF TextIInv, AsTold
    <2>5. /\ code \in DOMAIN registry' <=> code \in DOMAIN codes \/ code \in DOMAIN registry
          /\ code \in DOMAIN registry' => registry'[code] = IF code \in DOMAIN codes THEN codes[code] ELSE registry[code]
      BY <1>2, OverSays, OverIs
    <2> QED
      BY <2>2, <2>3, <2>4, <2>5
  <1>7. AsTold'
    BY <1>2, <1>6 DEF TextIInv, AsTold
  <1>8. TextTyped'
    BY <1>2, <1>4, <1>5 DEF TextIInv, TextTyped
  <1> QED
    BY <1>2, <1>7, <1>8 DEF TextIInv

LEMMA RegisterTranslationsInv ==
  ASSUME TextIInv, NEW texts \in TextMaps, RegisterTranslations(texts)
  PROVE  TextIInv'
  <1>1. PICK news : news = [of |-> "texts", map |-> texts]
    OBVIOUS
  <1>2. /\ answering = "startup" /\ Len(told) < MaxRegistrations
        /\ translations' = Over(texts, translations) /\ told' = Append(told, news)
        /\ registry' = registry /\ answering' = answering /\ answer' = answer /\ unfilled' = unfilled
    BY <1>1 DEF RegisterTranslations, Registered, Starting
  <1>3. news \in Registrations /\ news.of = "texts" /\ news.map = texts
    BY <1>1 DEF Registrations
  <1>4. translations' \in PartialMaps(ErrorCodes, PartialMaps(supportedLanguages, Texts))
    BY <1>2, OverTyped DEF TextMaps, TextIInv, TextTyped
  <1>5. told' \in Seq(Registrations) /\ Len(told') <= MaxRegistrations
    BY <1>2, <1>3, MaxRegistrationsAssumption, AppendProperties, LenProperties DEF TextIInv, TextTyped
  <1>6. ASSUME NEW code
        PROVE  /\ LastTold("texts", code)' = IF code \in DOMAIN translations' THEN {translations'[code]} ELSE {}
               /\ LastTold("codes", code)' = LastTold("codes", code)
    <2>1. told \in Seq(Registrations)
      BY DEF TextIInv, TextTyped
    <2>2. LastTold("codes", code)' = LastTold("codes", code)
      BY <1>2, <1>3, <2>1, ToldNext
    <2>3. LastTold("texts", code)' = IF code \in DOMAIN texts THEN {texts[code]} ELSE LastTold("texts", code)
      BY <1>2, <1>3, <2>1, ToldNext
    <2>4. LastTold("texts", code) = IF code \in DOMAIN translations THEN {translations[code]} ELSE {}
      BY DEF TextIInv, AsTold
    <2>5. /\ code \in DOMAIN translations' <=> code \in DOMAIN texts \/ code \in DOMAIN translations
          /\ code \in DOMAIN translations' => translations'[code] = IF code \in DOMAIN texts THEN texts[code] ELSE translations[code]
      BY <1>2, OverSays, OverIs
    <2> QED
      BY <2>2, <2>3, <2>4, <2>5
  <1>7. AsTold'
    BY <1>2, <1>6 DEF TextIInv, AsTold
  <1>8. TextTyped'
    BY <1>2, <1>4, <1>5 DEF TextIInv, TextTyped
  <1> QED
    BY <1>2, <1>7, <1>8 DEF TextIInv

LEMMA AsToldKept ==
  ASSUME UNCHANGED <<registry, translations, told>>
  PROVE  AsTold' = AsTold
  BY DEF AsTold, LastTold, IsLast, About

LEMMA ServeInv == ASSUME TextIInv, Serve PROVE TextIInv'
  <1>1. /\ answering = "startup" /\ answering' = "serving" /\ registry' = registry /\ told' = told
        /\ translations' = translations /\ answer' = answer /\ unfilled' = unfilled
    BY DEF Serve
  <1>2. AsTold' = AsTold
    BY <1>1 DEF AsTold, LastTold, IsLast, About
  <1>3. TextTyped'
    BY <1>1 DEF TextIInv, TextTyped
  <1> QED
    BY <1>1, <1>2, <1>3 DEF TextIInv

LEMMA TranslatedIs ==
  ASSUME TextTyped, NEW code, NEW lang, Translated(code, lang) # <<>>
  PROVE  /\ code \in DOMAIN translations /\ Translated(code, lang) \in Texts
         /\ \E l \in {lang, defaultLanguage} \cap DOMAIN translations[code] :
               Translated(code, lang) = translations[code][l]
  <1>1. PICK D \in SUBSET ErrorCodes : translations \in [D -> PartialMaps(supportedLanguages, Texts)]
    BY DEF TextTyped, PartialMaps
  <1>2. code \in D
    BY <1>1 DEF Translated
  <1>3. PICK L \in SUBSET supportedLanguages : translations[code] \in [L -> Texts]
    BY <1>1, <1>2 DEF PartialMaps
  <1>4. \E l \in {lang, defaultLanguage} \cap DOMAIN translations[code] :
               Translated(code, lang) = translations[code][l]
    BY DEF Translated
  <1> QED
    BY <1>1, <1>2, <1>3, <1>4

LEMMA TemplateIs ==
  ASSUME TextTyped, NEW e \in Errors, NEW lang
  PROVE  /\ Template(e, lang) \in Seq(TextWords) /\ Template(e, lang) # <<>>
         /\ Blank(Template(e, lang)) => HasEmpty(e)
  <1>1. e.message \in Messages /\ e.code \in TextWords
    BY FieldsOfError
  <1>2. \A m \in Messages \cup Texts : m \in Seq(TextWords)
    <2>1. /\ <<>> \in Seq(TextWords)
          /\ <<"message", "about", "name">> \in Seq(TextWords)
          /\ <<"validation", "failed">> \in Seq(TextWords)
          /\ <<"name">> \in Seq(TextWords) /\ <<"limit", "of", "name">> \in Seq(TextWords)
      BY DEF TextWords, Keys
    <2> QED
      BY <2>1 DEF Messages, Texts
  <1>3. <<e.code>> \in Seq(TextWords) /\ <<e.code>> # <<>>
    BY <1>1
  <1>4. Translated(e.code, lang) # <<>> => Translated(e.code, lang) \in Texts
    BY TranslatedIs
  <1>5. ASSUME NEW m \in Messages \cup Texts, m # <<>>
        PROVE  ~Blank(m)
    <2>1. 1 \in DOMAIN m /\ m[1] \in {"message", "validation", "name", "limit"}
      BY <1>5 DEF Messages, Texts
    <2> QED
      BY <2>1 DEF Blank
  <1>6. Blank(<<e.code>>) => HasEmpty(e)
    <2>1. 1 \in DOMAIN <<e.code>> /\ <<e.code>>[1] = e.code
      OBVIOUS
    <2> QED
      BY <2>1 DEF Blank, HasEmpty
  <1> QED
    BY <1>1, <1>2, <1>3, <1>4, <1>5, <1>6 DEF Template

LEMMA StatusIs ==
  ASSUME TextTyped, NEW e \in Errors
  PROVE  Status(e) \in AnswerStatuses
  <1>1. e.statusCode = 0 \/ e.statusCode \in AnswerStatuses
    <2>1. \A n \in OwnStatuses : n = 0 \/ n \in AnswerStatuses
      BY DEF OwnStatuses, AnswerStatuses
    <2> QED
      BY <2>1, FieldsOfError
  <1>2. GetStatusCode(e.code) \in {409, 422, 500}
    BY DEF GetStatusCode, TextTyped, PartialMaps
  <1>3. GetStatusCode(e.code) \in AnswerStatuses
    BY <1>2 DEF AnswerStatuses
  <1> QED
    BY <1>1, <1>3 DEF Status

LEMMA ResolveMessageInv == ASSUME TextIInv, ResolveMessage PROVE TextIInv'
  <1>1. PICK e \in Errors, header \in AcceptLanguages :
            /\ answer' = [error |-> e, header |-> header, status |-> Status(e), field |-> e.field,
                          text |-> Template(e, ResolveLanguage(header))]
            /\ unfilled' = DOMAIN e.details
    BY DEF ResolveMessage
  <1> DEFINE template == Template(e, ResolveLanguage(header))
  <1>2. /\ registry' = registry /\ translations' = translations /\ told' = told /\ answering' = "filling"
        /\ answer'.error = e /\ answer'.header = header /\ answer'.status = Status(e)
        /\ answer'.field = e.field /\ answer'.text = template
    BY <1>1 DEF ResolveMessage
  <1>3. /\ template \in Seq(TextWords) /\ template # <<>> /\ (Blank(template) => HasEmpty(e))
        /\ Status(e) \in AnswerStatuses /\ e.field \in {"", "email"}
    BY TemplateIs, StatusIs, FieldsOfError DEF TextIInv
  <1>4. Template(e, ResolveLanguage(header))' = template /\ Status(e)' = Status(e)
    BY <1>2 DEF Template, Translated, Status, GetStatusCode
  <1> HIDE DEF template
  <1>5. TextTyped'
    <2>1. answer' = [error |-> e, header |-> header, status |-> Status(e), field |-> e.field, text |-> template]
      BY <1>1 DEF template
    <2>2. answer' \in TextAnswers
      BY <1>3, <2>1 DEF TextAnswers
    <2> QED
      BY <1>1, <1>2, <2>2 DEF TextIInv, TextTyped
  <1>6. AsTold'
    BY <1>2, AsToldKept DEF TextIInv
  <1>7. FilledSoFar'
    <2>1. Template(answer.error, ResolveLanguage(answer.header))' = template
      BY <1>2, <1>4
    <2> QED
      BY <1>1, <1>2, <1>3, <2>1 DEF FilledSoFar
  <1> QED
    BY <1>2, <1>4, <1>5, <1>6, <1>7 DEF TextIInv

LEMMA RecordKept ==
  ASSUME NEW A, NEW B, NEW C, NEW D, NEW S,
         NEW a \in [error : A, header : B, status : C, field : D, text : S], NEW text \in S
  PROVE  LET b == [a EXCEPT !.text = text] IN
         /\ b \in [error : A, header : B, status : C, field : D, text : S]
         /\ b.text = text /\ b.error = a.error /\ b.header = a.header /\ b.status = a.status /\ b.field = a.field
         /\ a.error \in A /\ a.header \in B /\ a.text \in S
  OBVIOUS

LEMMA AnswerKept ==
  ASSUME NEW a \in TextAnswers, NEW text \in Seq(TextWords)
  PROVE  LET b == [a EXCEPT !.text = text] IN
         /\ b \in TextAnswers /\ b.text = text /\ b.error = a.error /\ b.header = a.header
         /\ b.status = a.status /\ b.field = a.field
         /\ a.error \in Errors /\ a.header \in AcceptLanguages /\ a.text \in Seq(TextWords)
  BY RecordKept DEF TextAnswers

LEMMA AnswerIs ==
  ASSUME NEW a \in TextAnswers
  PROVE  /\ a.error \in Errors /\ a.header \in AcceptLanguages /\ a.text \in Seq(TextWords)
         /\ a.status \in AnswerStatuses
  BY DEF TextAnswers

LEMMA ReplaceEveryIs ==
  ASSUME NEW text \in Seq(TextWords), NEW key, NEW value \in TextWords
  PROVE  /\ ReplaceEvery(text, key, value) \in Seq(TextWords)
         /\ DOMAIN ReplaceEvery(text, key, value) = DOMAIN text
         /\ \A i \in DOMAIN text :
               ReplaceEvery(text, key, value)[i] = IF text[i] = key THEN value ELSE text[i]
  <1>1. DOMAIN text = 1..Len(text) /\ Len(text) \in Nat /\ \A i \in 1..Len(text) : text[i] \in TextWords
    BY LenProperties, ElementOfSeq
  <1>2. ReplaceEvery(text, key, value) = [i \in 1..Len(text) |-> IF text[i] = key THEN value ELSE text[i]]
    BY <1>1 DEF ReplaceEvery
  <1>3. [i \in 1..Len(text) |-> IF text[i] = key THEN value ELSE text[i]] \in Seq(TextWords)
    BY <1>1
  <1> QED
    BY <1>1, <1>2, <1>3

LEMMA FillPlaceholderInv == ASSUME TextIInv, NEW key \in Keys, FillPlaceholder(key) PROVE TextIInv'
  <1> DEFINE details == answer.error.details
             text == answer.text
             new == ReplaceEvery(text, key, details[key])
  <1>1. /\ answering = "filling" /\ key \in unfilled
        /\ answer' = [answer EXCEPT !.text = new] /\ unfilled' = unfilled \ {key}
        /\ registry' = registry /\ translations' = translations /\ answering' = answering /\ told' = told
    BY DEF FillPlaceholder
  <1>2. answer \in TextAnswers /\ unfilled \subseteq DOMAIN details /\ FilledSoFar
    BY <1>1 DEF TextIInv, TextTyped
  <1>3. text \in Seq(TextWords) /\ answer.error \in Errors
    BY <1>2, AnswerIs
  <1>4. details[key] \in TextWords
    <2>1. details \in PartialMaps(Keys, Values)
      BY <1>3, FieldsOfError
    <2> QED
      BY <1>1, <1>2, <2>1 DEF PartialMaps, TextWords
  <1>5. /\ new \in Seq(TextWords) /\ DOMAIN new = DOMAIN text
        /\ \A i \in DOMAIN text : new[i] = IF text[i] = key THEN details[key] ELSE text[i]
    BY <1>3, <1>4, ReplaceEveryIs
  <1> HIDE DEF new
  <1>6. /\ answer' \in TextAnswers /\ answer'.text = new /\ answer'.error = answer.error
        /\ answer'.header = answer.header /\ answer'.status = answer.status /\ answer'.field = answer.field
    BY <1>1, <1>2, <1>5, AnswerKept
  <1>7. TextTyped'
    BY <1>1, <1>2, <1>6 DEF TextIInv, TextTyped
  <1>8. AsTold'
    BY <1>1, AsToldKept DEF TextIInv
  <1>9. Status(answer.error)' = Status(answer.error)
    BY <1>1, <1>6 DEF Status, GetStatusCode
  <1>10. FilledSoFar'
    <2> DEFINE filled == DOMAIN details \ unfilled
    <2>1. PICK template : template = Template(answer.error, ResolveLanguage(answer.header))
      OBVIOUS
    <2>2. Template(answer.error, ResolveLanguage(answer.header))' = template
      BY <1>1, <1>6, <2>1 DEF Template, Translated
    <2>3. /\ DOMAIN text = DOMAIN template /\ template # <<>>
          /\ Plain(details) => \A i \in DOMAIN text :
                text[i] = IF template[i] \in filled THEN details[template[i]] ELSE template[i]
          /\ \A i \in DOMAIN text : text[i] \in filled => \E l \in DOMAIN details : details[l] = text[i]
          /\ Blank(text) => HasEmpty(answer.error)
      BY <1>2, <2>1 DEF FilledSoFar
    <2>4. (DOMAIN answer.error.details \ unfilled)' = filled \cup {key}
      BY <1>1, <1>2, <1>6
    <2>5. ASSUME Plain(details), NEW i \in DOMAIN new
          PROVE  new[i] = IF template[i] \in filled \cup {key} THEN details[template[i]] ELSE template[i]
      BY <1>1, <1>2, <1>5, <2>3, <2>5 DEF Plain
    <2>6. ASSUME NEW i \in DOMAIN new, new[i] \in filled \cup {key}
          PROVE  \E l \in DOMAIN details : details[l] = new[i]
      BY <1>1, <1>2, <1>5, <2>3, <2>6
    <2>7. ASSUME Blank(new)
          PROVE  HasEmpty(answer.error)
      <3>1. CASE \E i \in DOMAIN text : text[i] = key
        BY <1>1, <1>2, <1>5, <2>7, <3>1 DEF Blank, HasEmpty
      <3>2. CASE \A i \in DOMAIN text : text[i] # key
        BY <1>5, <2>3, <2>7, <3>2 DEF Blank
      <3> QED
        BY <3>1, <3>2
    <2>8. HasEmpty(answer.error)' = HasEmpty(answer.error)
      BY <1>6 DEF HasEmpty
    <2> QED
      BY <1>5, <1>6, <2>2, <2>3, <2>4, <2>5, <2>6, <2>7, <2>8 DEF FilledSoFar
  <1> QED
    BY <1>1, <1>2, <1>6, <1>7, <1>8, <1>9, <1>10 DEF TextIInv

THEOREM TextInvariance == TextSpec => []TextIInv
  <1>1. ASSUME TextIInv, [TextNext]_textVars
        PROVE  TextIInv'
    <2>1. CASE UNCHANGED textVars
      <3>1. /\ registry' = registry /\ translations' = translations /\ answering' = answering
            /\ answer' = answer /\ unfilled' = unfilled /\ told' = told
        BY <2>1 DEF textVars
      <3>2. TextTyped' = TextTyped
        BY <3>1 DEF TextTyped
      <3>3. FilledSoFar' = FilledSoFar
        BY <3>1 DEF FilledSoFar, Template, Translated, HasEmpty
      <3>4. Status(answer.error)' = Status(answer.error)
        BY <3>1 DEF Status, GetStatusCode
      <3> QED
        BY <1>1, <3>1, <3>2, <3>3, <3>4, AsToldKept DEF TextIInv
    <2>2. One(ErrorCodes, TextsOfCode) \subseteq TextMaps
      <3>1. TextsOfCode \subseteq PartialMaps(supportedLanguages, Texts)
        BY DEF TextsOfCode
      <3>2. ASSUME NEW S, NEW T, NEW V \in SUBSET T
            PROVE  One(S, V) \subseteq One(S, T)
        <4> SUFFICES ASSUME NEW s \in S, NEW f \in [{s} -> V]
                     PROVE  f \in [{s} -> T]
          BY DEF One
        <4> QED
          OBVIOUS
      <3> QED
        BY <3>1, <3>2 DEF TextMaps
    <2> QED
      BY <1>1, <2>1, <2>2, RegisterCodesInv, RegisterTranslationsInv, ServeInv, ResolveMessageInv, FillPlaceholderInv
         DEF TextNext, CodeMaps
  <1> QED
    BY <1>1, TextInitInv, PTL DEF TextSpec

THEOREM TextTypeCorrect == TextSpec => []TextTypeOK
  <1>1. TextIInv => TextTypeOK
    <2>1. answer \in TextAnswers => /\ answer.error \in Errors /\ answer.header \in AcceptLanguages
                                /\ answer.status \in {400, 401, 403, 404, 409, 422, 500}
      BY AnswerIs DEF AnswerStatuses
    <2> QED
      BY <2>1 DEF TextIInv, TextTyped, TextTypeOK
  <1> QED
    BY <1>1, TextInvariance, PTL

(* A client gets the status and the text that were registered last for the *)
(* code of the error, filled in as if at once.                             *)
THEOREM RegisteredAnswers == TextSpec => []AnswersAreRegistered
  <1>1. ASSUME TextIInv, Answered
        PROVE  LET e == answer.error
               IN  /\ answer.status \in IF e.statusCode # 0 THEN {e.statusCode} ELSE StatusesAsTold(e.code)
                   /\ answer.field = e.field
                   /\ Plain(e.details) => \E lang \in ClientLanguages(answer.header) :
                            \E text \in TextsAsTold(e, lang) : answer.text = FilledAtOnce(text, e.details)
                   /\ Blank(answer.text) => HasEmpty(e)
                   /\ \A k \in DOMAIN e.details : Mentions(answer.text, k) =>
                            \E l \in DOMAIN e.details : e.details[l] = k
    <2>1. PICK e : e = answer.error
      OBVIOUS
    <2>2. PICK lang : lang = ResolveLanguage(answer.header)
      OBVIOUS
    <2>3. PICK template : template = Template(e, lang)
      OBVIOUS
    <2>4. /\ answering = "filling" /\ unfilled = {} /\ answer \in TextAnswers /\ TextTyped /\ AsTold /\ FilledSoFar
          /\ answer.status = Status(e) /\ answer.field = e.field
      BY <1>1, <2>1 DEF Answered, TextIInv, TextTyped
    <2>5. e \in Errors /\ answer.header \in AcceptLanguages /\ answer.text \in Seq(TextWords)
      BY <2>1, <2>4, AnswerIs
    <2>6. /\ DOMAIN answer.text = DOMAIN template
          /\ Plain(e.details) => \A i \in DOMAIN answer.text :
                answer.text[i] = IF template[i] \in DOMAIN e.details THEN e.details[template[i]] ELSE template[i]
          /\ \A i \in DOMAIN answer.text : answer.text[i] \in DOMAIN e.details =>
                \E l \in DOMAIN e.details : e.details[l] = answer.text[i]
      BY <2>1, <2>2, <2>3, <2>4 DEF FilledSoFar
    <2>7. template \in Seq(TextWords) /\ template # <<>>
      BY <2>3, <2>4, <2>5, TemplateIs
    <2>8. Blank(answer.text) => HasEmpty(e)
      BY <2>1, <2>4 DEF FilledSoFar
    <2>9. answer.status \in IF e.statusCode # 0 THEN {e.statusCode} ELSE StatusesAsTold(e.code)
      <3>1. LastTold("codes", e.code) = IF e.code \in DOMAIN registry THEN {registry[e.code]} ELSE {}
        BY <2>4 DEF AsTold
      <3> QED
        BY <2>4, <3>1 DEF Status, GetStatusCode, StatusesAsTold
    <2>10. template \in TextsAsTold(e, lang)
      <3>1. LastTold("texts", e.code) = IF e.code \in DOMAIN translations THEN {translations[e.code]} ELSE {}
        BY <2>4 DEF AsTold
      <3>2. PICK texts : texts = (UNION {{known[l] : l \in Spoken(known, lang)} : known \in LastTold("texts", e.code)})
                                     \ {<<>>}
        OBVIOUS
      <3>3. TextsAsTold(e, lang) = IF texts = {} THEN {OwnText(e)} ELSE texts
        BY <3>2 DEF TextsAsTold
      <3>4. template = IF Translated(e.code, lang) # <<>> THEN Translated(e.code, lang) ELSE OwnText(e)
        BY <2>3 DEF Template, OwnText
      <3>5. CASE e.code \notin DOMAIN translations
        <4>1. texts = {} /\ Translated(e.code, lang) = <<>>
          BY <3>1, <3>2, <3>5 DEF Translated
        <4> QED
          BY <3>3, <3>4, <4>1
      <3>6. CASE e.code \in DOMAIN translations
        <4>1. PICK known : known = translations[e.code]
          OBVIOUS
        <4>2. texts = {known[l] : l \in Spoken(known, lang)} \ {<<>>}
          <5> DEFINE said == {known[l] : l \in Spoken(known, lang)}
                     All(D) == UNION {{m[l] : l \in Spoken(m, lang)} : m \in D}
          <5>1. LastTold("texts", e.code) = {known}
            BY <3>1, <3>6, <4>1
          <5>2. All({known}) = said
            OBVIOUS
          <5>3. texts = All(LastTold("texts", e.code)) \ {<<>>}
            BY <3>2
          <5>4. texts = said \ {<<>>}
            <6> HIDE DEF said, All
            <6> QED
              BY <5>1, <5>2, <5>3
          <5> QED
            BY <5>4
        <4>3. Translated(e.code, lang) = IF lang \in DOMAIN known THEN known[lang]
                                         ELSE IF defaultLanguage \in DOMAIN known THEN known[defaultLanguage]
                                         ELSE <<>>
          BY <3>6, <4>1 DEF Translated
        <4>4. texts = IF Translated(e.code, lang) = <<>> THEN {} ELSE {Translated(e.code, lang)}
          <5>1. CASE lang \in DOMAIN known
            BY <4>2, <4>3, <5>1 DEF Spoken
          <5>2. CASE lang \notin DOMAIN known /\ defaultLanguage \in DOMAIN known
            <6>1. Spoken(known, lang) = {defaultLanguage}
              BY <5>2 DEF Spoken
            <6> QED
              BY <4>2, <4>3, <5>2, <6>1
          <5>3. CASE lang \notin DOMAIN known /\ defaultLanguage \notin DOMAIN known
            <6>1. Spoken(known, lang) = {}
              BY <5>3 DEF Spoken
            <6> QED
              BY <4>2, <4>3, <5>3, <6>1
          <5> QED
            BY <5>1, <5>2, <5>3
        <4> QED
          BY <3>3, <3>4, <4>4
      <3> QED
        BY <3>5, <3>6
    <2>11. ASSUME Plain(e.details)
           PROVE  answer.text = FilledAtOnce(template, e.details)
      <3>1. answer.text = [i \in DOMAIN answer.text |-> answer.text[i]]
        BY <2>5
      <3> QED
        BY <2>6, <2>11, <3>1 DEF FilledAtOnce
    <2>12. ClientLanguages(answer.header) = {lang}
      BY <2>2, <2>5, LanguageIs
    <2> QED
      BY <2>1, <2>4, <2>6, <2>8, <2>9, <2>10, <2>11, <2>12 DEF Mentions
  <1>2. TextIInv => AnswersAreRegistered
    BY <1>1 DEF AnswersAreRegistered, Plain, HasEmpty
  <1> QED
    BY <1>2, TextInvariance, PTL

-----------------------------------------------------------------------------
(* The parts side by side                                                  *)

(* A step of one part is no step of another: side by side, every part does *)
(* what its own specification allows it.                                   *)
THEOREM EachPartAsSpecified ==
    Spec => TracerSpec /\ TextSpec /\ SetupSpec /\ PageSpec /\ EnvSpec /\ UploadSpec
  <1>1. Init => /\ part \in Parts
                /\ TracerInit /\ TextInit /\ SetupInit /\ PageInit /\ EnvInit /\ UploadInit
    BY DEF Init
  <1>2. ASSUME [Next]_vars
        PROVE  /\ [TracerNext]_tracerVars /\ [TextNext]_textVars /\ [SetupNext]_setupVars
               /\ [PageNext]_pageVars /\ [EnvNext]_envVars /\ [UploadNext]_uploadVars
    BY <1>2 DEF Next, vars
  <1> QED
    BY <1>1, <1>2, PTL DEF Spec, TracerSpec, TextSpec, SetupSpec, PageSpec, EnvSpec, UploadSpec

(* So what is proved of each part holds of it here: the part that moves    *)
(* keeps its types, and the others never lose theirs.                      *)
THEOREM PartsTypeCorrect == Spec => []TypeOK
  <1>1. Init => part \in Parts
    BY DEF Init
  <1>2. part \in Parts /\ [Next]_vars => (part \in Parts)'
    BY DEF Next, vars
  <1>3. /\ part \in Parts
        /\ TracerTypeOK /\ TextTypeOK /\ SetupTypeOK /\ PageTypeOK /\ EnvTypeOK /\ UploadTypeOK
        => TypeOK
    BY DEF TypeOK, Parts
  <1> QED
    BY <1>1, <1>2, <1>3, EachPartAsSpecified, TracerTypeCorrect, TextTypeCorrect, SetupTypeCorrect,
       PageTypeCorrect, EnvTypeCorrect, UploadTypeCorrect, PTL DEF Spec

=============================================================================
