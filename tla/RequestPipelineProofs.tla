------------------------ MODULE RequestPipelineProofs ------------------------
(***************************************************************************)
(* Proofs about RequestPipeline, for any number of requests, any errors    *)
(* and registered codes, any token lifetime and any granularity of time.   *)
(***************************************************************************)
EXTENDS RequestPipelineProperties, TLAPS

USE SentinelsAssumption, SecondAssumption, ExpiryAssumption, MaxTimeAssumption,
    MaxCallsAssumption

(* NumericDate cuts off less than a second.                                *)
LEMMA Truncation ==
  ASSUME NEW t \in Nat
  PROVE  NumericDate(t) \in Nat /\ NumericDate(t) <= t /\ t < NumericDate(t) + Second
  <1>1. t % Second \in 0..(Second - 1) /\ t % Second <= t
    OBVIOUS
  <1> QED
    BY <1>1 DEF NumericDate

(* Unpacking the records of the model once and for all.                    *)
LEMMA ErrorBodies ==
  ASSUME NEW code \in Codes, NEW message \in {"none", "resolved", "framework", "generic", "raw"},
         NEW details \in SUBSET Requests, NEW own \in OwnStatuses
  PROVE  /\ ErrorBody(code, own, message, details) \in Bodies
         /\ ErrorBody(code, own, message, details).form = "error"
         /\ ErrorBody(code, own, message, details).code = code
         /\ ErrorBody(code, own, message, details).own = own
         /\ ErrorBody(code, own, message, details).message = message
         /\ ErrorBody(code, own, message, details).details = details
  BY DEF ErrorBody, Bodies

(* The statuses of errors, and those of the library's own.                 *)
LEMMA StatusFacts ==
  /\ {401, 405, 409, 500} \subseteq ErrorStatuses
  /\ {0, 401, 405, 409, 500} \subseteq OwnStatuses
  /\ {200, 201, 204, 500} \subseteq Statuses /\ ErrorStatuses \subseteq Statuses
  /\ \A s \in ErrorStatuses : s >= 400 /\ s # 204 /\ s # 0
  /\ \A s \in OwnStatuses : s # 0 => s \in ErrorStatuses
  BY DEF ErrorStatuses, OwnStatuses, Statuses

LEMMA LibraryCodeFacts ==
  {"none", "UNAUTHORIZED", "CONFLICT", "INTERNAL_SERVER_ERROR"} \subseteq Codes
  BY DEF Codes, LibraryCodes

(* Whatever an error is answered under is an error status.                 *)
LEMMA ResolvedStatus ==
  ASSUME NEW own \in OwnStatuses, NEW code \in Codes
  PROVE  Resolved(own, code) \in ErrorStatuses
  BY RegistryAssumption, StatusFacts DEF Resolved, GetStatusCode

LEMMA PlainBodies ==
  ASSUME NEW form \in {"empty", "text", "success"}
  PROVE  /\ Plain(form) \in Bodies
         /\ Plain(form).form # "error" /\ Plain(form).details = {}
         /\ Plain(form).message = "none"
  BY StatusFacts, LibraryCodeFacts DEF Plain, Bodies

LEMMA ObjectFacts ==
  ASSUME NEW s \in OwnStatuses, NEW code \in Codes
  PROVE  /\ Object(s, code) \in Objects /\ Object(s, code).details = {}
         /\ Object(s, code).status = s
  BY DEF Object, Objects

LEMMA Nothing == Object(0, "none") \in Objects /\ Object(0, "none").details = {}
  BY ObjectFacts, StatusFacts, LibraryCodeFacts

(* The initial states satisfy the inductive invariant.                     *)
LEMMA InvInit == Init => IInv
  <1> SUFFICES ASSUME Init
               PROVE  IInv
    OBVIOUS
  <1>1. \A e \in Refs : heap[e] \in Objects /\ heap[e].details = {}
    <2>1. ASSUME NEW e \in Sentinels
          PROVE  heap[e] \in Objects /\ heap[e].details = {}
      <3>1. PICK declared \in [Sentinels -> Made] :
               heap = [f \in Refs |-> IF f \in Sentinels THEN Object(declared[f].status, declared[f].code)
                                     ELSE Object(0, "none")]
        BY DEF Init
      <3>2. declared[e].status \in OwnStatuses /\ declared[e].code \in Codes
        BY MadeAssumption
      <3>3. heap[e] = Object(declared[e].status, declared[e].code)
        BY <3>1 DEF Refs
      <3> QED
        BY <3>2, <3>3, ObjectFacts
    <2>2. ASSUME NEW e \in Requests
          PROVE  heap[e] \in Objects /\ heap[e].details = {}
      BY <2>2, Nothing DEF Init, Refs
    <2> QED
      BY <2>1, <2>2 DEF Refs
  <1>2. TypeOK
    <2>1. heap \in [Refs -> Objects]
      BY <1>1 DEF Init
    <2>2. body \in [Requests -> Bodies]
      BY PlainBodies DEF Init
    <2>3. header \in [Requests -> Headers]
      BY DEF Init, Headers
    <2> QED
      BY <2>1, <2>2, <2>3 DEF Init, TypeOK, Refs, Time, Statuses
  <1>3. SentinelsUntouched
    BY <1>1 DEF SentinelsUntouched, Refs
  <1>4. DetailsStayPrivate /\ BodiesFit
    BY PlainBodies DEF Init, DetailsStayPrivate, BodiesFit, Fits
  <1>5. Pointers
    BY <1>1 DEF Init, Pointers, Refs
  <1> QED
    BY <1>2, <1>3, <1>4, <1>5 DEF Init, IInv, FailuresShow, NoUserYet

-----------------------------------------------------------------------------
(* The handler                                                             *)

(* An error taken in hand, with an object that is well made.               *)
LEMMA HoldsStep ==
  ASSUME IInv, NEW r \in Requests, NEW e \in Sentinels \cup {r}, NEW h \in Objects,
         NEW type \in {"app", "fiber", "plain"},
         Holds(r, type, e), heap' = [heap EXCEPT ![r] = h], h.details \subseteq {r},
         type = "fiber" => e = r /\ h.status \in {405, 409}
  PROVE  IInv'
  <1> USE DEF IInv, Holds, Call, reqVars, ansVars
  <1>1. TypeOK'
    BY DEF TypeOK, Refs
  <1>2. SentinelsUntouched'
    BY DEF TypeOK, Refs, SentinelsUntouched
  <1>3. Pointers'
    <2> SUFFICES ASSUME NEW q \in Requests
                 PROVE  /\ ptr'[q] \in Sentinels \cup {q}
                        /\ heap'[q].details \subseteq {q}
                        /\ err'[q] = "fiber" => ptr'[q] = q /\ heap'[q].status \in {405, 409}
      BY DEF Pointers
    <2>1. CASE q = r
      BY <2>1 DEF TypeOK, Pointers, SentinelsUntouched, Refs
    <2>2. CASE q # r
      BY <2>2 DEF TypeOK, Pointers, Refs
    <2> QED
      BY <2>1, <2>2
  <1>4. DetailsStayPrivate' /\ BodiesFit'
    BY DEF DetailsStayPrivate, BodiesFit
  <1>5. FailuresShow' /\ NoUserYet'
    BY DEF TypeOK, FailuresShow, NoUserYet
  <1> QED
    BY <1>1, <1>2, <1>3, <1>4, <1>5

(* A response written, or a failure to encode it.                          *)
LEMMA JSONStep ==
  ASSUME IInv, NEW r \in Requests, NEW s \in Statuses, NEW b \in Bodies, NEW enc \in BOOLEAN,
         JSON(r, s, b, enc), b.details \subseteq {r},
         enc => Fits(s, b)
  PROVE  IInv'
  <1> USE DEF IInv, JSON, Call, Without, reqVars
  <1>1. Object(0, "none") \in Objects /\ Object(0, "none").details = {}
    BY Nothing
  <1>2. TypeOK'
    BY <1>1 DEF TypeOK, Refs
  <1>3. SentinelsUntouched'
    BY DEF TypeOK, Refs, SentinelsUntouched
  <1>4. Pointers'
    <2> SUFFICES ASSUME NEW q \in Requests
                 PROVE  /\ ptr'[q] \in Sentinels \cup {q}
                        /\ heap'[q].details \subseteq {q}
                        /\ err'[q] = "fiber" => ptr'[q] = q /\ heap'[q].status \in {405, 409}
      BY DEF Pointers
    <2>1. CASE q = r
      BY <1>1, <2>1 DEF TypeOK, Refs
    <2>2. CASE q # r
      BY <2>2 DEF TypeOK, Pointers, Refs
    <2> QED
      BY <2>1, <2>2
  <1>5. DetailsStayPrivate'
    BY DEF TypeOK, DetailsStayPrivate
  <1>6. BodiesFit'
    <2> SUFFICES ASSUME NEW q \in Requests, ~garbled'[q]
                 PROVE  Fits(status'[q], body'[q])
      BY DEF BodiesFit, Fits
    <2>1. CASE q = r
      BY <2>1 DEF TypeOK
    <2>2. CASE q # r
      BY <2>2 DEF TypeOK, BodiesFit
    <2> QED
      BY <2>1, <2>2
  <1>7. FailuresShow' /\ NoUserYet'
    BY DEF TypeOK, FailuresShow, NoUserYet
  <1> QED
    BY <1>2, <1>3, <1>4, <1>5, <1>6, <1>7

(* The handler's calls into the library preserve the invariant.            *)
LEMMA HandlerStep ==
  ASSUME IInv, NEW r \in Requests, Obtain(r) \/ Write(r)
  PROVE  IInv'
  <1> DEFINE empty == Object(0, "none")
  <1>0. empty \in Objects /\ empty.details = {}
    BY Nothing
  <1>1. CASE UseSentinel(r)
    <2>1. PICK e \in Sentinels : Holds(r, "app", e)
      BY <1>1 DEF UseSentinel
    <2>2. heap' = [heap EXCEPT ![r] = empty]
      BY <1>1 DEF UseSentinel, Without
    <2> HIDE DEF empty
    <2> QED
      BY <1>0, <2>1, <2>2, HoldsStep
  <1>2. CASE NewError(r)
    <2>0. PICK made \in Made : heap' = [heap EXCEPT ![r] = Object(made.status, made.code)]
      BY <1>2 DEF NewError
    <2>1. PICK s \in OwnStatuses, code \in Codes : heap' = [heap EXCEPT ![r] = Object(s, code)]
      BY <2>0, MadeAssumption
    <2>2. Holds(r, "app", r)
      BY <1>2 DEF NewError
    <2> QED
      BY <2>1, <2>2, ObjectFacts, HoldsStep
  <1>3. CASE NewFiberError(r)
    <2>1. PICK s \in {405, 409} : heap' = [heap EXCEPT ![r] = Object(s, "none")]
      BY <1>3 DEF NewFiberError
    <2>2. Object(s, "none") \in Objects /\ Object(s, "none").details = {} /\ Object(s, "none").status = s
      BY ObjectFacts, StatusFacts, LibraryCodeFacts
    <2>3. Holds(r, "fiber", r)
      BY <1>3 DEF NewFiberError
    <2> DEFINE h == Object(s, "none")
    <2>4. h \in Objects /\ h.details = {} /\ h.status = s /\ heap' = [heap EXCEPT ![r] = h]
      BY <2>1, <2>2
    <2> HIDE DEF h
    <2> QED
      BY <2>3, <2>4, HoldsStep
  <1>4. CASE OtherError(r)
    <2>1. heap' = [heap EXCEPT ![r] = empty]
      BY <1>4 DEF OtherError, Without
    <2> HIDE DEF empty
    <2> QED
      BY <1>0, <1>4, <2>1, HoldsStep DEF OtherError
  <1>5. CASE WithDetails(r)
    <2>1. PICK b \in BOOLEAN :
             heap' = [heap EXCEPT ![r] = WithDetailsOf(heap[ptr[r]], r, b)]
      BY <1>5 DEF WithDetails
    <2> DEFINE h == WithDetailsOf(heap[ptr[r]], r, b)
    <2>2. heap[ptr[r]] \in Objects
      BY <1>5 DEF WithDetails, IInv, TypeOK, Pointers
    <2>3. h \in Objects /\ h.details = {r}
      BY <2>2 DEF Objects, WithDetailsOf
    <2>4. Holds(r, "app", r) /\ heap' = [heap EXCEPT ![r] = h]
      BY <1>5, <2>1 DEF WithDetails
    <2> HIDE DEF h
    <2> QED
      BY <2>3, <2>4, HoldsStep
  <1>6. CASE Success(r)
    <2>1. PICK b \in BOOLEAN : JSON(r, status[r], Plain("success"), b)
      BY <1>6 DEF Success
    <2>2. status[r] \in Statuses /\ Fits(status[r], Plain("success"))
      BY PlainBodies DEF Fits, IInv, TypeOK
    <2> QED
      BY <2>1, <2>2, PlainBodies, JSONStep
  <1>7. CASE Created(r)
    BY <1>7, PlainBodies, JSONStep DEF Created, Fits, Statuses
  <1>8. CASE NoContent(r)
    <2> DEFINE b == IF body[r].form = "empty" THEN Plain("text") ELSE body[r]
    <2>1. b \in Bodies /\ b.details \subseteq {r}
      BY PlainBodies DEF IInv, TypeOK, DetailsStayPrivate
    <2>2. JSON(r, 204, b, TRUE) /\ Fits(204, b) /\ 204 \in Statuses
      BY <1>8 DEF NoContent, Fits, Statuses
    <2> HIDE DEF b
    <2> QED
      BY <2>1, <2>2, JSONStep
  <1>9. CASE Error(r)
    <2>1. CASE err[r] = "app"
      <3> DEFINE h == heap[ptr[r]]
                 b == ErrorBody(h.code, h.status, "resolved", h.details)
      <3>1. h \in Objects /\ h.details \subseteq {r}
        BY DEF IInv, TypeOK, Pointers, SentinelsUntouched
      <3>2. h.code \in Codes /\ h.status \in OwnStatuses /\ h.details \in SUBSET Requests /\ h.encodable \in BOOLEAN
        BY <3>1 DEF Objects
      <3>3. JSON(r, ErrorStatus(h), b, h.encodable)
        BY <1>9, <2>1 DEF Error
      <3> HIDE DEF h
      <3>4. b \in Bodies /\ b.details \subseteq {r} /\ b.code = h.code /\ b.own = h.status
        BY <3>1, <3>2, ErrorBodies
      <3>5. ErrorStatus(h) \in Statuses /\ ErrorStatus(h) = Resolved(h.status, h.code)
        BY <3>2, ResolvedStatus, StatusFacts DEF ErrorStatus, Resolved
      <3> HIDE DEF b
      <3>6. Fits(ErrorStatus(h), b)
        BY <3>4, <3>5 DEF Fits
      <3> QED
        BY <3>2, <3>3, <3>4, <3>5, <3>6, JSONStep
    <2>2. CASE err[r] # "app"
      <3> DEFINE b == ErrorBody("INTERNAL_SERVER_ERROR", 500, "raw", {})
      <3>1. JSON(r, 500, b, TRUE)
        BY <1>9, <2>2 DEF Error
      <3>2. b \in Bodies /\ b.details \subseteq {r} /\ b.own = 500
        BY ErrorBodies, StatusFacts, LibraryCodeFacts
      <3> HIDE DEF b
      <3>3. Fits(500, b)
        BY <3>2 DEF Fits, Resolved
      <3>4. 500 \in Statuses
        BY StatusFacts
      <3> QED
        BY <3>1, <3>2, <3>3, <3>4, JSONStep
    <2> QED
      BY <2>1, <2>2
  <1>10. CASE GetUser(r)
    <2>1. NewUnauthorized \in Objects /\ NewUnauthorized.details = {}
      BY ObjectFacts, StatusFacts, LibraryCodeFacts DEF NewUnauthorized
    <2>2. Holds(r, "app", r) /\ heap' = [heap EXCEPT ![r] = NewUnauthorized]
      BY <1>10 DEF GetUser
    <2> QED
      BY <2>1, <2>2, HoldsStep
  <1> QED
    BY <1>1, <1>2, <1>3, <1>4, <1>5, <1>6, <1>7, <1>8, <1>9, <1>10 DEF Obtain, Write

-----------------------------------------------------------------------------
(* Before the handler, and after it                                        *)

(* A step that leaves every error object alone but that of r.              *)
LEMMA ObjectOfR ==
  ASSUME IInv, NEW r \in Requests, NEW h \in Objects, h.details = {},
         heap' = [heap EXCEPT ![r] = h],
         NEW type \in {"nil", "app"}, err' = [err EXCEPT ![r] = type],
         ptr' = [ptr EXCEPT ![r] = r]
  PROVE  /\ heap' \in [Refs -> Objects] /\ ptr' \in [Requests -> Refs]
         /\ err' \in [Requests -> {"nil", "app", "fiber", "plain"}]
         /\ SentinelsUntouched' /\ Pointers'
  <1> USE DEF IInv
  <1>1. /\ heap' \in [Refs -> Objects] /\ ptr' \in [Requests -> Refs]
        /\ err' \in [Requests -> {"nil", "app", "fiber", "plain"}]
    BY DEF TypeOK, Refs
  <1>2. SentinelsUntouched'
    BY DEF TypeOK, Refs, SentinelsUntouched
  <1>3. Pointers'
    <2> SUFFICES ASSUME NEW q \in Requests
                 PROVE  /\ ptr'[q] \in Sentinels \cup {q}
                        /\ heap'[q].details \subseteq {q}
                        /\ err'[q] = "fiber" => ptr'[q] = q /\ heap'[q].status \in {405, 409}
      BY DEF Pointers
    <2>1. CASE q = r
      BY <2>1 DEF TypeOK, Refs
    <2>2. CASE q # r
      BY <2>2 DEF TypeOK, Pointers, Refs
    <2> QED
      BY <2>1, <2>2
  <1> QED
    BY <1>1, <1>2, <1>3

(* The middlewares preserve the invariant.                                 *)
LEMMA GuardStep ==
  ASSUME IInv, NEW r \in Requests, Guard(r)
  PROVE  IInv'
  <1> USE DEF IInv, Leave, errVars, ansVars
  <1>1. NoHeader \in Headers
    BY DEF Headers
  <1>2. CASE Admit(r) \/ Pass(r)
    <2>1. TypeOK'
      <3>1. CASE Admit(r)
        BY <1>1, <3>1 DEF TypeOK, Admit
      <3>2. CASE Pass(r)
        BY <1>1, <3>2 DEF TypeOK, Pass
      <3> QED
        BY <1>2, <3>1, <3>2
    <2>2. SentinelsUntouched' /\ Pointers' /\ DetailsStayPrivate' /\ BodiesFit'
      BY <1>2 DEF Admit, Pass, SentinelsUntouched, Pointers, DetailsStayPrivate, BodiesFit
    <2>3. FailuresShow' /\ NoUserYet'
      BY <1>2 DEF TypeOK, Admit, Pass, FailuresShow, NoUserYet
    <2> QED
      BY <2>1, <2>2, <2>3
  <1>3. CASE Refuse(r)
    <2>1. /\ heap' \in [Refs -> Objects] /\ ptr' \in [Requests -> Refs]
          /\ err' \in [Requests -> {"nil", "app", "fiber", "plain"}]
          /\ SentinelsUntouched' /\ Pointers'
      <3>1. NewUnauthorized \in Objects /\ NewUnauthorized.details = {}
        BY ObjectFacts, StatusFacts, LibraryCodeFacts DEF NewUnauthorized
      <3> QED
        BY <1>3, <3>1, ObjectOfR DEF Refuse
    <2>2. TypeOK'
      BY <1>1, <1>3, <2>1 DEF TypeOK, Refuse
    <2>3. DetailsStayPrivate' /\ BodiesFit'
      BY <1>3 DEF Refuse, DetailsStayPrivate, BodiesFit
    <2>4. FailuresShow' /\ NoUserYet'
      BY <1>3 DEF TypeOK, Refuse, FailuresShow, NoUserYet
    <2> QED
      BY <2>1, <2>2, <2>3, <2>4
  <1> QED
    BY <1>2, <1>3 DEF Guard

LEMMA FrameworkCodes ==
  /\ getErrorCodeFromStatus(409) = "CONFLICT"
  /\ getErrorCodeFromStatus(405) = "INTERNAL_SERVER_ERROR"
  BY DEF getErrorCodeFromStatus

(* What ErrorHandler writes fits the error it was given.                   *)
LEMMA HandlerWrites ==
  ASSUME IInv, NEW r \in Requests, err[r] # "nil"
  PROVE  /\ HandlerStatus(r) \in ErrorStatuses
         /\ HandlerBody(r) \in Bodies /\ HandlerBody(r).form = "error"
         /\ HandlerBody(r).message # "raw" /\ HandlerBody(r).details \subseteq {r}
         /\ Fits(HandlerStatus(r), HandlerBody(r))
  <1> DEFINE h == heap[ptr[r]]
             c == "INTERNAL_SERVER_ERROR"
  <1> USE DEF IInv
  <1>1. CASE err[r] = "app"
    <2>1. h \in Objects /\ h.details \subseteq {r}
      BY DEF TypeOK, Pointers, SentinelsUntouched
    <2>2. h.code \in Codes /\ h.status \in OwnStatuses /\ h.details \in SUBSET Requests
      BY <2>1 DEF Objects
    <2>3. HandlerStatus(r) = Resolved(h.status, h.code)
      BY <1>1 DEF HandlerStatus, Resolved
    <2>4. HandlerBody(r) = ErrorBody(h.code, h.status, "resolved", h.details)
      BY <1>1 DEF HandlerBody
    <2> HIDE DEF h
    <2>5. /\ HandlerBody(r) \in Bodies /\ HandlerBody(r).form = "error"
          /\ HandlerBody(r).message = "resolved" /\ HandlerBody(r).details = h.details
          /\ HandlerBody(r).code = h.code /\ HandlerBody(r).own = h.status
      BY <2>2, <2>4, ErrorBodies
    <2> QED
      BY <2>1, <2>2, <2>3, <2>5, ResolvedStatus DEF Fits
  <1>2. CASE err[r] = "fiber"
    <2>1. h.status \in {405, 409} /\ HandlerStatus(r) = h.status
      BY <1>2 DEF Pointers, HandlerStatus
    <2> DEFINE code == getErrorCodeFromStatus(h.status)
    <2>2. code \in Codes /\ h.status \in OwnStatuses /\ h.status \in ErrorStatuses
      BY <2>1, FrameworkCodes, StatusFacts, LibraryCodeFacts
    <2>3. HandlerBody(r) = ErrorBody(code, h.status, "framework", {})
      BY <1>2 DEF HandlerBody
    <2> HIDE DEF code, h
    <2>4. /\ HandlerBody(r) \in Bodies /\ HandlerBody(r).form = "error"
          /\ HandlerBody(r).message = "framework" /\ HandlerBody(r).details = {}
          /\ HandlerBody(r).own = h.status
      BY <2>2, <2>3, ErrorBodies
    <2> QED
      BY <2>1, <2>2, <2>4, StatusFacts DEF Fits, Resolved
  <1>3. CASE err[r] = "plain"
    <2>1. HandlerStatus(r) = 500 /\ HandlerBody(r) = ErrorBody(c, 500, "generic", {})
      BY <1>3 DEF HandlerStatus, HandlerBody, HandlerMessage
    <2>2. /\ HandlerBody(r) \in Bodies /\ HandlerBody(r).form = "error"
          /\ HandlerBody(r).message = "generic" /\ HandlerBody(r).details = {}
          /\ HandlerBody(r).own = 500
      BY <2>1, ErrorBodies, StatusFacts, LibraryCodeFacts
    <2> QED
      BY <2>1, <2>2, StatusFacts DEF Fits, Resolved
  <1> QED
    BY <1>1, <1>2, <1>3 DEF TypeOK

(* The end of a request preserves the invariant.                           *)
LEMMA EndStep ==
  ASSUME IInv, NEW r \in Requests, End(r)
  PROVE  IInv'
  <1> USE DEF IInv, errVars, ansVars
  <1> DEFINE nothing == Object(0, "none")
  <1>0. nothing \in Objects /\ nothing.details = {}
    BY Nothing
  <1>1. CASE Return(r)
    <2>1. TypeOK'
      BY <1>1 DEF TypeOK, Return
    <2>2. SentinelsUntouched' /\ Pointers' /\ DetailsStayPrivate' /\ BodiesFit'
      BY <1>1 DEF Return, SentinelsUntouched, Pointers, DetailsStayPrivate, BodiesFit
    <2>3. FailuresShow' /\ NoUserYet'
      BY <1>1 DEF TypeOK, Return, FailuresShow, NoUserYet
    <2> QED
      BY <2>1, <2>2, <2>3
  <1>2. CASE Panic(r)
    <2> DEFINE b == ErrorBody("INTERNAL_SERVER_ERROR", 500, "generic", {})
    <2>1. heap' = [heap EXCEPT ![r] = nothing] /\ body' = [body EXCEPT ![r] = b]
      BY <1>2 DEF Panic, Without
    <2>2. status' = [status EXCEPT ![r] = 500]
      BY <1>2 DEF Panic, RecoveredStatus
    <2>3. /\ b \in Bodies /\ b.form = "error" /\ b.own = 500
          /\ b.message = "generic" /\ b.details = {}
      BY ErrorBodies, StatusFacts, LibraryCodeFacts
    <2> HIDE DEF b, nothing
    <2>4. /\ heap' \in [Refs -> Objects] /\ ptr' \in [Requests -> Refs]
          /\ err' \in [Requests -> {"nil", "app", "fiber", "plain"}]
          /\ SentinelsUntouched' /\ Pointers'
      BY <1>0, <1>2, <2>1, ObjectOfR DEF Panic
    <2>5. TypeOK'
      <3>1. status' \in [Requests -> Statuses] /\ body' \in [Requests -> Bodies]
        BY <2>1, <2>2, <2>3, StatusFacts DEF TypeOK
      <3> QED
        BY <1>2, <2>4, <3>1 DEF TypeOK, Panic
    <2>6. DetailsStayPrivate'
      BY <2>1, <2>3 DEF TypeOK, DetailsStayPrivate
    <2>7. BodiesFit'
      BY <1>2, <2>1, <2>2, <2>3 DEF TypeOK, Panic, BodiesFit, Fits, Resolved
    <2>8. FailuresShow' /\ NoUserYet'
      BY <1>2, <2>1, <2>2, <2>3 DEF TypeOK, Panic, FailuresShow, NoUserYet
    <2> QED
      BY <2>4, <2>5, <2>6, <2>7, <2>8
  <1>3. CASE AnswerAsIs(r)
    <2>1. heap' = [heap EXCEPT ![r] = nothing]
      BY <1>3 DEF AnswerAsIs, Answered, Without
    <2> HIDE DEF nothing
    <2>2. /\ heap' \in [Refs -> Objects] /\ ptr' \in [Requests -> Refs]
          /\ err' \in [Requests -> {"nil", "app", "fiber", "plain"}]
          /\ SentinelsUntouched' /\ Pointers'
      BY <1>0, <1>3, <2>1, ObjectOfR DEF AnswerAsIs, Answered
    <2>3. TypeOK'
      BY <1>3, <2>2 DEF TypeOK, AnswerAsIs, Answered
    <2>4. DetailsStayPrivate' /\ BodiesFit'
      BY <1>3 DEF AnswerAsIs, DetailsStayPrivate, BodiesFit
    <2>5. FailuresShow' /\ NoUserYet'
      BY <1>3 DEF TypeOK, AnswerAsIs, Answered, FailuresShow, NoUserYet
    <2> QED
      BY <2>2, <2>3, <2>4, <2>5
  <1>4. CASE ErrorHandler(r)
    <2>1. heap' = [heap EXCEPT ![r] = nothing]
      BY <1>4 DEF ErrorHandler, Answered, Without
    <2> HIDE DEF nothing
    <2>2. /\ heap' \in [Refs -> Objects] /\ ptr' \in [Requests -> Refs]
          /\ err' \in [Requests -> {"nil", "app", "fiber", "plain"}]
          /\ SentinelsUntouched' /\ Pointers'
      BY <1>0, <1>4, <2>1, ObjectOfR DEF ErrorHandler, Answered
    <2> DEFINE Writes(s, b) ==
          /\ status' = [status EXCEPT ![r] = s] /\ body' = [body EXCEPT ![r] = b]
          /\ b.details \subseteq {r}
          /\ ~garbled'[r] => b.form = "error" /\ b.message # "raw" /\ Fits(s, b)
    <2>3. PICK s \in ErrorStatuses, b \in Bodies : Writes(s, b)
      <3>1. CASE err[r] = "app" => heap[ptr[r]].encodable
        <4>1. /\ status' = [status EXCEPT ![r] = HandlerStatus(r)]
              /\ body' = [body EXCEPT ![r] = HandlerBody(r)]
          BY <1>4, <3>1 DEF ErrorHandler
        <4>2. err[r] # "nil"
          BY <1>4 DEF ErrorHandler
        <4>3. HandlerStatus(r) \in ErrorStatuses /\ HandlerBody(r) \in Bodies
          BY <4>2, HandlerWrites
        <4>4. Writes(HandlerStatus(r), HandlerBody(r))
          BY <4>1, <4>2, HandlerWrites
        <4> HIDE DEF Writes
        <4> QED
          BY <4>3, <4>4
      <3>2. CASE err[r] = "app" /\ ~heap[ptr[r]].encodable
        <4>1. PICK b \in Bodies : b.details \subseteq {r} /\ body' = [body EXCEPT ![r] = b]
          <5>1. CASE body[r].form = "empty"
            BY <1>4, <3>2, <5>1, PlainBodies DEF ErrorHandler
          <5>2. CASE body[r].form # "empty"
            <6>1. body[r] \in Bodies /\ body[r].details \subseteq {r}
              BY DEF TypeOK, DetailsStayPrivate
            <6>2. body' = [body EXCEPT ![r] = body[r]]
              BY <1>4, <3>2, <5>2 DEF ErrorHandler, TypeOK
            <6> QED
              BY <6>1, <6>2
          <5> QED
            BY <5>1, <5>2
        <4>2. status' = [status EXCEPT ![r] = 500]
          BY <1>4, <3>2 DEF ErrorHandler
        <4>3. garbled'[r]
          BY <1>4, <3>2 DEF ErrorHandler, TypeOK
        <4>4. Writes(500, b) /\ 500 \in ErrorStatuses
          BY <4>1, <4>2, <4>3, StatusFacts
        <4> HIDE DEF Writes
        <4> QED
          BY <4>1, <4>4
      <3> QED
        BY <3>1, <3>2
    <2>4. garbled' \in [Requests -> BOOLEAN] /\ \A q \in Requests \ {r} : garbled'[q] = garbled[q]
      <3>1. PICK g \in BOOLEAN : garbled' = [garbled EXCEPT ![r] = g]
        BY <1>4 DEF ErrorHandler
      <3>2. garbled \in [Requests -> BOOLEAN]
        BY DEF TypeOK
      <3> QED
        BY <3>1, <3>2
    <2>5. TypeOK'
      <3>1. Answered(r)
        BY <1>4 DEF ErrorHandler
      <3>2. /\ phase' \in [Requests -> {"idle", "arrived", "handling", "returned", "answered"}]
            /\ user' \in [Requests -> BOOLEAN] /\ calls' \in 0..MaxCalls
        BY <3>1, MaxCallsAssumption DEF TypeOK, Answered
      <3>3. status' \in [Requests -> Statuses] /\ body' \in [Requests -> Bodies]
        BY <2>3, StatusFacts DEF TypeOK
      <3> QED
        BY <2>2, <2>4, <3>1, <3>2, <3>3 DEF TypeOK, Answered
    <2>6. DetailsStayPrivate'
      BY <2>3 DEF TypeOK, DetailsStayPrivate
    <2>7. BodiesFit'
      <3> SUFFICES ASSUME NEW q \in Requests, ~garbled'[q]
                   PROVE  Fits(status'[q], body'[q])
        BY DEF BodiesFit, Fits
      <3>1. CASE q = r
        BY <2>3, <3>1 DEF TypeOK
      <3>2. CASE q # r
        BY <2>3, <2>4, <3>2 DEF TypeOK, BodiesFit
      <3> QED
        BY <3>1, <3>2
    <2>8. FailuresShow' /\ NoUserYet'
      <3>1. s >= 400
        BY StatusFacts
      <3> QED
        BY <1>4, <2>3, <2>4, <3>1 DEF TypeOK, ErrorHandler, Answered, FailuresShow, NoUserYet
    <2> QED
      BY <2>2, <2>5, <2>6, <2>7, <2>8
  <1> QED
    BY <1>1, <1>2, <1>3, <1>4 DEF End

-----------------------------------------------------------------------------
(* The invariant, and what follows from it                                 *)

(* Every step preserves the inductive invariant.                           *)
LEMMA InvStep == IInv /\ [Next]_vars => IInv'
  <1> SUFFICES ASSUME IInv, [Next]_vars
               PROVE  IInv'
    OBVIOUS
  <1>1. CASE Tick
    <2>1. TypeOK'
      BY <1>1 DEF IInv, TypeOK, Tick, Time, reqVars, errVars, ansVars
    <2> QED
      BY <1>1, <2>1 DEF IInv, Tick, reqVars, errVars, ansVars, SentinelsUntouched, Pointers,
         DetailsStayPrivate, BodiesFit, FailuresShow, NoUserYet
  <1>2. ASSUME NEW r \in Requests, Arrive(r)
        PROVE  IInv'
    <2>1. TypeOK'
      BY <1>2 DEF IInv, TypeOK, Arrive, errVars, ansVars
    <2>2. FailuresShow' /\ NoUserYet'
      BY <1>2 DEF IInv, TypeOK, Arrive, errVars, ansVars, FailuresShow, NoUserYet
    <2> QED
      BY <1>2, <2>1, <2>2 DEF IInv, Arrive, errVars, ansVars, SentinelsUntouched, Pointers,
         DetailsStayPrivate, BodiesFit
  <1>3. CASE UNCHANGED vars
    BY <1>3 DEF IInv, TypeOK, vars, reqVars, errVars, ansVars, SentinelsUntouched, Pointers,
       DetailsStayPrivate, BodiesFit, FailuresShow, NoUserYet
  <1> QED
    BY <1>1, <1>2, <1>3, GuardStep, HandlerStep, EndStep DEF Next, Terminated

(* The inductive invariant holds in every reachable state.                 *)
THEOREM Invariant == Spec => []IInv
  BY InvInit, InvStep, PTL DEF Spec

(* What a header holds, whatever its form.                                 *)
LEMMA HeaderFields ==
  ASSUME NEW h \in Headers
  PROVE  h.issued \in Nat /\ h.uuid \in BOOLEAN
  <1>1. CASE h = NoHeader
    BY <1>1 DEF NoHeader
  <1>2. CASE h \in [form : {"malformed", "forged"}, uuid : {FALSE}, issued : {0}]
    <2>1. h.uuid \in {FALSE} /\ h.issued \in {0}
      BY <1>2
    <2>2. FALSE \in BOOLEAN /\ 0 \in Nat
      OBVIOUS
    <2> QED
      BY <2>1, <2>2, Zenon
  <1>3. CASE h \in [form : {"genuine"}, uuid : BOOLEAN, issued : Time]
    BY <1>3, MaxTimeAssumption DEF Time
  <1> QED
    BY <1>1, <1>2, <1>3 DEF Headers

(* Tokens do not come from the future, a step further.                     *)
LEMMA IssuedStep == IInv /\ IssuedBefore /\ [Next]_vars => IssuedBefore'
  <1> SUFFICES ASSUME IInv, IssuedBefore, [Next]_vars, NEW r \in Requests
               PROVE  header'[r].issued <= clock'
    BY DEF IssuedBefore
  <1> USE DEF IInv, TypeOK, reqVars, Time
  <1>1. clock \in Nat /\ header[r].issued <= clock /\ NoHeader.issued <= clock
    BY DEF IssuedBefore, NoHeader
  <1>2. header[r].issued \in Nat
    BY HeaderFields
  <1>3. CASE Tick \/ UNCHANGED vars
    BY <1>1, <1>2, <1>3 DEF Tick, vars
  <1>4. ASSUME NEW q \in Requests, Arrive(q)
        PROVE  header'[r].issued <= clock'
    BY <1>1, <1>4 DEF Arrive
  <1>5. ASSUME NEW q \in Requests, Guard(q)
        PROVE  header'[r].issued <= clock'
    BY <1>1, <1>5 DEF Guard, Admit, Pass, Refuse, Leave
  <1>6. ASSUME NEW q \in Requests, Obtain(q) \/ Write(q)
        PROVE  UNCHANGED <<clock, header>>
    BY <1>6 DEF Obtain, UseSentinel, NewError, GetUser, NewFiberError, OtherError, WithDetails, Holds,
       Write, Success, Created, NoContent, Error, JSON, Call
  <1>7. ASSUME NEW q \in Requests, End(q)
        PROVE  UNCHANGED <<clock, header>>
    BY <1>7 DEF End, Return, Panic, AnswerAsIs, ErrorHandler, Answered
  <1> QED
    BY <1>1, <1>3, <1>4, <1>5, <1>6, <1>7 DEF Next, Terminated

(* ... and so for ever.                                                    *)
LEMMA Issued == Spec => []IssuedBefore
  <1>1. Init => IssuedBefore
    <2> SUFFICES ASSUME Init, NEW r \in Requests
                 PROVE  header[r].issued <= clock
      BY DEF IssuedBefore
    <2>1. clock = 0 /\ header[r].issued = 0
      BY DEF Init, NoHeader
    <2> QED
      BY <2>1
  <1> QED
    BY <1>1, IssuedStep, Invariant, PTL DEF Spec

(* Type correctness; every answer has a status of the model, 0 not being   *)
(* one.                                                                    *)
THEOREM TypeCorrect == Spec => []TypeOK
  BY Invariant, PTL DEF IInv

(* No answer carries the details of another request, however many requests *)
(* share the sentinels.                                                    *)
THEOREM DetailsPrivate == Spec => []DetailsStayPrivate
  BY Invariant, PTL DEF IInv

(* A request that failed is answered with an error, whatever its handler   *)
(* wrote before.                                                           *)
THEOREM FailuresAnswered == Spec => []FailureIsAnError
  <1>1. IInv => FailureIsAnError
    BY DEF IInv, TypeOK, Statuses, FailuresShow, FailureIsAnError, ErrorSent
  <1> QED
    BY <1>1, Invariant, PTL

(* The raw text of an error or a panic is not in the answer to a failure.  *)
THEOREM RawHidden == Spec => []RawStaysInside
  <1>1. IInv => RawStaysInside
    BY DEF IInv, FailuresShow, RawStaysInside
  <1> QED
    BY <1>1, Invariant, PTL

(* An error is answered under its own status, or else the one registered   *)
(* for its code, whichever of the two paths it took.                       *)
THEOREM ErrorsAnsweredAlike == Spec => []OneErrorOneStatus
  <1>1. IInv => OneErrorOneStatus
    BY DEF IInv, BodiesFit, Fits, Resolved, OneErrorOneStatus, ErrorSent
  <1> QED
    BY <1>1, Invariant, PTL

(* What a step may do to the user of a request: only what its middleware   *)
(* does, or Fiber at the end.                                              *)
LEMMA UserSteps ==
  ASSUME IInv, [Next]_vars, NEW r \in Requests
  PROVE  \/ phase'[r] = phase[r] /\ user'[r] = user[r]
         \/ phase[r] = "idle" /\ phase'[r] = "arrived" /\ user'[r] = user[r]
         \/ Guard(r)
         \/ phase[r] = "handling" /\ phase'[r] = "returned" /\ user'[r] = user[r]
         \/ phase[r] = "returned" /\ phase'[r] = "answered" /\ user'[r] = FALSE
  <1> USE DEF reqVars
  <1>0. /\ phase \in [Requests -> {"idle", "arrived", "handling", "returned", "answered"}]
        /\ user \in [Requests -> BOOLEAN]
    BY DEF IInv, TypeOK
  <1>1. ASSUME NEW q \in Requests, Arrive(q)
        PROVE  /\ q = r => phase[r] = "idle" /\ phase'[r] = "arrived"
               /\ q # r => phase'[r] = phase[r]
               /\ user'[r] = user[r]
    BY <1>0, <1>1 DEF Arrive
  <1>2. ASSUME NEW q \in Requests, Guard(q), q # r
        PROVE  phase'[r] = phase[r] /\ user'[r] = user[r]
    <2>1. phase'[r] = phase[r]
      BY <1>0, <1>2 DEF Guard, Admit, Pass, Refuse, Leave
    <2>2. user' = user \/ user' = [user EXCEPT ![q] = TRUE]
      BY <1>2 DEF Guard, Admit, Pass, Refuse
    <2>3. user'[r] = user[r]
      BY <1>0, <1>2, <2>2
    <2> QED
      BY <2>1, <2>3
  <1>3. ASSUME NEW q \in Requests, Obtain(q) \/ Write(q)
        PROVE  phase' = phase /\ user' = user
    BY <1>3 DEF Obtain, UseSentinel, NewError, GetUser, NewFiberError, OtherError, WithDetails, Holds,
       Write, Success, Created, NoContent, Error, JSON, Call
  <1>4. ASSUME NEW q \in Requests, Return(q) \/ Panic(q)
        PROVE  /\ q = r => phase[r] = "handling" /\ phase'[r] = "returned"
               /\ q # r => phase'[r] = phase[r]
               /\ user'[r] = user[r]
    BY <1>0, <1>4 DEF Return, Panic
  <1>5. ASSUME NEW q \in Requests, Answered(q)
        PROVE  /\ q = r => phase[r] = "returned" /\ phase'[r] = "answered" /\ user'[r] = FALSE
               /\ q # r => phase'[r] = phase[r] /\ user'[r] = user[r]
    <2>1. phase[q] = "returned" /\ phase' = [phase EXCEPT ![q] = "answered"]
      BY <1>5 DEF Answered
    <2>2. user' = [user EXCEPT ![q] = FALSE]
      BY <1>5 DEF Answered
    <2>3. q = r => user'[r] = FALSE
      BY <1>0, <2>2
    <2>4. q # r => user'[r] = user[r]
      BY <1>0, <2>2
    <2> QED
      BY <1>0, <2>1, <2>3, <2>4
  <1>6. CASE Tick \/ UNCHANGED vars
    BY <1>6 DEF Tick, vars
  <1>7. CASE \E q \in Requests : Arrive(q)
    BY <1>1, <1>7
  <1>8. CASE \E q \in Requests : Guard(q)
    BY <1>2, <1>8
  <1>9. CASE \E q \in Requests : Obtain(q) \/ Write(q)
    BY <1>3, <1>9
  <1>10. CASE \E q \in Requests : End(q)
    <2>1. PICK q \in Requests : Return(q) \/ Panic(q) \/ Answered(q)
      BY <1>10 DEF End, AnswerAsIs, ErrorHandler
    <2>2. CASE Return(q) \/ Panic(q)
      BY <1>4, <2>2
    <2>3. CASE Answered(q)
      BY <1>5, <2>3
    <2> QED
      BY <2>1, <2>2, <2>3
  <1> QED
    BY <1>6, <1>7, <1>8, <1>9, <1>10 DEF Next, Terminated

(* No step lets a user in, or refuses one, but on the merits of a token.   *)
THEOREM UsersVouched == Spec => UserIsVouched
  <1> DEFINE Vouched(r) ==
        /\ phase[r] = "arrived" /\ phase'[r] = "handling" =>
              /\ guard[r] = "required" => user'[r]
              /\ guard[r] = "none" => ~user'[r]
        /\ user'[r] /\ ~user[r] => header[r].form = "genuine" /\ header[r].uuid
        /\ phase'[r] = "handling" /\ user[r] => user'[r]
  <1>1. ASSUME IInv, [Next]_vars, NEW r \in Requests
        PROVE  Vouched(r)
    <2>0. user \in [Requests -> BOOLEAN]
      BY <1>1 DEF IInv, TypeOK
    <2>1. CASE Guard(r)
      <3>1. phase[r] = "arrived" /\ ~user[r]
        BY <1>1, <2>1 DEF IInv, NoUserYet, Guard, Admit, Pass, Refuse, Leave
      <3>2. CASE Admit(r)
        <4>1. guard[r] # "none" /\ header[r].form = "genuine" /\ header[r].uuid
          BY <3>2 DEF Admit, Trusted, Valid
        <4>2. user' = [user EXCEPT ![r] = TRUE]
          BY <3>2 DEF Admit
        <4>3. user'[r]
          BY <2>0, <4>2
        <4> QED
          BY <3>1, <4>1, <4>3
      <3>3. CASE Pass(r)
        <4>1. user' = user /\ guard[r] # "required"
          BY <3>3 DEF Pass
        <4> QED
          BY <3>1, <4>1
      <3>4. CASE Refuse(r)
        <4>1. user' = user /\ guard[r] = "required"
          BY <3>4 DEF Refuse
        <4>2. phase'[r] = "returned"
          BY <1>1, <3>4 DEF IInv, TypeOK, Refuse, Leave
        <4> QED
          BY <3>1, <4>1, <4>2
      <3> QED
        BY <2>1, <3>2, <3>3, <3>4 DEF Guard
    <2> QED
      BY <1>1, <2>1, UserSteps
  <1>2. IInv /\ [Next]_vars => \A r \in Requests : Vouched(r)
    BY <1>1
  <1> QED
    BY <1>2, Invariant, PTL DEF Spec, UserIsVouched

(* A token is good for its expiry, less the fraction of a second that      *)
(* NumericDate cuts off.                                                   *)
THEOREM TokensLastTheirTime == Spec => TokensLast
  <1> DEFINE Lasts(r) ==
        /\ user'[r] /\ ~user[r] => clock < header[r].issued + Expiry
        /\ phase[r] = "arrived" /\ phase'[r] = "returned"
              /\ header[r].form = "genuine" /\ header[r].uuid =>
              header[r].issued + Expiry < clock + Second
  <1>1. ASSUME IInv, IssuedBefore, [Next]_vars, NEW r \in Requests
        PROVE  Lasts(r)
    <2> DEFINE h == header[r]
    <2>1. /\ clock \in Nat /\ h.issued \in Nat /\ h.issued <= clock
          /\ h.issued + Expiry \in Nat
      BY <1>1, HeaderFields, MaxTimeAssumption, ExpiryAssumption
         DEF IInv, TypeOK, Time, IssuedBefore
    <2>2. NumericDate(h.issued) \in Nat /\ NumericDate(h.issued) <= h.issued
      BY <2>1, Truncation
    <2>3. /\ NumericDate(h.issued + Expiry) \in Nat
          /\ NumericDate(h.issued + Expiry) <= h.issued + Expiry
          /\ h.issued + Expiry < NumericDate(h.issued + Expiry) + Second
      BY <2>1, Truncation
    <2>4. phase \in [Requests -> {"idle", "arrived", "handling", "returned", "answered"}]
      BY <1>1 DEF IInv, TypeOK
    <2>5. CASE Admit(r)
      <3>1. clock < NumericDate(h.issued + Expiry)
        BY <2>5 DEF Admit, Trusted, Valid
      <3>2. clock < h.issued + Expiry
        BY <2>1, <2>3, <3>1
      <3>3. phase'[r] # "returned"
        BY <2>4, <2>5 DEF Admit, Leave
      <3> QED
        BY <3>2, <3>3
    <2>6. CASE Pass(r)
      <3>1. user' = user
        BY <2>6 DEF Pass
      <3>2. phase'[r] # "returned"
        BY <2>4, <2>6 DEF Pass, Leave
      <3> QED
        BY <3>1, <3>2
    <2>7. CASE Refuse(r)
      <3>1. user' = user /\ ~Trusted(h)
        BY <2>7 DEF Refuse
      <3>2. h.form = "genuine" /\ h.uuid =>
              ~(clock < NumericDate(h.issued + Expiry)) \/ ~(clock >= NumericDate(h.issued))
        BY <3>1 DEF Trusted, Valid
      <3>3. clock >= NumericDate(h.issued)
        BY <2>1, <2>2
      <3>4. ~(clock < NumericDate(h.issued + Expiry)) => h.issued + Expiry < clock + Second
        BY <2>1, <2>3, SecondAssumption
      <3> QED
        BY <3>1, <3>2, <3>3, <3>4
    <2>8. ~Guard(r) => user'[r] = user[r] \/ user'[r] = FALSE
      BY <1>1, UserSteps
    <2>9. ~Guard(r) => ~(phase[r] = "arrived" /\ phase'[r] = "returned")
      BY <1>1, UserSteps
    <2>10. user[r] \in BOOLEAN
      BY <1>1 DEF IInv, TypeOK
    <2> QED
      BY <2>5, <2>6, <2>7, <2>8, <2>9, <2>10, Zenon DEF Guard
  <1>2. IInv /\ IssuedBefore /\ [Next]_vars => \A r \in Requests : Lasts(r)
    BY <1>1
  <1> QED
    BY <1>2, Invariant, Issued, PTL DEF Spec, TokensLast

=============================================================================
