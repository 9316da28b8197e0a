--------------------------- MODULE RequestPipeline ---------------------------
(***************************************************************************)
(* A request on its way through src/middleware, src/jwt, src/fiber,        *)
(* src/response and src/errors: RecoverMiddleware, one of the JWT          *)
(* middlewares or none, a handler that uses the library in any order, and  *)
(* ErrorHandler. Requests run concurrently. What they share is the clock   *)
(* and the package-level errors of the application, to which they hold     *)
(* pointers until the answer is written.                                   *)
(***************************************************************************)
EXTENDS Naturals

CONSTANTS
    Requests,
    Sentinels,  (* package-level errors, `var ErrX = errors.New("X")`       *)
    AppCodes,   (* the codes the application makes up                       *)
    Made,       (* code and status of the errors it makes: New gives none,  *)
                (* NewAppError any, both for its codes and the library's    *)
    Registry,   (* status by code, as RegisterCodes was told                *)
    Second,     (* clock ticks per second                                   *)
    Expiry,     (* NewClaims's expiry, in ticks                             *)
    MaxTime,    (* the clock stops here: bounds the model                   *)
    MaxCalls    (* calls of the handlers into the library: bounds the model *)

LibraryCodes ==
    {"none", "BAD_REQUEST", "UNAUTHORIZED", "FORBIDDEN", "NOT_FOUND", "CONFLICT",
     "VALIDATION_FAILED", "INVALID_CREDENTIALS", "TOKEN_EXPIRED", "INVALID_TOKEN",
     "ACCOUNT_INACTIVE", "RESOURCE_EXISTS", "INVALID_INPUT", "INTERNAL_SERVER_ERROR",
     "SERVICE_UNAVAILABLE", "DATABASE_ERROR", "EXTERNAL_SERVICE_ERROR"}
Codes == AppCodes \cup LibraryCodes

(* The application gives its errors error statuses, which NewAppError and  *)
(* RegisterCodes leave to it; 0 is no status, to be looked up.             *)
ErrorStatuses == 400..599
OwnStatuses == {0} \cup ErrorStatuses

ASSUME SentinelsAssumption == Sentinels \cap Requests = {}
ASSUME MadeAssumption == Made \subseteq [code : Codes, status : OwnStatuses]
ASSUME RegistryAssumption ==
    DOMAIN Registry \subseteq Codes /\ \A c \in DOMAIN Registry : Registry[c] \in ErrorStatuses
ASSUME SecondAssumption == Second \in Nat \ {0}
ASSUME ExpiryAssumption == Expiry \in Nat
ASSUME MaxTimeAssumption == MaxTime \in Nat
ASSUME MaxCallsAssumption == MaxCalls \in Nat

VARIABLES
    clock,      (* what time.Now() returns                                  *)
    phase,      (* how far a request has come                               *)
    guard,      (* the JWT middleware on its route                          *)
    header,     (* its Authorization header                                 *)
    user,       (* Locals("user") holds a UserInfo                          *)
    heap,       (* the error objects: the sentinels, and one per request    *)
    err,        (* dynamic type of the `error` the request has in hand      *)
    ptr,        (* the object it points to                                  *)
    status,     (* status of the response so far                            *)
    body,       (* body of the response so far                              *)
    calls,      (* calls of the handlers so far                             *)
    (* History, read by the properties alone.                               *)
    failed,     (* the handler, or a middleware, returned an error or panicked *)
    garbled     (* the value it answered with last could not be encoded     *)

reqVars == <<phase, guard, header, user>>
errVars == <<heap, err, ptr>>
ansVars == <<status, body>>
vars == <<clock, reqVars, errVars, ansVars, calls, failed, garbled>>

Time == 0..MaxTime

(* A token is NewClaims's, signed with the key of the service; anything    *)
(* else in its place is "forged". Its user id may fail to be a UUID.       *)
NoHeader == [form |-> "missing", uuid |-> FALSE, issued |-> 0]
Headers ==
    {NoHeader} \cup [form : {"malformed", "forged"}, uuid : {FALSE}, issued : {0}]
               \cup [form : {"genuine"}, uuid : BOOLEAN, issued : Time]

(* An AppError or fiber.Error. The details of a request's errors are told  *)
(* apart by the request they are about.                                    *)
Refs == Sentinels \cup Requests
Objects == [status : OwnStatuses, code : Codes, details : SUBSET Requests, encodable : BOOLEAN]

Object(s, code) == [status |-> s, code |-> code, details |-> {}, encodable |-> TRUE]
NewUnauthorized == Object(401, "UNAUTHORIZED")

(* The object of request r is garbage.                                     *)
Without(r) == [heap EXCEPT ![r] = Object(0, "none")]

(* "text" is what SendStatus writes. The message of an error is resolved   *)
(* from an AppError, the framework's, generic, or the raw text of an error.*)
(* The status the error itself had is kept for the properties (`own`).     *)
Bodies == [form : {"empty", "text", "success", "error"}, code : Codes,
           message : {"none", "resolved", "framework", "generic", "raw"},
           details : SUBSET Requests, own : OwnStatuses]

Plain(form) == [form |-> form, code |-> "none", message |-> "none", details |-> {}, own |-> 0]
Statuses == {200, 201, 204} \cup ErrorStatuses
ErrorBody(code, own, message, details) ==
    [form |-> "error", code |-> code, message |-> message, details |-> details, own |-> own]

TypeOK ==
    /\ clock \in Time
    /\ phase \in [Requests -> {"idle", "arrived", "handling", "returned", "answered"}]
    /\ guard \in [Requests -> {"none", "optional", "required"}]
    /\ header \in [Requests -> Headers]
    /\ user \in [Requests -> BOOLEAN]
    /\ heap \in [Refs -> Objects]
    /\ err \in [Requests -> {"nil", "app", "fiber", "plain"}]
    /\ ptr \in [Requests -> Refs]
    /\ status \in [Requests -> Statuses]
    /\ body \in [Requests -> Bodies]
    /\ calls \in 0..MaxCalls
    /\ failed \in [Requests -> BOOLEAN]
    /\ garbled \in [Requests -> BOOLEAN]

Init ==
    /\ clock = 0
    /\ phase = [r \in Requests |-> "idle"]
    /\ guard = [r \in Requests |-> "none"]
    /\ header = [r \in Requests |-> NoHeader]
    /\ user = [r \in Requests |-> FALSE]
    /\ \E declared \in [Sentinels -> Made] :
          heap = [e \in Refs |-> IF e \in Sentinels THEN Object(declared[e].status, declared[e].code)
                                ELSE Object(0, "none")]
    /\ err = [r \in Requests |-> "nil"]
    /\ ptr = [r \in Requests |-> r]
    /\ status = [r \in Requests |-> 200]
    /\ body = [r \in Requests |-> Plain("empty")]
    /\ calls = 0
    /\ failed = [r \in Requests |-> FALSE]
    /\ garbled = [r \in Requests |-> FALSE]

-----------------------------------------------------------------------------

Tick ==
    /\ clock < MaxTime
    /\ clock' = clock + 1
    /\ UNCHANGED <<reqVars, errVars, ansVars, calls, failed, garbled>>

Arrive(r) ==
    /\ phase[r] = "idle"
    /\ phase' = [phase EXCEPT ![r] = "arrived"]
    /\ \E g \in {"none", "optional", "required"} : guard' = [guard EXCEPT ![r] = g]
    /\ \E h \in Headers : h.issued <= clock /\ header' = [header EXCEPT ![r] = h]
    /\ UNCHANGED <<clock, user, errVars, ansVars, calls, failed, garbled>>

-----------------------------------------------------------------------------
(* JWTMiddleware, OptionalJWTMiddleware                                    *)

(* jwt.NewNumericDate truncates to whole seconds.                          *)
NumericDateRoundedUp(t) == t + (Second - (t % Second))
NumericDate(t) == t - (t % Second)

(* ValidateToken finds no fault: signature, exp and nbf.                   *)
Valid(h) ==
    /\ h.form = "genuine"
    /\ clock < NumericDate(h.issued + Expiry)
    /\ clock >= NumericDate(h.issued)

Trusted(h) == Valid(h) /\ h.uuid

(* What the middleware looked at is forgotten as it is left.               *)
Leave(r, where) ==
    /\ phase[r] = "arrived"
    /\ phase' = [phase EXCEPT ![r] = where]
    /\ guard' = [guard EXCEPT ![r] = "none"]
    /\ header' = [header EXCEPT ![r] = NoHeader]
    /\ UNCHANGED <<clock, ansVars, calls, garbled>>

(* The UserInfo is stored, and the next handler called.                    *)
Admit(r) ==
    /\ guard[r] # "none"
    /\ Trusted(header[r])
    /\ Leave(r, "handling")
    /\ user' = [user EXCEPT ![r] = TRUE]
    /\ UNCHANGED <<errVars, failed>>

(* No middleware on the route, or the one that only asks.                  *)
PassAnyway(r) ==
    /\ ~Trusted(header[r])
    /\ Leave(r, "handling")
    /\ UNCHANGED <<user, errVars, failed>>

Pass(r) ==
    /\ guard[r] = "none" \/ (guard[r] = "optional" /\ ~Trusted(header[r]))
    /\ Leave(r, "handling")
    /\ UNCHANGED <<user, errVars, failed>>

Refuse(r) ==
    /\ guard[r] = "required"
    /\ ~Trusted(header[r])
    /\ Leave(r, "returned")
    /\ heap' = [heap EXCEPT ![r] = NewUnauthorized]
    /\ err' = [err EXCEPT ![r] = "app"]
    /\ ptr' = [ptr EXCEPT ![r] = r]
    /\ failed' = [failed EXCEPT ![r] = TRUE]
    /\ UNCHANGED user

-----------------------------------------------------------------------------
(* The handler gets hold of an error ...                                   *)

Call(r) ==
    /\ phase[r] = "handling"
    /\ calls < MaxCalls
    /\ calls' = calls + 1

Holds(r, type, e) ==
    /\ Call(r)
    /\ err' = [err EXCEPT ![r] = type]
    /\ ptr' = [ptr EXCEPT ![r] = e]
    /\ UNCHANGED <<clock, reqVars, ansVars, failed, garbled>>

UseSentinel(r) == \E e \in Sentinels : Holds(r, "app", e) /\ heap' = Without(r)

NewError(r) ==
    /\ Holds(r, "app", r)
    /\ \E made \in Made : heap' = [heap EXCEPT ![r] = Object(made.status, made.code)]

(* Without a user. Where there is one, GetUser returns it.                 *)
GetUser(r) ==
    /\ ~user[r]
    /\ Holds(r, "app", r)
    /\ heap' = [heap EXCEPT ![r] = NewUnauthorized]

NewFiberError(r) ==
    /\ Holds(r, "fiber", r)
    /\ \E s \in {405, 409} : heap' = [heap EXCEPT ![r] = Object(s, "none")]

(* An error of another package, or an AppError wrapped by fmt.Errorf.      *)
OtherError(r) == Holds(r, "plain", r) /\ heap' = Without(r)

WithDetailsOf(h, r, b) ==
    [status |-> h.status, code |-> h.code, details |-> {r}, encodable |-> b]

(* WithDetails: a copy, so that a sentinel stays as it is.                 *)
WithDetailsInPlace(r) ==
    /\ err[r] = "app"
    /\ Holds(r, "app", ptr[r])
    /\ \E b \in BOOLEAN :
          heap' = [heap EXCEPT ![ptr[r]].details = {r}, ![ptr[r]].encodable = b]

WithDetails(r) ==
    /\ err[r] = "app"
    /\ Holds(r, "app", r)
    /\ \E b \in BOOLEAN :
          heap' = [heap EXCEPT ![r] = WithDetailsOf(heap[ptr[r]], r, b)]

-----------------------------------------------------------------------------
(* ... writes answers ...                                                  *)

(* c.Status(s).JSON(b): without an encoding the body stays as it was, and  *)
(* JSON returns an error.                                                  *)
JSON(r, s, b, encodable) ==
    /\ Call(r)
    /\ status' = [status EXCEPT ![r] = s]
    /\ body' = IF encodable THEN [body EXCEPT ![r] = b] ELSE body
    /\ err' = [err EXCEPT ![r] = IF encodable THEN "nil" ELSE "plain"]
    /\ ptr' = [ptr EXCEPT ![r] = r]
    /\ heap' = Without(r)
    /\ garbled' = [garbled EXCEPT ![r] = ~encodable]
    /\ UNCHANGED <<clock, reqVars, failed>>

(* response.Success leaves the status alone; Created sets it.              *)
Success(r) == \E b \in BOOLEAN : JSON(r, status[r], Plain("success"), b)
Created(r) == \E b \in BOOLEAN : JSON(r, 201, Plain("success"), b)

(* SendStatus(204) writes a body only where there is none.                 *)
NoContent(r) ==
    JSON(r, 204, IF body[r].form = "empty" THEN Plain("text") ELSE body[r], TRUE)

GetStatusCode(code) == IF code \in DOMAIN Registry THEN Registry[code] ELSE 500

(* response.Error, for an AppError and for any other error.                *)
ErrorStatusUnresolved(h) == h.status
ErrorStatus(h) == IF h.status # 0 THEN h.status ELSE GetStatusCode(h.code)

Error(r) ==
    \/ /\ err[r] = "app"
       /\ LET h == heap[ptr[r]] IN
             JSON(r, ErrorStatus(h), ErrorBody(h.code, h.status, "resolved", h.details), h.encodable)
    \/ /\ err[r] \in {"fiber", "plain"}
       /\ JSON(r, 500, ErrorBody("INTERNAL_SERVER_ERROR", 500, "raw", {}), TRUE)

-----------------------------------------------------------------------------
(* ... and ends.                                                           *)

Return(r) ==
    /\ phase[r] = "handling"
    /\ phase' = [phase EXCEPT ![r] = "returned"]
    /\ failed' = [failed EXCEPT ![r] = err[r] # "nil"]
    /\ UNCHANGED <<clock, guard, header, user, errVars, ansVars, calls, garbled>>

(* RecoverMiddleware answers in place of the handler, and returns nil.     *)
RecoveredStatusKept(r) == status[r]
RecoveredStatus(r) == 500

Panic(r) ==
    /\ phase[r] = "handling"
    /\ phase' = [phase EXCEPT ![r] = "returned"]
    /\ failed' = [failed EXCEPT ![r] = TRUE]
    /\ status' = [status EXCEPT ![r] = RecoveredStatus(r)]
    /\ body' = [body EXCEPT ![r] = ErrorBody("INTERNAL_SERVER_ERROR", 500, "generic", {})]
    /\ err' = [err EXCEPT ![r] = "nil"]
    /\ ptr' = [ptr EXCEPT ![r] = r]
    /\ heap' = Without(r)
    /\ garbled' = [garbled EXCEPT ![r] = FALSE]
    /\ UNCHANGED <<clock, guard, header, user, calls>>

-----------------------------------------------------------------------------
(* Fiber: a returned error goes to ErrorHandler.                           *)

getErrorCodeFromStatus(s) ==
    CASE s = 400 -> "BAD_REQUEST"
      [] s = 401 -> "UNAUTHORIZED"
      [] s = 403 -> "FORBIDDEN"
      [] s = 404 -> "NOT_FOUND"
      [] s = 409 -> "CONFLICT"
      [] s = 503 -> "SERVICE_UNAVAILABLE"
      [] OTHER   -> "INTERNAL_SERVER_ERROR"

HandlerStatusUnresolved(r) ==
    IF err[r] # "plain" /\ heap[ptr[r]].status # 0 THEN heap[ptr[r]].status ELSE 500
HandlerStatus(r) ==
    LET h == heap[ptr[r]] IN
    CASE err[r] = "app" /\ h.status # 0 -> h.status
      [] err[r] = "app" /\ h.status = 0 -> GetStatusCode(h.code)
      [] err[r] = "fiber"               -> h.status
      [] OTHER                          -> 500

HandlerMessageRaw == "raw"
HandlerMessage == "generic"

HandlerBody(r) ==
    LET h == heap[ptr[r]] IN
    CASE err[r] = "app"   -> ErrorBody(h.code, h.status, "resolved", h.details)
      [] err[r] = "fiber" -> ErrorBody(getErrorCodeFromStatus(h.status), h.status, "framework", {})
      [] OTHER            -> ErrorBody("INTERNAL_SERVER_ERROR", 500, HandlerMessage, {})

(* The response is sent, and Fiber releases the request's context.         *)
Answered(r) ==
    /\ phase[r] = "returned"
    /\ phase' = [phase EXCEPT ![r] = "answered"]
    /\ user' = [user EXCEPT ![r] = FALSE]
    /\ heap' = Without(r)
    /\ err' = [err EXCEPT ![r] = "nil"]
    /\ ptr' = [ptr EXCEPT ![r] = r]
    /\ UNCHANGED <<clock, guard, header, calls, failed>>

AnswerAsIs(r) ==
    /\ err[r] = "nil"
    /\ Answered(r)
    /\ UNCHANGED <<ansVars, garbled>>

(* Where ErrorHandler itself fails, Fiber sends a bare 500.                *)
ErrorHandler(r) ==
    /\ err[r] # "nil"
    /\ Answered(r)
    /\ \/ /\ err[r] = "app" => heap[ptr[r]].encodable
          /\ status' = [status EXCEPT ![r] = HandlerStatus(r)]
          /\ body' = [body EXCEPT ![r] = HandlerBody(r)]
          /\ garbled' = [garbled EXCEPT ![r] = FALSE]
       \/ /\ err[r] = "app" /\ ~heap[ptr[r]].encodable
          /\ status' = [status EXCEPT ![r] = 500]
          /\ body' = IF body[r].form = "empty" THEN [body EXCEPT ![r] = Plain("text")] ELSE body
          /\ garbled' = [garbled EXCEPT ![r] = TRUE]

-----------------------------------------------------------------------------

Guard(r) == Admit(r) \/ Pass(r) \/ Refuse(r)
Obtain(r) ==
    \/ UseSentinel(r) \/ NewError(r) \/ GetUser(r)
    \/ NewFiberError(r) \/ OtherError(r) \/ WithDetails(r)
Write(r) == Success(r) \/ Created(r) \/ NoContent(r) \/ Error(r)
End(r) == Return(r) \/ Panic(r) \/ AnswerAsIs(r) \/ ErrorHandler(r)

Terminated == (\A r \in Requests : phase[r] = "answered") /\ UNCHANGED vars

Next ==
    \/ Tick
    \/ \E r \in Requests : Arrive(r) \/ Guard(r) \/ Obtain(r) \/ Write(r) \/ End(r)
    \/ Terminated

Spec == Init /\ [][Next]_vars

=============================================================================
