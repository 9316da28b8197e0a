---------------------- MODULE RequestPipelineProperties ----------------------
(***************************************************************************)
(* What the client of an API, and the author of a handler, rely on.        *)
(***************************************************************************)
EXTENDS RequestPipeline, TLC

(* The requests are interchangeable.                                       *)
Symmetry == Permutations(Requests)

(* What goes over the wire: a 204 has no body.                             *)
ErrorSent(r) == phase[r] = "answered" /\ status[r] # 204 /\ body[r].form = "error"

(* A handler behind JWTMiddleware has a user, so that MustGetUser does not *)
(* panic there (user.go:107-109), and one on an open route has none; a     *)
(* user comes of a signed token alone, in the middleware alone.            *)
UserIsVouched ==
    [][\A r \in Requests :
          /\ phase[r] = "arrived" /\ phase'[r] = "handling" =>
                /\ guard[r] = "required" => user'[r]
                /\ guard[r] = "none" => ~user'[r]
          /\ user'[r] /\ ~user[r] => header[r].form = "genuine" /\ header[r].uuid
          /\ phase'[r] = "handling" /\ user[r] => user'[r]]_vars

(* A token lets its user in for what NewClaims was asked for, give or take *)
(* the second that NumericDate cuts off: never after its expiry, and a     *)
(* refusal of a proper token comes less than a second before it            *)
(* (jwt_middleware.go:61-74, jwt.go:133-156).                              *)
TokensLast ==
    [][\A r \in Requests :
          /\ user'[r] /\ ~user[r] => clock < header[r].issued + Expiry
          /\ phase[r] = "arrived" /\ phase'[r] = "returned"
                /\ header[r].form = "genuine" /\ header[r].uuid =>
                header[r].issued + Expiry < clock + Second]_vars

(* WithDetails is "safe for use with package-level error variables"        *)
(* (error.go:180): no request ever answers with the details of another,    *)
(* however many share a sentinel.                                          *)
DetailsStayPrivate == \A r \in Requests : body[r].details \subseteq {r}

(* A failure is answered as one, whatever the handler wrote before it      *)
(* returned an error or panicked: with an error status, and, but for       *)
(* details that cannot be encoded, an error body (error_handler.go:37-95). *)
FailureIsAnError ==
    \A r \in Requests : phase[r] = "answered" /\ failed[r] =>
        /\ status[r] >= 400
        /\ ~garbled[r] => ErrorSent(r)

(* "log raw error but do NOT expose to client" (error_handler.go:75), "the *)
(* original panic value is never exposed" (:138): nor even the text that   *)
(* the handler had put into the response itself before it failed.          *)
RawStaysInside ==
    \A r \in Requests :
        phase[r] = "answered" /\ failed[r] /\ ~garbled[r] => body[r].message # "raw"

(* An error is answered under the status it was made with, or else under   *)
(* the one registered for its code, which is looked up in two places       *)
(* (response.go:108-114, error_handler.go:50-57): two errors of one code   *)
(* and one such status of their own are answered alike, whichever path     *)
(* they took, in whichever request, with details or without, and from the  *)
(* framework or the application. A code alone does not tell the status:    *)
(* New of one of the library's codes is answered by the registry.          *)
OneErrorOneStatus ==
    \A r \in Requests : ErrorSent(r) /\ ~garbled[r] =>
        /\ body[r].own # 0 => status[r] = body[r].own
        /\ \A q \in Requests :
              ErrorSent(q) /\ ~garbled[q] /\ body[q].code = body[r].code /\ body[q].own = body[r].own
                  => status[q] = status[r]

-----------------------------------------------------------------------------

(* The invariant behind them. A request points to its own object or to a   *)
(* sentinel, sentinels are never written to, and what a request has in     *)
(* hand, and has written, has a status that fits.                          *)
SentinelsUntouched == \A e \in Sentinels : heap[e].details = {}

Pointers ==
    \A r \in Requests :
        /\ ptr[r] \in Sentinels \cup {r}
        /\ heap[r].details \subseteq {r}
        /\ err[r] = "fiber" => ptr[r] = r /\ heap[r].status \in {405, 409}

Resolved(own, code) == IF own # 0 THEN own ELSE GetStatusCode(code)
Fits(s, b) == b.form = "error" /\ s # 204 => s = Resolved(b.own, b.code)

BodiesFit == \A r \in Requests : ~garbled[r] => Fits(status[r], body[r])

FailuresShow ==
    \A r \in Requests :
        /\ phase[r] \in {"idle", "arrived", "handling"} => ~failed[r]
        /\ phase[r] = "returned" /\ failed[r] /\ err[r] = "nil" =>
              status[r] = 500 /\ body[r].form = "error" /\ body[r].message = "generic"
        /\ phase[r] = "answered" /\ failed[r] =>
              /\ status[r] >= 400
              /\ ~garbled[r] => body[r].form = "error" /\ body[r].message # "raw"

NoUserYet == \A r \in Requests : phase[r] \in {"idle", "arrived"} => ~user[r]

(* Tokens do not come from the future.                                     *)
IssuedBefore == \A r \in Requests : header[r].issued <= clock

IInv ==
    /\ TypeOK
    /\ SentinelsUntouched
    /\ Pointers
    /\ DetailsStayPrivate
    /\ BodiesFit
    /\ FailuresShow
    /\ NoUserYet

-----------------------------------------------------------------------------

(* "Success sends a standardized 200 OK JSON response" (response.go:37): a *)
(* body that says success never comes with an error status.                *)
SuccessIsNoError ==
    \A r \in Requests : phase[r] = "answered" /\ ~garbled[r] /\ body[r].form = "success" =>
        status[r] < 400

=============================================================================
