------------------------------- MODULE Paging -------------------------------
(***************************************************************************)
(* src/pagination and the parsers of src/fiber, as a list service uses     *)
(* them: a client walks the pages of a table by the total it is told,      *)
(* while others create and delete rows, and ask for whatever page they     *)
(* like. The handlers are the application's; between COUNT and SELECT the  *)
(* table may change.                                                       *)
(***************************************************************************)
EXTENDS Integers, Sequences, SequencesExt

CONSTANTS
    HalfWord,   (* int is -HalfWord..HalfWord-1; 2^63 in the program        *)
    MaxLimit,   (* `max` of the tag of the page size                        *)
    MaxRowId    (* rows ever created: bounds the model                      *)

ASSUME HalfWordAssumption == HalfWord \in Nat \ {0}
ASSUME MaxLimitAssumption == MaxLimit \in 1..(HalfWord - 1)
ASSUME MaxRowIdAssumption == MaxRowId \in 0..(HalfWord - 1)

VARIABLES
    rows,       (* the table, in its order                                  *)
    created,    (* rows ever created; their ids are 1..created              *)
    tagged,     (* the query struct has the tags its documentation shows    *)
    asked,      (* the request for a page, once it is parsed                *)
    counted,    (* what COUNT told its handler                              *)
    reply,      (* the answer                                               *)
    walk        (* the walk of a client; `began` and `disturbed` are        *)
                (* history, read by the properties alone                    *)

tableVars == <<rows, created>>
pageVars == <<tableVars, tagged, asked, counted, reply, walk>>

Word == (-HalfWord)..(HalfWord - 1)
Wrap(x) == ((x + HalfWord) % (2 * HalfWord)) - HalfWord

Idle == [page |-> HalfWord, limit |-> HalfWord]   (* none *)
Query(p, l) == [page |-> p, limit |-> l]
NotCounted == -1
NoReply == [status |-> 0]
NoWalk == [on |-> FALSE, limit |-> 0, page |-> 0, seen |-> <<>>, began |-> <<>>, disturbed |-> FALSE]

PageTypeOK ==
    /\ Len(rows) <= created /\ \A i \in DOMAIN rows : rows[i] \in 1..created
    /\ created \in 0..MaxRowId
    /\ tagged \in BOOLEAN
    /\ asked = Idle \/ asked \in [page : Word, limit : Word]
    /\ counted \in NotCounted..MaxRowId
    /\ reply.status \in {0, 200, 400, 500}
    /\ reply.status = 200 => reply.pages \in Word /\ Len(reply.items) <= reply.size
    /\ walk.on \in BOOLEAN /\ walk.page \in Word /\ walk.limit \in 0..MaxLimit

PageInit ==
    /\ rows = <<>> /\ created = 0
    /\ tagged = TRUE
    /\ asked = Idle /\ counted = NotCounted /\ reply = NoReply
    /\ walk = NoWalk

-----------------------------------------------------------------------------
(* The parsers. What a validator refuses, the tags say.                    *)

Bad(why) == why # "valid"

GetRequestBody(body) == IF Bad(body) THEN 400 ELSE 200
GetParamsUUID(id) == IF Bad(id) THEN 400 ELSE 200

GetQueryParams(q) ==
    IF tagged /\ (q.page < 1 \/ q.limit < 1 \/ q.limit > MaxLimit) THEN 400 ELSE 200

-----------------------------------------------------------------------------
(* pagination.go                                                           *)

OffsetFromZero(page, limit) == Wrap(page * limit)
CalculateOffset(page, limit) == Wrap((page - 1) * limit)

(* The quotient and the remainder of Go are rounded towards zero.          *)
Quotient(n, d) == IF d > 0 THEN n \div d ELSE -(n \div (-d))
Rest(n, d) == IF d > 0 THEN n % d ELSE n % (-d)

CalculateTotalPages(totalItems, limit) ==
    IF limit = 0 THEN 0
    ELSE Quotient(totalItems, limit) + (IF Rest(totalItems, limit) > 0 THEN 1 ELSE 0)

NewResponse(items, q, total) ==
    [status |-> 200, query |-> q, items |-> items, pages |-> CalculateTotalPages(total, q.limit),
     size |-> Len(rows)]

-----------------------------------------------------------------------------
(* The service                                                             *)

(* POST: a row is created behind the others.                               *)
CreateRow(body) ==
    /\ GetRequestBody(body) = 200
    /\ created < MaxRowId
    /\ rows' = Append(rows, created + 1)
    /\ created' = created + 1
    /\ UNCHANGED <<tagged, asked, counted, reply, walk>>

DeleteRow(i, id) ==
    /\ GetParamsUUID(id) = 200
    /\ rows' = RemoveAt(rows, i)
    /\ walk' = [walk EXCEPT !.disturbed = @ \/ walk.on]
    /\ UNCHANGED <<created, tagged, asked, counted, reply>>

(* GET of a page                                                           *)
Ask(q) ==
    /\ asked = Idle
    /\ counted' = NotCounted
    /\ \/ GetQueryParams(q) = 200 /\ asked' = q /\ reply' = NoReply
       \/ GetQueryParams(q) = 400 /\ reply' = [status |-> 400] /\ UNCHANGED asked
    /\ UNCHANGED <<tableVars, tagged>>

(* Once, as nothing is kept of it.                                         *)
AskAnything ==
    /\ walk = NoWalk /\ reply = NoReply
    /\ \E p, l \in Word : Ask(Query(p, l))
    /\ UNCHANGED walk

(* The struct of another list has no tags.                                 *)
Untag ==
    /\ tagged /\ asked = Idle /\ walk = NoWalk
    /\ tagged' = FALSE
    /\ UNCHANGED <<tableVars, asked, counted, reply, walk>>

Count ==
    /\ asked # Idle /\ counted = NotCounted
    /\ counted' = Len(rows)
    /\ UNCHANGED <<tableVars, tagged, asked, reply, walk>>

(* LIMIT and OFFSET refuse negative numbers.                               *)
Select ==
    LET offset == CalculateOffset(asked.page, asked.limit) IN
    /\ asked # Idle /\ counted # NotCounted
    /\ asked' = Idle
    /\ reply' = IF offset < 0 \/ asked.limit < 0 THEN [status |-> 500]
                ELSE NewResponse(SubSeq(rows, offset + 1, IF offset + asked.limit < Len(rows)
                                                          THEN offset + asked.limit ELSE Len(rows)),
                                 asked, counted)
    /\ UNCHANGED <<tableVars, tagged, counted, walk>>

-----------------------------------------------------------------------------
(* The client: it asks for the next page until it has had the last.        *)

BeginWalk(limit) ==
    /\ asked = Idle /\ walk = NoWalk
    /\ Ask(Query(1, limit))
    /\ walk' = [on |-> TRUE, limit |-> limit, page |-> 1, seen |-> <<>>, began |-> rows, disturbed |-> FALSE]

PageRead ==
    /\ walk.on /\ asked = Idle /\ reply.status = 200
    /\ LET seen == walk.seen \o reply.items IN
       IF walk.page >= reply.pages
       THEN /\ walk' = [walk EXCEPT !.on = FALSE, !.seen = seen]
            /\ reply' = NoReply
            /\ UNCHANGED <<tableVars, tagged, asked, counted>>
       ELSE /\ Ask(Query(walk.page + 1, walk.limit))
            /\ walk' = [walk EXCEPT !.page = @ + 1, !.seen = seen]

PageNext ==
    \/ \E body \in {"garbled", "invalid", "valid"} : CreateRow(body)
    \/ \E i \in DOMAIN rows, id \in {"", "garbled", "valid"} : DeleteRow(i, id)
    \/ AskAnything \/ Untag
    \/ Count \/ Select
    \/ \E limit \in 1..MaxLimit : BeginWalk(limit)
    \/ PageRead

PageSpec == PageInit /\ [][PageNext]_pageVars

-----------------------------------------------------------------------------
(* Properties                                                              *)

(* Whoever goes from the first page to the total it is told sees no row    *)
(* twice, also when rows come and go between two pages; unless a row is    *)
(* deleted meanwhile it sees every row that was there when it began; and   *)
(* none of its requests is refused (pagination.go:29-41, 45-56). And rows  *)
(* are only ever listed on a page that exists, but for a page number so    *)
(* large that the product of CalculateOffset overflows.                    *)
PagesHoldTheTable ==
    /\ IsInjective(walk.seen)
    /\ ~walk.on /\ ~walk.disturbed => \A i \in DOMAIN walk.began : Contains(walk.seen, walk.began[i])
    /\ walk.on => reply.status \notin {400, 500}
    /\ reply.status = 200 /\ reply.items # <<>> =>
          LET start == (reply.query.page - 1) * reply.query.limit
          IN  (reply.query.page >= 1 /\ start < reply.size) \/ start \notin Word

=============================================================================
