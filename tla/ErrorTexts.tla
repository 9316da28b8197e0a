----------------------------- MODULE ErrorTexts -----------------------------
(***************************************************************************)
(* The registries of src/errors: RegisterCodes and RegisterTranslations    *)
(* fill them at start-up, where later calls may name a code again. When an *)
(* error is answered, its status, the language of the client and the text  *)
(* are looked up, and the placeholders of the text filled in the random    *)
(* order of a Go map.                                                      *)
(***************************************************************************)
EXTENDS Naturals, Sequences, SequencesExt, Maps

CONSTANTS
    ErrorCodes,         (* codes that are registered: the application's,    *)
                        (* and perhaps some of the library's                *)
    MaxRegistrations,   (* calls at start-up: bounds the model              *)
    MaxTags             (* tags of an Accept-Language header: bounds it     *)

ASSUME ErrorCodesAssumption == ErrorCodes # {}
ASSUME MaxRegistrationsAssumption == MaxRegistrations \in Nat
ASSUME MaxTagsAssumption == MaxTags \in Nat

VARIABLES
    registry,       (* code to status                                       *)
    translations,   (* code to language to text                             *)
    answering,      (* where the process stands                             *)
    answer,         (* the error answered, and what the client gets         *)
    unfilled,       (* the details whose placeholders are still to be filled *)
    (* History, read by the properties alone.                               *)
    told            (* the calls at start-up                                *)

textVars == <<registry, translations, answering, answer, unfilled, told>>

(* A text is a sequence of words and placeholders; a placeholder {k} is    *)
(* written as its key. One value holds a placeholder itself, one is empty. *)
Keys == {"name", "limit"}
Texts == {<<>>, <<"name">>, <<"limit", "of", "name">>}
Values == {"value", "limit", ""}

defaultLanguage == "en"
supportedLanguages == {"en", "th"}
Tags == supportedLanguages \cup {"fr"}

TextIn(lang) == IF lang = "en" THEN <<"limit", "of", "name">> ELSE <<"name">>

PartialMaps(S, T) == UNION {[D -> T] : D \in SUBSET S}
One(S, T) == UNION {[{s} -> T] : s \in S}
TextsOfCode == {m \in PartialMaps(supportedLanguages, Texts) : \A l \in DOMAIN m : m[l] \in {<<>>, TextIn(l)}}

AcceptLanguages == UNION {[1..n -> Tags] : n \in 0..MaxTags}
(* Details of an error; an empty value comes alone, which bounds the model. *)
Details == {d \in PartialMaps(Keys, Values) : \A k \in DOMAIN d : d[k] = "" => DOMAIN d = {k}}
NoAnswer == [status |-> 0, text |-> <<>>]

-----------------------------------------------------------------------------
(* The errors a handler may answer with                                    *)

NewAppError(code, message, statusCode) ==
    [code |-> code, message |-> message, field |-> "", details |-> <<>>, statusCode |-> statusCode]
NewCoded(code) == NewAppError(code, <<>>, 0)
WithDetails(e, details) == [e EXCEPT !.details = details]
WithField(e, field) == [e EXCEPT !.field = field]

NewBadRequest(message) == NewAppError("BAD_REQUEST", message, 400)
NewUnauthorized(message) == NewAppError("UNAUTHORIZED", message, 401)
NewForbidden(message) == NewAppError("FORBIDDEN", message, 403)
NewNotFound(message) == NewAppError("NOT_FOUND", message, 404)
NewConflict(message) == NewAppError("CONFLICT", message, 409)
NewInternalServerError(message) == NewAppError("INTERNAL_SERVER_ERROR", message, 500)
NewValidationError(details) ==
    WithDetails(NewAppError("VALIDATION_FAILED", <<"validation", "failed">>, 400), details)

(* What the helpers of src/response answer with: they say what they mean.  *)
Helped(message, details) ==
    {NewBadRequest(message), NewUnauthorized(message), NewForbidden(message), NewNotFound(message),
     NewConflict(message), NewInternalServerError(message), NewValidationError(details)}

Errors ==
    LET message == <<"message", "about", "name">>
    IN  {WithDetails(NewCoded(code), d) : code \in ErrorCodes, d \in Details}
            \cup {WithField(NewCoded(code), "email") : code \in ErrorCodes}
            \cup Helped(message, [name |-> "value"])
            \cup {WithDetails(e, [name |-> "value"]) : e \in Helped(message, <<>>)}

-----------------------------------------------------------------------------

TextTypeOK ==
    /\ registry \in PartialMaps(ErrorCodes, {409, 422})
    /\ translations \in PartialMaps(ErrorCodes, PartialMaps(supportedLanguages, Texts))
    /\ answering \in {"startup", "serving", "filling"}
    /\ answering \in {"startup", "serving"} => answer = NoAnswer /\ unfilled = {}
    /\ answering = "filling" =>
          /\ answer.error \in Errors /\ answer.header \in AcceptLanguages
          /\ answer.status \in {400, 401, 403, 404, 409, 422, 500}
          /\ unfilled \subseteq DOMAIN answer.error.details
    /\ Len(told) <= MaxRegistrations

TextInit ==
    /\ registry = <<>>
    /\ translations = <<>>
    /\ answering = "startup"
    /\ answer = NoAnswer
    /\ unfilled = {}
    /\ told = <<>>

-----------------------------------------------------------------------------
(* Start-up, to which the comments confine registration.                   *)

Starting ==
    /\ answering = "startup"
    /\ Len(told) < MaxRegistrations

RegisterCodes(codes) ==
    /\ Starting
    /\ registry' = Over(codes, registry)
    /\ told' = Append(told, [of |-> "codes", map |-> codes])
    /\ UNCHANGED <<translations, answering, answer, unfilled>>

(* All languages of a code are replaced.                                   *)
EarlierTextsKept(texts) ==
    Over([c \in DOMAIN texts |->
             IF c \in DOMAIN translations THEN Over(texts[c], translations[c]) ELSE texts[c]], translations)
Registered(texts) == Over(texts, translations)

RegisterTranslations(texts) ==
    /\ Starting
    /\ translations' = Registered(texts)
    /\ told' = Append(told, [of |-> "texts", map |-> texts])
    /\ UNCHANGED <<registry, answering, answer, unfilled>>

Serve ==
    /\ answering = "startup"
    /\ answering' = "serving"
    /\ UNCHANGED <<registry, translations, answer, unfilled, told>>

-----------------------------------------------------------------------------
(* An answer                                                               *)

StatusOrNone(code) == IF code \in DOMAIN registry THEN registry[code] ELSE 0
GetStatusCode(code) == IF code \in DOMAIN registry THEN registry[code] ELSE 500

(* As src/response answers an error.                                       *)
Status(e) == IF e.statusCode = 0 THEN GetStatusCode(e.code) ELSE e.statusCode

(* The first tag that is supported; preferences (;q=) are not weighed.     *)
ResolveLanguage(header) ==
    LET i == SelectInSeq(header, LAMBDA tag : tag \in supportedLanguages) IN
    IF i = 0 THEN defaultLanguage ELSE header[i]

Translated(code, lang) ==
    IF code \notin DOMAIN translations THEN <<>>
    ELSE IF lang \in DOMAIN translations[code] THEN translations[code][lang]
    ELSE IF defaultLanguage \in DOMAIN translations[code] THEN translations[code][defaultLanguage]
    ELSE <<>>

Template(e, lang) ==
    IF Translated(e.code, lang) # <<>> THEN Translated(e.code, lang)
    ELSE IF e.message # <<>> THEN e.message ELSE <<e.code>>

(* The language and the text of an error are looked up.                    *)
ResolveMessage ==
    /\ answering = "serving"
    /\ answering' = "filling"
    /\ \E e \in Errors, header \in AcceptLanguages :
          /\ answer' = [error |-> e, header |-> header, status |-> Status(e), field |-> e.field,
                        text |-> Template(e, ResolveLanguage(header))]
          /\ unfilled' = DOMAIN e.details
    /\ UNCHANGED <<registry, translations, told>>

ReplaceEvery(text, key, value) == [i \in DOMAIN text |-> IF text[i] = key THEN value ELSE text[i]]

(* The keys of the map come in any order.                                  *)
FillPlaceholder(key) ==
    /\ answering = "filling" /\ key \in unfilled
    /\ answer' = [answer EXCEPT !.text = ReplaceEvery(@, key, answer.error.details[key])]
    /\ unfilled' = unfilled \ {key}
    /\ UNCHANGED <<registry, translations, answering, told>>

TextNext ==
    \/ \E codes \in One(ErrorCodes, {409, 422}) : RegisterCodes(codes)
    \/ \E texts \in One(ErrorCodes, TextsOfCode) : RegisterTranslations(texts)
    \/ Serve
    \/ ResolveMessage
    \/ \E key \in Keys : FillPlaceholder(key)

TextSpec == TextInit /\ [][TextNext]_textVars

-----------------------------------------------------------------------------
(* Properties, told from the calls at start-up.                            *)

Answered == answering = "filling" /\ unfilled = {}

About(i, what, code) == told[i].of = what /\ code \in DOMAIN told[i].map
IsLast(i, what, code) == About(i, what, code) /\ \A j \in DOMAIN told : j > i => ~About(j, what, code)

(* What the last call about a code said of it: of one value, or of none.   *)
LastTold(what, code) == {told[i].map[code] : i \in {j \in DOMAIN told : IsLast(j, what, code)}}

StatusesAsTold(code) == IF LastTold("codes", code) = {} THEN {500} ELSE LastTold("codes", code)

(* The client's language: the first tag that is supported, or English.     *)
FirstSupported(header, i) ==
    header[i] \in supportedLanguages /\ \A j \in DOMAIN header : j < i => header[j] \notin supportedLanguages
ClientLanguages(header) ==
    LET first == {header[i] : i \in {j \in DOMAIN header : FirstSupported(header, j)}}
    IN  IF first = {} THEN {defaultLanguage} ELSE first

(* What the client may read before placeholders are filled. The last       *)
(* registration of the code speaks in the language, and in English when it *)
(* does not know the language; where it has no text, or an empty one, the  *)
(* error speaks for itself. An empty text in the language hides the        *)
(* English one, which the fallback chain of translation.go:70 leaves open. *)
OwnText(e) == IF e.message # <<>> THEN e.message ELSE <<e.code>>
Spoken(known, lang) == IF lang \in DOMAIN known THEN {lang} ELSE {defaultLanguage} \cap DOMAIN known
TextsAsTold(e, lang) ==
    LET texts == (UNION {{known[l] : l \in Spoken(known, lang)} : known \in LastTold("texts", e.code)}) \ {<<>>}
    IN  IF texts = {} THEN {OwnText(e)} ELSE texts

FilledAtOnce(text, details) ==
    [i \in DOMAIN text |-> IF text[i] \in DOMAIN details THEN details[text[i]] ELSE text[i]]

Mentions(text, key) == \E i \in DOMAIN text : text[i] = key
Blank(text) == \A i \in DOMAIN text : text[i] = ""

(* An error made before registration, as package-level errors are, is      *)
(* answered by what was registered last for its code (error.go:144-146);   *)
(* the status of a helper is its own, whatever is registered for its code. *)
(* The text is the one the fallback chain leads to, for the first language *)
(* of the client's that is supported (translation.go:41-43, 66-70). Where  *)
(* no value holds a placeholder the random order of the map does not show; *)
(* in any case each placeholder with a detail is filled, unless a value    *)
(* brings it in anew, and only an empty value, or an error with an empty   *)
(* code, can leave the client with nothing to read.                        *)
AnswersAreRegistered ==
    Answered =>
        LET e == answer.error
            plain == \A k, l \in DOMAIN e.details : e.details[k] # l
        IN  /\ answer.status \in IF e.statusCode # 0 THEN {e.statusCode} ELSE StatusesAsTold(e.code)
            /\ answer.field = e.field
            /\ plain => \E lang \in ClientLanguages(answer.header) : \E text \in TextsAsTold(e, lang) :
                            answer.text = FilledAtOnce(text, e.details)
            /\ Blank(answer.text) => e.code = "" \/ \E k \in DOMAIN e.details : e.details[k] = ""
            /\ \A k \in DOMAIN e.details : Mentions(answer.text, k) =>
                    \E l \in DOMAIN e.details : e.details[l] = k

=============================================================================
