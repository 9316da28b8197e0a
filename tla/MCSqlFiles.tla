----------------------------- MODULE MCSqlFiles -----------------------------
(***************************************************************************)
(* Scripts for the model checker: every script of up to MaxLexemes whole   *)
(* lexemes, with or without an unfinished one behind them.                 *)
(***************************************************************************)
EXTENDS SqlFilesProperties, SequencesExt

CONSTANTS
    MaxLexemes,   (* bounds the model ... *)
    MaxText       (* ... and the texts that OneReadingAssumption tries *)

(* A word, the signs that are none alone, and white space ...              *)
Plain == {<<"other">>, <<"dash">>, <<"slash">>, <<"star">>, <<"space">>, <<"newline">>}
(* ... a quoted semicolon next to the signs that open other regions, and   *)
(* comments that hold quotes, semicolons and the sign that closes them cut *)
(* short ...                                                               *)
Guarded == {<<"single", "semicolon", "double", "single">>,
            <<"double", "dash", "dash", "semicolon", "double">>,
            <<"back", "slash", "star", "semicolon", "back">>,
            <<"dash", "dash", "single", "semicolon", "newline">>,
            <<"slash", "star", "slash", "back", "semicolon", "newline", "star", "slash">>}
(* ... and what a script may break off with.                               *)
Unfinished == {<<"dash", "dash", "semicolon">>, <<"slash", "star", "semicolon">>,
               <<"single", "semicolon">>}

Lexemes == Plain \cup Guarded \cup {<<"semicolon">>}

(* Two lexemes side by side must not read as the sign of a comment.        *)
Unambiguous(lexemes) ==
    \A i \in 1..(Len(lexemes) - 1) :
        <<Last(lexemes[i]), Head(lexemes[i + 1])>> \notin {<<"dash", "dash">>, <<"slash", "star">>}

(* Where the lexemes of a text end up.                                     *)
Written(lexemes) ==
    LET Upto(k) == FoldLeft(LAMBDA n, l : n + Len(l), 0, SubSeq(lexemes, 1, k))
    IN  [text |-> FlattenSeq(lexemes),
         lexemes |-> {[from |-> Upto(k - 1) + 1, to |-> Upto(k)] : k \in DOMAIN lexemes}]

MCScripts ==
    LET whole == UNION {[1..n -> Lexemes] : n \in 0..MaxLexemes}
        all == whole \cup {Append(w, u) : w \in whole, u \in Unfinished}
    IN  {Written(s) : s \in {s \in all : Unambiguous(s)}}

MCFewScripts ==
    {Written(s) : s \in {<<>>, <<<<"other">>, <<"semicolon">>, <<"single", "semicolon", "single">>>>}}

(* Every text has one reading, and only one: to ask that a script be Lexed *)
(* rules out no script.                                                    *)
Readable(text, cuts) ==
    LET bounds == cuts \cup {0, Len(text)}
        Adjoin(a, b) == a < b /\ \A c \in bounds : c <= a \/ b <= c
    IN  Lexed([text |-> text,
               lexemes |-> {[from |-> p[1] + 1, to |-> p[2]] : p \in {q \in bounds \X bounds : Adjoin(q[1], q[2])}}])

ASSUME OneReadingAssumption ==
    \A n \in 0..MaxText : \A text \in TupleOf(Characters, n) :
        Cardinality({cuts \in SUBSET (1..(n - 1)) : Readable(text, cuts)}) = 1

=============================================================================
