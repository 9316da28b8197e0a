--------------------------- MODULE SqlFilesProofs ---------------------------
(***************************************************************************)
(* The files in their order, and the statements in them: for any paths and *)
(* any scripts, however long, what the database executed is an initial     *)
(* part of what was written.                                               *)
(***************************************************************************)
EXTENDS SqlFilesProperties, SequenceTheorems, TLAPS

-----------------------------------------------------------------------------
(* Lexemes                                                                 *)

LEMMA TextIs ==
    ASSUME NEW s, Lexed(s)
    PROVE  Len(s.text) \in Nat /\ DOMAIN s.text = 1..Len(s.text)
  <1>1. s.text \in Seq(Characters)
    BY DEF Lexed
  <1> QED
    BY <1>1, LenProperties

LEMMA LexemeBounds ==
    ASSUME NEW s, Lexed(s), NEW l \in s.lexemes
    PROVE  /\ Len(s.text) \in Nat /\ DOMAIN s.text = 1..Len(s.text)
           /\ l.from \in Nat /\ l.to \in Nat
           /\ 1 <= l.from /\ l.from <= l.to /\ l.to <= Len(s.text)
  <1>1. Len(s.text) \in Nat /\ DOMAIN s.text = 1..Len(s.text)
    BY TextIs
  <1>2. l.from \in 1..Len(s.text) /\ l.to \in 1..Len(s.text) /\ IsLexeme(s.text, l)
    BY <1>1 DEF Lexed
  <1> QED
    BY <1>1, <1>2 DEF IsLexeme, Sign, Quoted, LineComment, BlockComment

(* A turn of the scanner keeps to the lexeme it stands in, or leaves it    *)
(* for code.                                                               *)
LEMMA TurnsWithin ==
    ASSUME NEW s, Lexed(s), NEW l \in s.lexemes, NEW at \in Nat, NEW region,
           Stands(s, at, region, l),
           NEW next, next = IF at < Len(s.text) THEN s.text[at + 1] ELSE "none",
           NEW then, then = IF region = "code" THEN Opens(s.text[at], next)
                            ELSE IF Closes(region, s.text[at], next) THEN "code" ELSE region,
           NEW last, last = IF \/ region = "code" /\ then \in {"line", "block"}
                               \/ region = "block" /\ then = "code" THEN at + 1 ELSE at
    PROVE  /\ last \in Nat /\ at <= last /\ last <= l.to
           /\ then \in {"code", "line", "block"} \cup Quotes
           /\ last = l.to => l.to = Len(s.text) \/ then = "code"
           /\ last < l.to => Stands(s, last + 1, then, l)
  <1>1. /\ Len(s.text) \in Nat /\ l.from \in Nat /\ l.to \in Nat
        /\ l.from <= at /\ at <= l.to /\ l.to <= Len(s.text)
    BY LexemeBounds DEF Stands, Covers
  <1>2. CASE at = l.from /\ region = "code"
    <2>1. then = Opens(s.text[at], next)
      BY <1>2
    <2>2. CASE Sign(s.text, l)
      <3>1. l.from = l.to /\ s.text[at] \notin Quotes
        BY <1>2, <2>2 DEF Sign
      <3>2. ~(s.text[at] = "dash" /\ next = "dash") /\ ~(s.text[at] = "slash" /\ next = "star")
        BY <1>1, <1>2, <2>2 DEF Sign, OpensComment, Pair
      <3>3. then = "code"
        BY <2>1, <3>1, <3>2 DEF Opens
      <3> QED
        BY <1>1, <1>2, <3>1, <3>3
    <2>3. CASE Quoted(s.text, l)
      <3>1. s.text[at] \in Quotes
        BY <1>2, <2>3 DEF Quoted
      <3>2. then = s.text[at] /\ last = at
        BY <1>2, <2>1, <3>1 DEF Opens, Quotes
      <3>3. last = l.to => l.to = Len(s.text)
        BY <1>2, <2>3, <3>2 DEF Quoted
      <3>4. last < l.to => Stands(s, last + 1, then, l)
        BY <1>1, <1>2, <2>3, <3>2 DEF Stands, Covers
      <3> QED
        BY <1>1, <1>2, <3>1, <3>2, <3>3, <3>4
    <2>4. CASE LineComment(s.text, l)
      <3>1. l.from < l.to /\ at < Len(s.text) /\ s.text[at] = "dash" /\ next = "dash"
        BY <1>2, <2>4 DEF LineComment, Pair
      <3>2. then = "line" /\ last = at + 1
        <4>1. then = "line"
          BY <2>1, <3>1 DEF Opens, Quotes
        <4>2. last = at + 1
          BY <1>2, <4>1
        <4> QED
          BY <4>1, <4>2
      <3>3. last = l.to => l.to = Len(s.text)
        BY <1>1, <1>2, <2>4, <3>2 DEF LineComment
      <3>4. last < l.to => Stands(s, last + 1, then, l)
        BY <1>1, <1>2, <2>4, <3>2 DEF Stands, Covers
      <3> QED
        BY <1>1, <1>2, <3>1, <3>2, <3>3, <3>4
    <2>5. CASE BlockComment(s.text, l)
      <3>1. l.from < l.to /\ at < Len(s.text) /\ s.text[at] = "slash" /\ next = "star"
        BY <1>2, <2>5 DEF BlockComment, Pair
      <3>2. then = "block" /\ last = at + 1
        <4>1. then = "block"
          BY <2>1, <3>1 DEF Opens, Quotes
        <4>2. last = at + 1
          BY <1>2, <4>1
        <4> QED
          BY <4>1, <4>2
      <3>3. last = l.to => l.to = Len(s.text)
        BY <1>1, <1>2, <2>5, <3>2 DEF BlockComment
      <3>4. last < l.to => Stands(s, last + 1, then, l)
        <4>1. l.to = Len(s.text) \/ last + 1 < l.to
          BY <1>1, <1>2, <2>5, <3>2 DEF BlockComment
        <4> QED
          BY <1>1, <1>2, <2>5, <3>2, <4>1 DEF Stands, Covers
      <3> QED
        BY <1>1, <1>2, <3>1, <3>2, <3>3, <3>4
    <2> QED
      BY <2>2, <2>3, <2>4, <2>5 DEF Lexed, IsLexeme
  <1>3. CASE at > l.from /\ Quoted(s.text, l) /\ region = s.text[l.from]
    <2>1. region \in Quotes
      BY <1>3 DEF Quoted
    <2>2. /\ region \notin {"code", "line", "block"}
          /\ then = IF s.text[at] = region THEN "code" ELSE region
          /\ last = at
      BY <2>1 DEF Closes, Quotes
    <2>3. at < l.to => s.text[at] # region
      BY <1>1, <1>3 DEF Quoted
    <2>4. l.to = Len(s.text) \/ s.text[l.to] = region
      BY <1>3 DEF Quoted
    <2>5. last < l.to => Stands(s, last + 1, then, l)
      BY <1>1, <1>3, <2>2, <2>3 DEF Stands, Covers
    <2> QED
      BY <1>1, <2>1, <2>2, <2>4, <2>5
  <1>4. CASE at >= l.from + 2 /\ LineComment(s.text, l) /\ region = "line"
    <2>1. then = (IF s.text[at] = "newline" THEN "code" ELSE "line") /\ last = at
      BY <1>4 DEF Closes
    <2>2. at < l.to => s.text[at] # "newline"
      BY <1>1, <1>4 DEF LineComment
    <2>3. l.to = Len(s.text) \/ s.text[l.to] = "newline"
      BY <1>4 DEF LineComment
    <2>4. last < l.to => Stands(s, last + 1, then, l)
      BY <1>1, <1>4, <2>1, <2>2 DEF Stands, Covers
    <2> QED
      BY <1>1, <2>1, <2>3, <2>4
  <1>5. CASE /\ at >= l.from + 2 /\ BlockComment(s.text, l) /\ region = "block"
             /\ l.to = Len(s.text) \/ at < l.to
    <2>1. then = IF Pair(s.text, at, "star", "slash") THEN "code" ELSE "block"
      BY <1>5 DEF Closes, Pair
    <2>2. CASE Pair(s.text, at, "star", "slash")
      <3>1. then = "code" /\ last = at + 1 /\ at < Len(s.text)
        BY <1>5, <2>1, <2>2 DEF Pair
      <3>2. ~(at \in (l.from + 2)..(l.to - 2))
        BY <1>5, <2>2 DEF BlockComment
      <3>3. last = l.to
        BY <1>1, <1>5, <3>1, <3>2
      <3> QED
        BY <1>1, <3>1, <3>3
    <2>3. CASE ~Pair(s.text, at, "star", "slash")
      <3>1. then = "block" /\ last = at
        BY <1>5, <2>1, <2>3
      <3>2. l.to = Len(s.text) \/ at < l.to - 1
        <4>1. ASSUME l.to # Len(s.text)
              PROVE  at # l.to - 1
          BY <1>1, <1>5, <2>3, <4>1 DEF BlockComment
        <4> QED
          BY <1>1, <1>5, <4>1
      <3>3. last < l.to => Stands(s, last + 1, then, l)
        BY <1>1, <1>5, <3>1, <3>2 DEF Stands, Covers
      <3> QED
        BY <1>1, <1>5, <3>1, <3>2, <3>3
    <2> QED
      BY <2>2, <2>3
  <1> QED
    BY <1>2, <1>3, <1>4, <1>5 DEF Stands

(* Behind a lexeme, the next one begins.                                   *)
LEMMA LexemeFollows ==
    ASSUME NEW s, Lexed(s), NEW l \in s.lexemes, l.to < Len(s.text)
    PROVE  \E k \in s.lexemes : Stands(s, l.to + 1, "code", k)
  <1>1. /\ Len(s.text) \in Nat /\ DOMAIN s.text = 1..Len(s.text) /\ l.from \in Nat /\ l.to \in Nat
        /\ 1 <= l.from /\ l.from <= l.to
    BY LexemeBounds
  <1>2. l.to + 1 \in DOMAIN s.text /\ l.to \in DOMAIN s.text
    BY <1>1
  <1>3. PICK k \in s.lexemes : Covers(k, l.to + 1)
    BY <1>2 DEF Lexed
  <1>4. k.from \in Nat
    BY LexemeBounds
  <1>5. ASSUME k.from <= l.to
        PROVE  FALSE
    <2>1. Covers(k, l.to) /\ Covers(l, l.to)
      BY <1>1, <1>3, <1>4, <1>5, LexemeBounds DEF Covers
    <2>2. k = l
      BY <1>2, <2>1 DEF Lexed
    <2> QED
      BY <1>1, <1>3, <2>2 DEF Covers
  <1>6. k.from = l.to + 1
    BY <1>1, <1>3, <1>4, <1>5 DEF Covers
  <1> QED
    BY <1>3, <1>6 DEF Stands

LEMMA FirstLexeme ==
    ASSUME NEW s, Lexed(s), 1 <= Len(s.text)
    PROVE  \E l \in s.lexemes : Stands(s, 1, "code", l)
  <1>1. Len(s.text) \in Nat /\ DOMAIN s.text = 1..Len(s.text)
    BY TextIs
  <1>2. 1 \in DOMAIN s.text
    BY <1>1
  <1>3. PICK l \in s.lexemes : Covers(l, 1)
    BY <1>2 DEF Lexed
  <1>4. l.from = 1
    BY <1>3, LexemeBounds DEF Covers
  <1> QED
    BY <1>3, <1>4 DEF Stands

(* A semicolon at which a lexeme begins ends a statement, and no other     *)
(* does.                                                                   *)
LEMMA EndsAlone ==
    ASSUME NEW s, Lexed(s), NEW l \in s.lexemes, NEW i, Covers(l, i), i \in DOMAIN s.text
    PROVE  /\ i \in Ends(s) => l.from = i /\ l.to = i
           /\ l.from = i /\ s.text[i] = "semicolon" => i \in Ends(s)
  <1>1. Len(s.text) \in Nat /\ DOMAIN s.text = 1..Len(s.text) /\ l.from \in Nat /\ l.to \in Nat
    BY LexemeBounds
  <1>2. ASSUME i \in Ends(s)
        PROVE  l.from = i /\ l.to = i
    <2>1. PICK k \in s.lexemes : k.from = i /\ k.to = i
      BY <1>2 DEF Ends
    <2>2. Covers(k, i)
      BY <1>1, <2>1 DEF Covers
    <2> QED
      BY <2>1, <2>2 DEF Lexed
  <1>3. ASSUME l.from = i, s.text[i] = "semicolon"
        PROVE  i \in Ends(s)
    <2>1. Sign(s.text, l)
      BY <1>3 DEF Lexed, IsLexeme, Quoted, LineComment, BlockComment, Pair, Quotes
    <2> QED
      BY <1>3, <2>1 DEF Ends, Sign
  <1> QED
    BY <1>2, <1>3

(* What was read since the last end grows by what is read.                 *)
LEMMA EndsIn ==
    ASSUME NEW s, Lexed(s)
    PROVE  Len(s.text) \in Nat /\ DOMAIN s.text = 1..Len(s.text) /\ Ends(s) \subseteq 1..Len(s.text)
  BY TextIs DEF Ends

LEMMA EndedGrows ==
    ASSUME NEW s, Lexed(s), NEW at \in Nat, NEW last \in Nat, 1 <= at, at <= last
    PROVE  /\ (\A i \in at..last : i \notin Ends(s)) =>
                 EndedBy(s, last + 1) = EndedBy(s, at) \cup at..last
           /\ at \in Ends(s) => EndedBy(s, at + 1) = {}
  <1>1. ASSUME NEW j \in Ends(s)
        PROVE  j \in Nat
    BY <1>1, EndsIn
  <1>2. ASSUME \A i \in at..last : i \notin Ends(s), NEW i \in Nat
        PROVE  i \in EndedBy(s, last + 1) <=> i \in EndedBy(s, at) \cup at..last
    <2>1. i \in EndedBy(s, last + 1) <=> i \in 1..last /\ \A j \in Ends(s) : ~(i <= j /\ j < last + 1)
      BY DEF EndedBy
    <2>2. i \in EndedBy(s, at) <=> i \in 1..(at - 1) /\ \A j \in Ends(s) : ~(i <= j /\ j < at)
      BY DEF EndedBy
    <2>3. ASSUME NEW j \in Ends(s)
          PROVE  (i <= j /\ j < last + 1) <=> (i <= j /\ j < at) 
      <3>1. j \in Nat /\ ~(at <= j /\ j <= last)
        BY <1>1, <1>2
      <3> QED
        BY <3>1
    <2> QED
      BY <1>1, <2>1, <2>2, <2>3
  <1>3. EndedBy(s, last + 1) \subseteq Nat /\ EndedBy(s, at) \subseteq Nat /\ at..last \subseteq Nat
    BY DEF EndedBy
  <1>4. ASSUME at \in Ends(s)
        PROVE  EndedBy(s, at + 1) = {}
    BY <1>4 DEF EndedBy
  <1>5. ASSUME \A i \in at..last : i \notin Ends(s)
        PROVE  EndedBy(s, last + 1) = EndedBy(s, at) \cup at..last
    BY <1>2, <1>3, <1>5
  <1> QED
    BY <1>4, <1>5

-----------------------------------------------------------------------------
(* Orders                                                                  *)

(* Precedes is a strict order on files: two of them are always comparable. *)
LEMMA FilesAreOrdered ==
    ASSUME NEW f \in Files, NEW g \in Files
    PROVE  /\ ~(Precedes(f, g) /\ Precedes(g, f))
           /\ f # g => Precedes(f, g) \/ Precedes(g, f)
           /\ ~Precedes(f, f)
  <1>1. f.name \in Nat /\ f.path \in Nat /\ g.name \in Nat /\ g.path \in Nat
    <2>1. f.name \in Names /\ f.path \in 1..MaxPaths /\ g.name \in Names /\ g.path \in 1..MaxPaths
      BY DEF Files
    <2>2. Names \subseteq Nat /\ 1..MaxPaths \subseteq Nat
      BY NamesAssumption, MaxPathsAssumption
    <2> QED
      BY <2>1, <2>2
  <1>2. f # g => f.name # g.name \/ f.path # g.path
    BY DEF Files
  <1> QED
    BY <1>1, <1>2 DEF Precedes

(* So is the order in which statements must run.                           *)
LEMMA BeforeIsStrict ==
    ASSUME NEW s \in Sentences, NEW t \in Sentences, Before(s, t)
    PROVE  ~Before(t, s)
  <1> SUFFICES ASSUME Before(t, s) PROVE FALSE
    OBVIOUS
  <1>1. s.of \in Files /\ t.of \in Files /\ s.text \subseteq Nat /\ t.text \subseteq Nat
    BY DEF Sentences
  <1>2. ~FileBefore(s.of, t.of) /\ ~FileBefore(t.of, s.of)
    BY <1>1, FilesAreOrdered DEF FileBefore, Precedes, Before
  <1>3. PICK i \in s.text : \A j \in t.text : i < j
    BY <1>2 DEF Before
  <1>4. PICK k \in t.text : \A j \in s.text : k < j
    BY <1>2 DEF Before
  <1>5. i < k /\ k < i /\ i \in Nat /\ k \in Nat
    BY <1>1, <1>3, <1>4
  <1> QED
    BY <1>5

(* What has been read up to e lies behind every end before e.              *)
LEMMA EndedLies ==
    ASSUME NEW s, Lexed(s), NEW e \in 1..(Len(s.text) + 1)
    PROVE  /\ EndedBy(s, e) \subseteq 1..(e - 1) /\ EndedBy(s, e) \subseteq DOMAIN s.text
           /\ \A d \in Ends(s) : d < e => \A i \in EndedBy(s, e) : d < i
           /\ Bare(s, EndedBy(s, e)) \subseteq EndedBy(s, e)
           /\ Bare(s, Bare(s, EndedBy(s, e))) = Bare(s, EndedBy(s, e))
  <1>1. Len(s.text) \in Nat /\ DOMAIN s.text = 1..Len(s.text) /\ Ends(s) \subseteq 1..Len(s.text)
    BY EndsIn
  <1>2. EndedBy(s, e) \subseteq 1..(e - 1) /\ EndedBy(s, e) \subseteq DOMAIN s.text
    BY <1>1 DEF EndedBy
  <1>3. ASSUME NEW d \in Ends(s), d < e, NEW i \in EndedBy(s, e)
        PROVE  d < i
    BY <1>1, <1>3 DEF EndedBy
  <1>4. ASSUME NEW i \in Bare(s, EndedBy(s, e))
        PROVE  i \in Bare(s, Bare(s, EndedBy(s, e)))
    <2>1. i \in EndedBy(s, e) /\ EndedBy(s, e) \subseteq Nat
      BY <1>1, <1>2 DEF Bare
    <2>2. PICK a \in EndedBy(s, e) : a <= i /\ Solid(s, a)
      BY DEF Bare
    <2>3. PICK b \in EndedBy(s, e) : i <= b /\ Solid(s, b)
      BY DEF Bare
    <2>4. a \in Bare(s, EndedBy(s, e)) /\ b \in Bare(s, EndedBy(s, e))
      BY <2>1, <2>2, <2>3 DEF Bare
    <2> QED
      BY <2>2, <2>3, <2>4 DEF Bare
  <1>5. Bare(s, EndedBy(s, e)) \subseteq EndedBy(s, e)
    BY DEF Bare
  <1>6. Bare(s, Bare(s, EndedBy(s, e))) \subseteq Bare(s, EndedBy(s, e))
    BY DEF Bare
  <1> QED
    BY <1>2, <1>3, <1>4, <1>5, <1>6

-----------------------------------------------------------------------------
(* The file in hand                                                        *)

LEMMA ReadingsAre ==
    ASSUME Typed
    PROVE  /\ Len(written) \in Nat /\ DOMAIN written = 1..Len(written)
           /\ \A i \in DOMAIN written : /\ written[i].file \in Files
                                        /\ written[i].script \in AllScripts
                                        /\ Lexed(written[i].script)
  <1>1. written \in Seq(Readings)
    BY DEF Typed
  <1>2. \A r \in Readings : r.file \in Files /\ r.script \in AllScripts
    BY DEF Readings
  <1>3. \A i \in DOMAIN written : written[i] \in Readings
    BY <1>1
  <1> QED
    BY <1>1, <1>2, <1>3, LenProperties, ScriptsAssumption DEF AllScripts

(* Every statement wanted belongs to a file that was read; one of the file *)
(* in hand is a piece of the script in hand.                               *)
Pieces == IF engine = "postgres" THEN {DOMAIN script.text} ELSE Statements(script)

LEMMA WantedIs ==
    ASSUME Typed, NEW w \in Wanted
    PROVE  \E i \in DOMAIN written : w.of = written[i].file /\ w \in WantedOf(written[i])
  BY DEF Wanted, WantedOf

LEMMA WantedInHand ==
    ASSUME IInv, phase \in {"splitting", "executing"} \/ unsent # <<>>
    PROVE  /\ file \in Files
           /\ \A t \in Pieces : [of |-> file, text |-> t] \in Wanted
           /\ \A w \in Wanted : w.of = file => \E t \in Pieces : w = [of |-> file, text |-> t]
           /\ \A t \in Pieces : t \subseteq DOMAIN script.text
  <1>1. /\ Len(written) \in Nat /\ DOMAIN written = 1..Len(written) /\ Len(written) > 0
        /\ file \in Files
        /\ written[Len(written)].file = file /\ written[Len(written)].script = script
    BY ReadingsAre DEF IInv, InHand
  <1>2. WantedOf(written[Len(written)]) = {[of |-> file, text |-> t] : t \in Pieces}
    BY <1>1 DEF WantedOf, Pieces
  <1>3. ASSUME NEW t \in Pieces
        PROVE  [of |-> file, text |-> t] \in Wanted
    BY <1>1, <1>2 DEF Wanted
  <1>4. ASSUME NEW w \in Wanted, w.of = file
        PROVE  \E t \in Pieces : w = [of |-> file, text |-> t]
    <2>1. PICK i \in DOMAIN written : w.of = written[i].file /\ w \in WantedOf(written[i])
      BY WantedIs DEF IInv
    <2>2. i = Len(written)
      <3>1. ASSUME i # Len(written)
            PROVE  FALSE
        <4>1. i \in 1..(Len(written) - 1) /\ Len(written) \in DOMAIN written
          BY <1>1, <3>1
        <4>2. Precedes(file, file)
          BY <1>1, <1>4, <2>1, <4>1 DEF IInv, Sorted
        <4> QED
          BY <1>1, <4>2, FilesAreOrdered
      <3> QED
        BY <3>1
    <2> QED
      BY <1>2, <2>1, <2>2
  <1>5. ASSUME NEW t \in Pieces
        PROVE  t \subseteq DOMAIN script.text
    <2>1. CASE engine = "postgres"
      BY <2>1 DEF Pieces
    <2>2. CASE engine # "postgres"
      <3>1. Lexed(script)
        BY DEF IInv, Typed
      <3>2. PICK e \in Ends(script) \cup {Len(script.text) + 1} : t = Bare(script, EndedBy(script, e))
        BY <2>2 DEF Pieces, Statements
      <3>3. e \in 1..(Len(script.text) + 1)
        BY <3>1, EndsIn
      <3> QED
        BY <3>1, <3>2, <3>3, EndedLies
    <2> QED
      BY <2>1, <2>2
  <1> QED
    BY <1>1, <1>3, <1>4, <1>5

-----------------------------------------------------------------------------
(* splitSQL                                                                *)

LEMMA Trimmed == ASSUME NEW buf PROVE trimSpace(buf) = Bare(script, buf)
  BY DEF trimSpace, Bare, Solid, IsSpace

(* What a flush makes of the statements cut off so far.                    *)
LEMMA Flushed ==
    ASSUME IInv, phase = "splitting", NEW out, out = Flush(unsent, scan.buf)
    PROVE  /\ out \in Seq(Sentences)
           /\ Increasing(out)
           /\ \A n \in DOMAIN out :
                 \/ \E k \in DOMAIN unsent : out[n] = unsent[k]
                 \/ out[n] = EndingAt(scan.at) /\ EndingAt(scan.at).text # {}
           /\ \A k \in DOMAIN unsent : \E n \in DOMAIN out : out[n] = unsent[k]
           /\ EndingAt(scan.at).text # {} => \E n \in DOMAIN out : out[n] = EndingAt(scan.at)
  <1>1. /\ Lexed(script) /\ file \in Files /\ unsent \in Seq(Sentences)
        /\ scan.at \in 1..(Len(script.text) + 1) /\ scan.buf = EndedBy(script, scan.at)
    BY DEF IInv, Typed, InHand, Scanned
  <1>2. Len(script.text) \in Nat /\ DOMAIN script.text = 1..Len(script.text)
    BY <1>1, TextIs
  <1>3. trimSpace(scan.buf) = EndingAt(scan.at).text /\ Stated(trimSpace(scan.buf)) = EndingAt(scan.at)
    BY <1>1, Trimmed DEF Stated, EndingAt
  <1>4. CASE EndingAt(scan.at).text = {}
    <2>1. out = unsent
      BY <1>3, <1>4 DEF Flush
    <2> QED
      BY <1>1, <1>4, <2>1 DEF IInv, Queued
  <1>5. CASE EndingAt(scan.at).text # {}
    <2>1. PICK new : new = EndingAt(scan.at)
      OBVIOUS
    <2>2. out = Append(unsent, new)
      BY <1>3, <1>5, <2>1 DEF Flush
    <2>3. new \in Sentences /\ new.of = file /\ new.text = Bare(script, EndedBy(script, scan.at))
      BY <1>1, <1>2, <2>1, EndedLies DEF EndingAt, Sentences
    <2>4. /\ out \in Seq(Sentences) /\ Len(unsent) \in Nat /\ Len(out) = Len(unsent) + 1
          /\ DOMAIN unsent = 1..Len(unsent) /\ DOMAIN out = 1..(Len(unsent) + 1)
          /\ \A k \in 1..Len(unsent) : out[k] = unsent[k]
          /\ out[Len(unsent) + 1] = new
      BY <1>1, <2>2, <2>3, LenProperties, AppendProperties
    <2>5. ASSUME NEW k \in DOMAIN unsent
          PROVE  Before(unsent[k], new)
      <3>1. PICK e \in Ends(script) : e < scan.at /\ unsent[k] = EndingAt(e) /\ unsent[k].text # {}
        BY DEF IInv, Cut
      <3>2. e \in 1..Len(script.text) /\ e \in 1..(Len(script.text) + 1)
        BY <1>1, <1>2, EndsIn
      <3>3. unsent[k].of = file /\ unsent[k].text \subseteq 1..(e - 1)
        BY <1>1, <3>1, <3>2, EndedLies DEF EndingAt
      <3>4. \A j \in new.text : e < j /\ j \in Nat
        BY <1>1, <1>2, <2>3, <3>1, EndedLies
      <3>5. PICK i \in unsent[k].text : TRUE
        BY <3>1
      <3>6. \A j \in new.text : i < j
        BY <3>2, <3>3, <3>4, <3>5
      <3> QED
        BY <2>3, <3>3, <3>6 DEF Before
    <2>6. Increasing(out)
      <3> SUFFICES ASSUME NEW n \in DOMAIN out, NEW m \in 1..(n - 1) PROVE Before(out[m], out[n])
        BY DEF Increasing
      <3>1. CASE n = Len(unsent) + 1
        BY <2>4, <2>5, <3>1
      <3>2. CASE n # Len(unsent) + 1
        <4>1. n \in DOMAIN unsent /\ m \in 1..(n - 1) /\ m \in DOMAIN unsent
          BY <2>4, <3>2
        <4> QED
          BY <2>4, <4>1 DEF IInv, Queued, Increasing
      <3> QED
        BY <3>1, <3>2
    <2>7. ASSUME NEW n \in DOMAIN out
          PROVE  (\E k \in DOMAIN unsent : out[n] = unsent[k]) \/ out[n] = new
      BY <2>4
    <2>8. \A k \in DOMAIN unsent : \E n \in DOMAIN out : out[n] = unsent[k]
      BY <2>4
    <2>9. \E n \in DOMAIN out : out[n] = new
      BY <2>4
    <2> QED
      BY <1>5, <2>1, <2>4, <2>6, <2>7, <2>8, <2>9
  <1> QED
    BY <1>4, <1>5

(* What is cut off is wanted, and not yet applied.                         *)
LEMMA CutIsWanted ==
    ASSUME IInv, phase = "splitting", NEW e, e \in Ends(script) \cup {Len(script.text) + 1},
           EndingAt(e).text # {}
    PROVE  /\ EndingAt(e).of = file /\ EndingAt(e) \in Wanted
           /\ \A m \in DOMAIN applied : Before(applied[m], EndingAt(e))
  <1>1. engine = "clickhouse"
    BY DEF IInv, Cut
  <1>2. EndingAt(e).text \in Pieces
    BY <1>1 DEF Pieces, Statements, EndingAt
  <1>3. EndingAt(e) = [of |-> file, text |-> EndingAt(e).text]
    BY DEF EndingAt
  <1>4. EndingAt(e) \in Wanted
    BY <1>2, <1>3, WantedInHand
  <1>5. ASSUME NEW m \in DOMAIN applied
        PROVE  Before(applied[m], EndingAt(e))
    BY <1>3 DEF IInv, Queued, Before
  <1> QED
    BY <1>3, <1>4, <1>5

(* A turn ends a statement where a semicolon is a lexeme of its own, and   *)
(* only there.                                                             *)
LEMMA TurnStep ==
    ASSUME IInv, phase = "splitting", scan.at <= Len(script.text), Turn
    PROVE  /\ \/ scan.at \in Ends(script) /\ unsent' = Flush(unsent, scan.buf) /\ scan'.at = scan.at + 1
              \/ /\ unsent' = unsent
                 /\ scan.at < scan'.at
                 /\ \A i \in scan.at..(scan'.at - 1) : i \notin Ends(script)
           /\ scan'.at \in 1..(Len(script.text) + 1)
           /\ scan'.region \in {"code", "line", "block"} \cup Quotes
           /\ scan'.buf = EndedBy(script, scan'.at)
           /\ scan'.at <= Len(script.text) =>
                 \E l \in script.lexemes : Stands(script, scan'.at, scan'.region, l)
  <1>1. /\ Lexed(script) /\ scan.at \in 1..(Len(script.text) + 1)
        /\ scan.buf = EndedBy(script, scan.at)
    BY DEF IInv, Typed, Scanned
  <1>2. /\ Len(script.text) \in Nat /\ DOMAIN script.text = 1..Len(script.text)
        /\ Ends(script) \subseteq 1..Len(script.text)
    BY <1>1, EndsIn
  <1>3. scan.at \in Nat /\ 1 <= scan.at /\ scan.at \in DOMAIN script.text
    BY <1>1, <1>2
  <1>4. PICK l \in script.lexemes : Stands(script, scan.at, scan.region, l)
    BY DEF IInv, Scanned
  <1>5. /\ l.from \in Nat /\ l.to \in Nat /\ 1 <= l.from /\ l.from <= l.to /\ l.to <= Len(script.text)
        /\ Covers(l, scan.at) /\ l.from <= scan.at /\ scan.at <= l.to
    BY <1>1, <1>4, LexemeBounds DEF Stands, Covers
  <1>6. scan.region = "code" => scan.at = l.from
    BY <1>4 DEF Stands, Quoted, Quotes
  <1>7. CASE scan.region = "code" /\ script.text[scan.at] = "semicolon"
    <2>1. scan.at \in Ends(script) /\ l.from = scan.at /\ l.to = scan.at
      BY <1>1, <1>3, <1>5, <1>6, <1>7, EndsAlone
    <2>2. /\ unsent' = Flush(unsent, scan.buf)
          /\ scan' = [at |-> scan.at + 1, region |-> "code", buf |-> {}]
      BY <1>7 DEF Turn
    <2>3. EndedBy(script, scan.at + 1) = {}
      BY <1>1, <1>3, <2>1, EndedGrows
    <2>4. scan.at + 1 <= Len(script.text) =>
              \E k \in script.lexemes : Stands(script, scan.at + 1, "code", k)
      BY <1>1, <1>2, <1>3, <2>1, LexemeFollows
    <2>5. scan'.at = scan.at + 1 /\ scan'.region = "code" /\ scan'.buf = {}
      BY <2>2
    <2>6. scan.at + 1 \in 1..(Len(script.text) + 1)
      BY <1>2, <1>3
    <2> QED
      BY <2>1, <2>2, <2>3, <2>4, <2>5, <2>6
  <1>8. CASE ~(scan.region = "code" /\ script.text[scan.at] = "semicolon")
    <2>1. PICK next : next = IF scan.at < Len(script.text) THEN script.text[scan.at + 1] ELSE "none"
      OBVIOUS
    <2>2. PICK then : then = IF scan.region = "code" THEN Opens(script.text[scan.at], next)
                             ELSE IF Closes(scan.region, script.text[scan.at], next) THEN "code"
                             ELSE scan.region
      OBVIOUS
    <2>3. PICK last : last = IF \/ scan.region = "code" /\ then \in {"line", "block"}
                                \/ scan.region = "block" /\ then = "code" THEN scan.at + 1 ELSE scan.at
      OBVIOUS
    <2>4. then = Region(script.text[scan.at], next)
      BY <2>2 DEF Region
    <2>5. /\ unsent' = unsent
          /\ scan' = [at |-> last + 1, region |-> then, buf |-> scan.buf \cup scan.at..last]
      BY <1>8, <2>1, <2>3, <2>4 DEF Turn
    <2>6. /\ last \in Nat /\ scan.at <= last /\ last <= l.to
          /\ then \in {"code", "line", "block"} \cup Quotes
          /\ last = l.to => l.to = Len(script.text) \/ then = "code"
          /\ last < l.to => Stands(script, last + 1, then, l)
      BY <1>1, <1>3, <1>4, <2>1, <2>2, <2>3, TurnsWithin
    <2>7. ASSUME NEW i \in scan.at..last
          PROVE  i \notin Ends(script)
      <3>1. i \in DOMAIN script.text /\ Covers(l, i)
        BY <1>2, <1>3, <1>5, <2>6 DEF Covers
      <3>2. ASSUME i \in Ends(script)
            PROVE  FALSE
        <4>1. l.from = i /\ l.to = i /\ script.text[i] = "semicolon"
          BY <1>1, <3>1, <3>2, EndsAlone DEF Ends
        <4>2. scan.at = i
          BY <1>5, <4>1, <1>3
        <4>3. scan.region = "code"
          BY <1>3, <1>4, <4>1, <4>2 DEF Stands
        <4> QED
          BY <1>8, <4>1, <4>2, <4>3
      <3> QED
        BY <3>2
    <2>8. EndedBy(script, last + 1) = scan.buf \cup scan.at..last
      <3>1. \A i \in scan.at..last : i \notin Ends(script)
        BY <2>7
      <3>2. Lexed(script) /\ scan.at \in Nat /\ 1 <= scan.at /\ last \in Nat /\ scan.at <= last
        BY <1>1, <1>3, <2>6
      <3>3. EndedBy(script, last + 1) = EndedBy(script, scan.at) \cup scan.at..last
        BY <3>1, <3>2, EndedGrows
      <3> QED
        BY <1>1, <3>3
    <2>9. last + 1 <= Len(script.text) => \E k \in script.lexemes : Stands(script, last + 1, then, k)
      <3>1. CASE last < l.to
        BY <2>6, <3>1
      <3>2. CASE last = l.to
        BY <1>1, <1>2, <1>5, <2>6, <3>2, LexemeFollows
      <3> QED
        BY <1>5, <2>6, <3>1, <3>2
    <2>10. scan'.at = last + 1 /\ scan'.region = then /\ scan'.buf = scan.buf \cup scan.at..last
      BY <2>5
    <2>11. last + 1 \in 1..(Len(script.text) + 1) /\ scan.at < last + 1 /\ (last + 1) - 1 = last
      BY <1>2, <1>3, <1>5, <2>6
    <2> QED
      BY <2>5, <2>6, <2>7, <2>8, <2>9, <2>10, <2>11
  <1> QED
    BY <1>7, <1>8

LEMMA SplitStep == IInv /\ splitSQL => IInv'
  <1> SUFFICES ASSUME IInv, splitSQL PROVE IInv'
    OBVIOUS
  <1>1. /\ phase = "splitting"
        /\ engine' = engine /\ strict' = strict /\ prepare' = prepare /\ tree' = tree
        /\ todo' = todo /\ file' = file /\ script' = script
        /\ written' = written /\ applied' = applied
    BY DEF splitSQL, options
  <1>2. /\ Lexed(script) /\ file \in Files /\ scan.at \in 1..(Len(script.text) + 1)
        /\ Len(script.text) \in Nat /\ Ends(script) \subseteq 1..Len(script.text)
        /\ engine = "clickhouse"
    BY <1>1, EndsIn DEF IInv, Typed, Scanned, InHand, Cut
  <1>3. /\ Wanted' = Wanted /\ Taken' = Taken /\ Ends(script)' = Ends(script)
        /\ \A e : EndingAt(e)' = EndingAt(e)
        /\ Scripted(tree)' = Scripted(tree)
    BY <1>1 DEF Wanted, WantedOf, Taken, EndingAt
  <1>4. Sorted'
    BY <1>1 DEF IInv, Sorted
  (* Whether or not a statement is cut off, what is unsent keeps its order  *)
  (* and loses nothing.                                                     *)
  <1>5. ASSUME unsent' \in Seq(Sentences), Increasing(unsent'),
               \A n \in DOMAIN unsent' :
                  \/ \E k \in DOMAIN unsent : unsent'[n] = unsent[k]
                  \/ \E e \in Ends(script) \cup {Len(script.text) + 1} :
                        unsent'[n] = EndingAt(e) /\ EndingAt(e).text # {}
        PROVE  /\ \A n \in DOMAIN unsent' : unsent'[n].of = file /\ unsent'[n] \in Wanted
               /\ \A m \in DOMAIN applied : \A n \in DOMAIN unsent' : Before(applied[m], unsent'[n])
    BY <1>1, <1>5, CutIsWanted DEF IInv, Queued
  <1>6. CASE scan.at <= Len(script.text) /\ Turn /\ phase' = phase
    <2>1. /\ scan'.at \in 1..(Len(script.text) + 1)
          /\ scan'.region \in {"code", "line", "block"} \cup Quotes
          /\ scan'.buf = EndedBy(script, scan'.at)
          /\ scan'.at <= Len(script.text) =>
                 \E l \in script.lexemes : Stands(script, scan'.at, scan'.region, l)
      BY <1>1, <1>6, TurnStep
    <2>2. Scanned'
      BY <1>1, <1>6, <2>1 DEF Scanned
    <2>3. /\ unsent' \in Seq(Sentences) /\ Increasing(unsent')
          /\ \A n \in DOMAIN unsent' : \E e \in Ends(script) :
                e < scan'.at /\ unsent'[n] = EndingAt(e) /\ EndingAt(e).text # {}
          /\ \A e \in Ends(script) : e < scan'.at /\ EndingAt(e).text # {} =>
                \E n \in DOMAIN unsent' : unsent'[n] = EndingAt(e)
      <3>1. CASE scan.at \in Ends(script) /\ unsent' = Flush(unsent, scan.buf) /\ scan'.at = scan.at + 1
        <4>1. /\ unsent' \in Seq(Sentences)
              /\ Increasing(unsent')
              /\ \A n \in DOMAIN unsent' :
                    \/ \E k \in DOMAIN unsent : unsent'[n] = unsent[k]
                    \/ unsent'[n] = EndingAt(scan.at) /\ EndingAt(scan.at).text # {}
              /\ \A k \in DOMAIN unsent : \E n \in DOMAIN unsent' : unsent'[n] = unsent[k]
              /\ EndingAt(scan.at).text # {} => \E n \in DOMAIN unsent' : unsent'[n] = EndingAt(scan.at)
          BY <1>1, <3>1, Flushed
        <4>2. ASSUME NEW e \in Ends(script)
              PROVE  e < scan'.at <=> e < scan.at \/ e = scan.at
          <5>1. e \in Nat /\ scan.at \in Nat
            BY <1>2
          <5> QED
            BY <3>1, <5>1
        <4>3. ASSUME NEW n \in DOMAIN unsent'
              PROVE  \E e \in Ends(script) :
                        e < scan'.at /\ unsent'[n] = EndingAt(e) /\ EndingAt(e).text # {}
          <5>1. CASE \E k \in DOMAIN unsent : unsent'[n] = unsent[k]
            BY <1>1, <4>2, <5>1 DEF IInv, Cut
          <5>2. CASE unsent'[n] = EndingAt(scan.at) /\ EndingAt(scan.at).text # {}
            BY <3>1, <4>2, <5>2
          <5> QED
            BY <4>1, <5>1, <5>2
        <4>4. ASSUME NEW e \in Ends(script), e < scan'.at, EndingAt(e).text # {}
              PROVE  \E n \in DOMAIN unsent' : unsent'[n] = EndingAt(e)
          <5>1. CASE e < scan.at
            <6>1. PICK k \in DOMAIN unsent : unsent[k] = EndingAt(e)
              BY <1>1, <4>4, <5>1 DEF IInv, Cut
            <6> QED
              BY <4>1, <6>1
          <5>2. CASE e = scan.at
            BY <4>1, <4>4, <5>2
          <5> QED
            BY <4>2, <4>4, <5>1, <5>2
        <4> QED
          BY <4>1, <4>3, <4>4
      <3>2. CASE /\ unsent' = unsent /\ scan.at < scan'.at
                 /\ \A i \in scan.at..(scan'.at - 1) : i \notin Ends(script)
        <4>1. ASSUME NEW e \in Ends(script)
              PROVE  e < scan'.at <=> e < scan.at
          <5>1. e \in Nat /\ scan.at \in Nat /\ scan'.at \in Nat
            BY <1>2, <2>1
          <5>2. ~(scan.at <= e /\ e <= scan'.at - 1)
            BY <3>2, <5>1
          <5> QED
            BY <3>2, <5>1, <5>2
        <4> QED
          BY <1>1, <3>2, <4>1 DEF IInv, Typed, Queued, Cut
      <3> QED
        BY <1>1, <1>6, <3>1, <3>2, TurnStep
    <2>4. Cut'
      BY <1>1, <1>2, <1>3, <2>3 DEF Cut
    <2>5. Typed'
      BY <1>1, <1>3, <1>6, <2>3 DEF IInv, Typed
    <2>6. Split'
      BY <1>1, <1>3, <1>6 DEF IInv, Split, Refused
    <2>7. InHand'
      BY <1>1, <1>2, <1>6 DEF IInv, InHand
    <2>8. /\ \A n \in DOMAIN unsent' : unsent'[n].of = file /\ unsent'[n] \in Wanted
          /\ \A m \in DOMAIN applied : \A n \in DOMAIN unsent' : Before(applied[m], unsent'[n])
      BY <1>5, <2>3
    <2>9. ASSUME NEW w \in Wanted, ~(w.of = file)
          PROVE  \E n \in DOMAIN applied : applied[n] = w
      BY <1>1, <2>9 DEF IInv, Queued
    <2>10. Queued'
      BY <1>1, <1>3, <1>6, <2>3, <2>8, <2>9 DEF IInv, Queued, Increasing
    <2> QED
      BY <1>4, <2>2, <2>4, <2>5, <2>6, <2>7, <2>10 DEF IInv
  <1>7. CASE /\ scan.at > Len(script.text) /\ unsent' = Flush(unsent, scan.buf)
             /\ scan' = NewScan /\ phase' = "executing"
    <2>1. scan.at = Len(script.text) + 1
      BY <1>2, <1>7
    <2>2. /\ unsent' \in Seq(Sentences)
          /\ Increasing(unsent')
          /\ \A n \in DOMAIN unsent' :
                \/ \E k \in DOMAIN unsent : unsent'[n] = unsent[k]
                \/ unsent'[n] = EndingAt(scan.at) /\ EndingAt(scan.at).text # {}
          /\ \A k \in DOMAIN unsent : \E n \in DOMAIN unsent' : unsent'[n] = unsent[k]
          /\ EndingAt(scan.at).text # {} => \E n \in DOMAIN unsent' : unsent'[n] = EndingAt(scan.at)
      BY <1>1, <1>7, Flushed
    <2>3. /\ \A n \in DOMAIN unsent' : unsent'[n].of = file /\ unsent'[n] \in Wanted
          /\ \A m \in DOMAIN applied : \A n \in DOMAIN unsent' : Before(applied[m], unsent'[n])
      BY <1>5, <2>1, <2>2
    <2>4. ASSUME NEW w \in Wanted
          PROVE  \/ \E n \in DOMAIN applied : applied[n] = w
                 \/ \E n \in DOMAIN unsent' : unsent'[n] = w
      <3>1. CASE w.of # file
        BY <1>1, <3>1 DEF IInv, Queued
      <3>2. CASE w.of = file
        <4>1. PICK t \in Pieces : w = [of |-> file, text |-> t]
          BY <1>1, <3>2, WantedInHand
        <4>2. PICK e \in Ends(script) \cup {Len(script.text) + 1} :
                  t = Bare(script, EndedBy(script, e)) /\ t # {}
          BY <1>2 DEF Pieces, Statements
        <4>3. w = EndingAt(e) /\ EndingAt(e).text # {}
          BY <4>1, <4>2 DEF EndingAt
        <4>4. CASE e \in Ends(script)
          <5>1. e < scan.at
            BY <1>2, <2>1, <4>4
          <5>2. PICK k \in DOMAIN unsent : unsent[k] = EndingAt(e)
            BY <1>1, <4>3, <4>4, <5>1 DEF IInv, Cut
          <5> QED
            BY <2>2, <4>3, <5>2
        <4>5. CASE e = Len(script.text) + 1
          BY <2>1, <2>2, <4>3, <4>5
        <4> QED
          BY <4>4, <4>5
      <3> QED
        BY <3>1, <3>2
    <2>5. Scanned'
      <3>1. scan'.at = 1 /\ scan'.region = "code" /\ scan'.buf = {}
        BY <1>7 DEF NewScan
      <3>2. EndedBy(script, 1) = {}
        BY DEF EndedBy
      <3>3. 1 <= Len(script.text) => \E l \in script.lexemes : Stands(script, 1, "code", l)
        BY <1>2, FirstLexeme
      <3>4. 1 \in 1..(Len(script.text) + 1)
        BY <1>2
      <3> QED
        BY <1>1, <1>7, <3>1, <3>2, <3>3, <3>4 DEF Scanned
    <2>6. Cut'
      BY <1>7 DEF Cut
    <2>7. Typed'
      BY <1>1, <1>3, <1>7, <2>2 DEF IInv, Typed
    <2>8. Split'
      BY <1>1, <1>3, <1>7 DEF IInv, Split, Refused
    <2>9. InHand'
      BY <1>1, <1>2, <1>7 DEF IInv, InHand
    <2>10. Queued'
      BY <1>1, <1>3, <1>7, <2>2, <2>3, <2>4 DEF IInv, Queued, Increasing
    <2> QED
      BY <1>4, <2>5, <2>6, <2>7, <2>8, <2>9, <2>10 DEF IInv
  <1> QED
    BY <1>6, <1>7 DEF splitSQL

-----------------------------------------------------------------------------
(* The call                                                                *)

LEMMA InvInit == Init => IInv
  <1> SUFFICES ASSUME Init PROVE IInv
    OBVIOUS
  <1>1. /\ script.text = <<>> /\ script.lexemes = {} /\ scan.at = 1 /\ scan.region = "code" /\ scan.buf = {}
        /\ scan = NewScan
    BY DEF Init, NoScript, NewScan
  <1>2. Len(script.text) = 0 /\ script.text \in Seq(Characters) /\ DOMAIN script.text = {}
    BY <1>1
  <1>3. Lexed(script)
    BY <1>1, <1>2 DEF Lexed
  <1>4. Typed
    <2>1. unsent \in Seq(Sentences) /\ applied \in Seq(Sentences) /\ written \in Seq(Readings)
      BY DEF Init
    <2>2. prepare \in BOOLEAN
      BY DEF Init
    <2> QED
      BY <1>3, <2>1, <2>2 DEF Init, Typed
  <1>5. Split /\ Sorted /\ Cut /\ InHand
    BY DEF Init, Split, Sorted, Taken, Cut, InHand
  <1>6. EndedBy(script, 1) = {}
    BY DEF EndedBy
  <1>7. Scanned
    BY <1>1, <1>2, <1>6 DEF Scanned
  <1>8. Wanted = {}
    BY DEF Init, Wanted
  <1>9. Queued
    BY <1>8 DEF Init, Queued, Increasing
  <1> QED
    BY <1>4, <1>5, <1>7, <1>9 DEF IInv

(* A file is taken up: it joins those taken, and leaves those to do.       *)
LEMMA TakeStep == IInv /\ ExecFile => IInv'
  <1> SUFFICES ASSUME IInv, ExecFile PROVE IInv'
    OBVIOUS
  <1>1. PICK f \in todo : /\ \A g \in todo \ {f} : Precedes(f, g)
                          /\ todo' = todo \ {f}
                          /\ file' = f
    BY DEF ExecFile
  <1>2. PICK s \in AllScripts : script' = s
    BY DEF ExecFile, Contents, AllScripts
  <1>3. PICK r : r = [file |-> f, script |-> s]
    OBVIOUS
  <1>4. /\ phase = "reading" /\ tree' = tree /\ strict' = strict /\ engine' = engine
        /\ prepare' = prepare /\ scan' = scan /\ applied' = applied
        /\ written' = Append(written, r)
    BY <1>1, <1>2, <1>3 DEF ExecFile, options
  <1>5. \/ engine = "postgres" /\ phase' = "executing"
                /\ unsent' = <<[of |-> f, text |-> DOMAIN s.text]>>
        \/ engine = "clickhouse" /\ phase' = "splitting" /\ unsent' = <<>>
    BY <1>1, <1>2 DEF ExecFile, ExecPostgresFile, ExecClickHouseFile, IInv, Typed
  <1>6. /\ f \in Files /\ f \in Scripted(tree) /\ Lexed(s) /\ r \in Readings
        /\ r.file = f /\ r.script = s
    BY <1>3, ScriptsAssumption DEF IInv, Typed, Scripted, AllScripts, Readings
  <1>7. /\ Len(s.text) \in Nat /\ DOMAIN s.text = 1..Len(s.text)
    BY <1>6, TextIs
  <1>8. /\ written' \in Seq(Readings)
        /\ Len(written) \in Nat /\ Len(written') = Len(written) + 1
        /\ DOMAIN written = 1..Len(written) /\ DOMAIN written' = 1..(Len(written) + 1)
        /\ \A i \in 1..Len(written) : written'[i] = written[i]
        /\ written'[Len(written) + 1] = r
    <2>1. written \in Seq(Readings)
      BY DEF IInv, Typed
    <2> QED
      BY <1>4, <1>6, <2>1, LenProperties, AppendProperties
  <1>9. Scripted(tree)' = Scripted(tree)
    BY <1>4 DEF Scripted
  <1>10. \A i \in DOMAIN tree : ~Refused(tree[i]) /\ ~Refused(tree[i])'
    BY <1>4 DEF IInv, Split, Refused
  <1>11. PICK new \in [of : Files, text : SUBSET Nat] :
             new = [of |-> f, text |-> DOMAIN s.text]
    <2>1. DOMAIN s.text \subseteq Nat
      BY <1>7
    <2> QED
      BY <1>6, <2>1
  <1>12. new \in Sentences /\ new.of = f
    BY <1>11 DEF Sentences
  <1>13. /\ unsent' \in Seq(Sentences)
         /\ \A n \in DOMAIN unsent' : n = 1 /\ unsent'[n] = new /\ engine = "postgres"
         /\ engine = "postgres" => 1 \in DOMAIN unsent' /\ unsent'[1] = new
    <2>1. CASE engine = "postgres"
      <3>1. unsent' = <<new>>
        BY <1>5, <1>11, <2>1
      <3> QED
        BY <1>12, <2>1, <3>1
    <2>2. CASE engine # "postgres"
      <3>1. unsent' = <<>>
        BY <1>5, <2>2
      <3> QED
        BY <2>2, <3>1
    <2> QED
      BY <2>1, <2>2
  <1>14. Typed'
    BY <1>1, <1>2, <1>4, <1>5, <1>6, <1>8, <1>9, <1>13 DEF IInv, Typed
  <1>15. Taken' = Taken \cup {f}
    <2>1. Taken = {written[i].file : i \in 1..Len(written)}
      BY <1>8 DEF Taken
    <2>2. Taken' = {written'[i].file : i \in 1..(Len(written) + 1)}
      BY <1>8 DEF Taken
    <2>3. 1..(Len(written) + 1) = 1..Len(written) \cup {Len(written) + 1}
      BY <1>8
    <2> QED
      BY <1>6, <1>8, <2>1, <2>2, <2>3
  <1>16. Split'
    BY <1>1, <1>4, <1>5, <1>9, <1>10, <1>15 DEF IInv, Split, Typed
  <1>17. Sorted'
    <2>1. \A i \in 1..Len(written) : Precedes(written[i].file, f)
      BY <1>8 DEF IInv, Sorted
    <2>2. ASSUME NEW i \in 1..(Len(written) + 1), NEW g \in todo'
          PROVE  Precedes(written'[i].file, g)
      <3>1. CASE i \in 1..Len(written)
        BY <1>1, <1>8, <3>1 DEF IInv, Sorted
      <3>2. CASE i = Len(written) + 1
        BY <1>1, <1>6, <1>8, <3>2
      <3> QED
        BY <1>8, <3>1, <3>2
    <2>3. ASSUME NEW j \in 1..(Len(written) + 1), NEW i \in 1..(j - 1)
          PROVE  Precedes(written'[i].file, written'[j].file)
      <3>1. i \in 1..Len(written)
        BY <1>8
      <3>2. CASE j \in 1..Len(written)
        BY <1>8, <3>1, <3>2 DEF IInv, Sorted
      <3>3. CASE j = Len(written) + 1
        BY <1>6, <1>8, <2>1, <3>1, <3>3
      <3> QED
        BY <1>8, <3>2, <3>3
    <2> QED
      BY <1>8, <2>2, <2>3 DEF Sorted, Precedes
  <1>18. Scanned'
    <2>1. scan = NewScan /\ scan.at = 1 /\ scan.region = "code" /\ scan.buf = {}
      BY <1>4 DEF IInv, Scanned, NewScan
    <2>2. EndedBy(s, 1) = {}
      BY DEF EndedBy
    <2>3. 1 <= Len(s.text) => \E l \in s.lexemes : Stands(s, 1, "code", l)
      BY <1>6, FirstLexeme
    <2>4. 1 \in 1..(Len(s.text) + 1)
      BY <1>7
    <2> QED
      BY <1>2, <1>4, <2>1, <2>2, <2>3, <2>4 DEF Scanned, NewScan
  <1>19. Cut'
    <2>1. scan.at = 1
      BY <1>4 DEF IInv, Scanned, NewScan
    <2>2. \A e \in Ends(s) : ~(e < 1)
      BY <1>6, EndsIn
    <2> QED
      BY <1>2, <1>4, <1>5, <2>1, <2>2 DEF Cut
  <1>20. InHand'
    BY <1>1, <1>2, <1>5, <1>6, <1>8 DEF InHand
  <1>21. Wanted' = Wanted \cup WantedOf(r)
    <2>1. ASSUME NEW w
          PROVE  WantedOf(w)' = WantedOf(w)
      BY <1>4 DEF WantedOf
    <2>2. ASSUME NEW w \in Wanted
          PROVE  w \in Wanted'
      BY <1>8, <2>1 DEF Wanted
    <2>3. ASSUME NEW w \in WantedOf(r)
          PROVE  w \in Wanted'
      <3>1. Len(written) + 1 \in DOMAIN written'
        BY <1>8
      <3> QED
        BY <1>8, <2>1, <3>1 DEF Wanted
    <2>4. ASSUME NEW w \in Wanted'
          PROVE  w \in Wanted \cup WantedOf(r)
      <3>1. PICK i \in 1..(Len(written) + 1) : w \in WantedOf(written'[i])
        BY <1>8, <2>1 DEF Wanted
      <3>2. CASE i \in 1..Len(written)
        BY <1>8, <3>1, <3>2 DEF Wanted
      <3>3. CASE i = Len(written) + 1
        BY <1>8, <3>1, <3>3
      <3> QED
        BY <1>8, <3>2, <3>3
    <2> QED
      BY <2>2, <2>3, <2>4
  <1>22. /\ \A w \in WantedOf(r) : w.of = f
         /\ engine = "postgres" => WantedOf(r) = {new}
    BY <1>6, <1>11 DEF WantedOf
  <1>23. ASSUME NEW w \in Wanted
         PROVE  /\ FileBefore(w.of, f)
                /\ \E n \in DOMAIN applied : applied[n] = w
    <2>1. PICK i \in DOMAIN written : w.of = written[i].file
      BY WantedIs DEF IInv
    <2>2. FileBefore(w.of, f)
      BY <2>1 DEF IInv, Sorted, Precedes, FileBefore
    <2>3. DOMAIN unsent = {}
      BY <1>4 DEF IInv, InHand
    <2> QED
      BY <1>4, <2>2, <2>3 DEF IInv, Queued
  <1>24. Queued'
    <2>1. Increasing(unsent')
      BY <1>13 DEF Increasing
    <2>2. Increasing(applied') /\ \A n \in DOMAIN applied' : applied'[n] \in Wanted'
      BY <1>4, <1>21 DEF IInv, Queued
    <2>3. \A n \in DOMAIN unsent' : unsent'[n].of = f /\ unsent'[n] \in Wanted'
      BY <1>12, <1>13, <1>21, <1>22
    <2>4. ASSUME NEW m \in DOMAIN applied'
          PROVE  FileBefore(applied'[m].of, f)
      BY <1>4, <1>23 DEF IInv, Queued
    <2>5. \A m \in DOMAIN applied' : \A n \in DOMAIN unsent' : Before(applied'[m], unsent'[n])
      BY <1>12, <1>13, <2>4 DEF Before
    <2>6. ASSUME NEW w \in Wanted'
          PROVE  \/ phase' = "splitting" /\ w.of = f
                 \/ \E n \in DOMAIN applied' : applied'[n] = w
                 \/ \E n \in DOMAIN unsent' : unsent'[n] = w
      <3>1. CASE w \in Wanted
        BY <1>4, <1>23, <3>1
      <3>2. CASE w \in WantedOf(r)
        BY <1>5, <1>13, <1>22, <3>2
      <3> QED
        BY <1>21, <3>1, <3>2
    <2> QED
      BY <1>1, <2>1, <2>2, <2>3, <2>4, <2>5, <2>6 DEF Queued, Increasing
  <1> QED
    BY <1>14, <1>16, <1>17, <1>18, <1>19, <1>20, <1>24 DEF IInv

(* A statement goes from the head of those unsent to the end of those      *)
(* applied.                                                                *)
LEMMA SendStep == IInv /\ ExecStatement => IInv'
  <1> SUFFICES ASSUME IInv, ExecStatement PROVE IInv'
    OBVIOUS
  <1>1. /\ phase = "executing" /\ unsent # <<>> /\ phase' \in {"executing", "failed"}
        /\ engine' = engine /\ strict' = strict /\ prepare' = prepare /\ tree' = tree
        /\ todo' = todo /\ file' = file /\ script' = script /\ scan' = scan
        /\ written' = written /\ unsent' = Tail(unsent)
    BY DEF ExecStatement, options
  <1>2. PICK head : head = Head(unsent)
    OBVIOUS
  <1>3. applied' = Append(applied, head)
    BY <1>2 DEF ExecStatement
  <1>4. unsent \in Seq(Sentences) /\ applied \in Seq(Sentences)
    BY DEF IInv, Typed
  <1>5. /\ Len(unsent) \in Nat /\ Len(unsent) > 0 /\ DOMAIN unsent = 1..Len(unsent)
        /\ head \in Sentences /\ head = unsent[1]
        /\ unsent' \in Seq(Sentences)
        /\ DOMAIN unsent' = 1..(Len(unsent) - 1)
        /\ \A n \in 1..(Len(unsent) - 1) : unsent'[n] = unsent[n + 1]
    <2>1. Len(unsent) \in Nat /\ Len(unsent) > 0 /\ DOMAIN unsent = 1..Len(unsent)
      BY <1>1, <1>4, LenProperties, EmptySeq
    <2>2. /\ head \in Sentences /\ unsent' \in Seq(Sentences) /\ Len(unsent') = Len(unsent) - 1
          /\ \A n \in 1..Len(unsent') : unsent'[n] = unsent[n + 1]
      BY <1>1, <1>2, <1>4, HeadTailProperties
    <2>3. DOMAIN unsent' = 1..Len(unsent')
      BY <2>2, LenProperties
    <2>4. head = unsent[1]
      BY <1>2
    <2> QED
      BY <2>1, <2>2, <2>3, <2>4
  <1>6. /\ applied' \in Seq(Sentences)
        /\ Len(applied) \in Nat
        /\ DOMAIN applied = 1..Len(applied) /\ DOMAIN applied' = 1..(Len(applied) + 1)
        /\ \A n \in 1..Len(applied) : applied'[n] = applied[n]
        /\ applied'[Len(applied) + 1] = head
    <2>1. /\ applied' \in Seq(Sentences) /\ Len(applied') = Len(applied) + 1
          /\ \A n \in 1..Len(applied) : applied'[n] = applied[n]
          /\ applied'[Len(applied) + 1] = head
      BY <1>3, <1>4, <1>5, AppendProperties
    <2>2. Len(applied) \in Nat /\ DOMAIN applied = 1..Len(applied) /\ DOMAIN applied' = 1..Len(applied')
      BY <1>4, <2>1, LenProperties
    <2> QED
      BY <2>1, <2>2
  <1>7. Wanted' = Wanted /\ Taken' = Taken /\ Scripted(tree)' = Scripted(tree)
    BY <1>1 DEF Wanted, WantedOf, Taken, Scripted
  <1>8. Typed'
    BY <1>1, <1>5, <1>6, <1>7 DEF IInv, Typed
  <1>9. Split' /\ Sorted' /\ Cut'
    BY <1>1, <1>7 DEF IInv, Split, Sorted, Cut, Refused
  <1>10. Scanned'
    BY <1>1 DEF IInv, Scanned
  <1>11. InHand'
    BY <1>1 DEF IInv, InHand
  <1>12. 1 \in DOMAIN unsent /\ \A n \in 1..(Len(unsent) - 1) : n + 1 \in DOMAIN unsent /\ 1 \in 1..((n + 1) - 1)
    BY <1>5
  <1>13. Increasing(unsent')
    <2> SUFFICES ASSUME NEW n \in 1..(Len(unsent) - 1), NEW m \in 1..(n - 1)
                 PROVE  Before(unsent'[m], unsent'[n])
      BY <1>5 DEF Increasing
    <2>1. m \in 1..(Len(unsent) - 1) /\ m + 1 \in 1..((n + 1) - 1)
      BY <1>5
    <2>2. Before(unsent[m + 1], unsent[n + 1])
      BY <1>12, <2>1 DEF IInv, Queued, Increasing
    <2> QED
      BY <1>5, <2>1, <2>2
  <1>14. Increasing(applied')
    <2> SUFFICES ASSUME NEW n \in 1..(Len(applied) + 1), NEW m \in 1..(n - 1)
                 PROVE  Before(applied'[m], applied'[n])
      BY <1>6 DEF Increasing
    <2>1. m \in 1..Len(applied) /\ applied'[m] = applied[m]
      BY <1>6
    <2>2. CASE n \in 1..Len(applied)
      BY <1>6, <2>1, <2>2 DEF IInv, Queued, Increasing
    <2>3. CASE n = Len(applied) + 1
      <3>1. Before(applied[m], unsent[1])
        BY <1>6, <1>12, <2>1 DEF IInv, Queued
      <3> QED
        BY <1>5, <1>6, <2>1, <2>3, <3>1
    <2> QED
      BY <1>6, <2>2, <2>3
  <1>15. \A n \in DOMAIN unsent' : unsent'[n].of = file /\ unsent'[n] \in Wanted
    BY <1>5, <1>12 DEF IInv, Queued
  <1>16. \A n \in DOMAIN applied' : applied'[n] \in Wanted
    <2>1. head \in Wanted
      BY <1>5, <1>12 DEF IInv, Queued
    <2>2. \A n \in 1..Len(applied) : applied[n] \in Wanted
      BY <1>6 DEF IInv, Queued
    <2>3. \A n \in 1..(Len(applied) + 1) : n \in 1..Len(applied) \/ n = Len(applied) + 1
      BY <1>6
    <2> QED
      BY <1>6, <2>1, <2>2, <2>3
  <1>17. ASSUME NEW m \in 1..(Len(applied) + 1), NEW n \in 1..(Len(unsent) - 1)
         PROVE  Before(applied'[m], unsent'[n])
    <2>1. unsent'[n] = unsent[n + 1] /\ n + 1 \in DOMAIN unsent
      BY <1>5, <1>12
    <2>2. CASE m \in 1..Len(applied)
      BY <1>6, <2>1, <2>2 DEF IInv, Queued
    <2>3. CASE m = Len(applied) + 1
      <3>1. Before(unsent[1], unsent[n + 1])
        BY <1>12 DEF IInv, Queued, Increasing
      <3> QED
        BY <1>5, <1>6, <2>1, <2>3, <3>1
    <2> QED
      BY <1>6, <2>2, <2>3
  <1>18. ASSUME NEW w \in Wanted
         PROVE  \/ \E n \in DOMAIN applied' : applied'[n] = w
                \/ \E n \in DOMAIN unsent' : unsent'[n] = w
    <2>1. CASE \E n \in DOMAIN applied : applied[n] = w
      <3>1. PICK n \in 1..Len(applied) : applied[n] = w
        BY <1>6, <2>1
      <3>2. n \in 1..(Len(applied) + 1)
        BY <1>6
      <3> QED
        BY <1>6, <3>1, <3>2
    <2>2. CASE \E n \in DOMAIN unsent : unsent[n] = w
      <3>1. PICK n \in 1..Len(unsent) : unsent[n] = w
        BY <1>5, <2>2
      <3>2. CASE n = 1
        <4>1. Len(applied) + 1 \in 1..(Len(applied) + 1)
          BY <1>6
        <4> QED
          BY <1>5, <1>6, <3>1, <3>2, <4>1
      <3>3. CASE n # 1
        <4>1. PICK k \in 1..(Len(unsent) - 1) : n = k + 1
          <5>1. n - 1 \in 1..(Len(unsent) - 1) /\ n = (n - 1) + 1
            BY <1>5, <3>3
          <5> QED
            BY <5>1
        <4> QED
          BY <1>5, <3>1, <4>1
      <3> QED
        BY <3>2, <3>3
    <2> QED
      BY <1>1, <2>1, <2>2 DEF IInv, Queued
  <1>19. Queued'
    BY <1>1, <1>5, <1>6, <1>7, <1>13, <1>14, <1>15, <1>16, <1>17, <1>18 DEF Queued, Increasing
  <1> QED
    BY <1>8, <1>9, <1>10, <1>11, <1>19 DEF IInv

LEMMA FinishStep == IInv /\ FileFinished => IInv'
  <1> SUFFICES ASSUME IInv, FileFinished PROVE IInv'
    OBVIOUS
  <1>1. /\ phase = "executing" /\ unsent = <<>> /\ phase' = "reading"
        /\ engine' = engine /\ strict' = strict /\ prepare' = prepare /\ tree' = tree
        /\ todo' = todo /\ file' = NoFile /\ script' = NoScript /\ scan' = scan
        /\ unsent' = unsent /\ written' = written /\ applied' = applied
    BY DEF FileFinished, options
  <1>2. /\ script'.text = <<>> /\ script'.lexemes = {} /\ Len(script'.text) = 0
        /\ DOMAIN script'.text = {}
    BY <1>1 DEF NoScript
  <1>3. Lexed(script')
    <2>1. script'.text \in Seq(Characters)
      BY <1>2
    <2> QED
      BY <1>2, <2>1 DEF Lexed
  <1>4. Wanted' = Wanted /\ Taken' = Taken /\ Scripted(tree)' = Scripted(tree)
    BY <1>1 DEF Wanted, WantedOf, Taken, Scripted
  <1>5. Typed'
    BY <1>1, <1>3, <1>4 DEF IInv, Typed
  <1>6. Split' /\ Sorted' /\ Cut'
    BY <1>1, <1>4 DEF IInv, Split, Sorted, Cut, Refused
  <1>7. Scanned'
    <2>1. scan = NewScan /\ scan.at = 1 /\ scan.region = "code" /\ scan.buf = {}
      BY <1>1 DEF IInv, Scanned, NewScan
    <2>2. EndedBy(script', 1) = {}
      BY DEF EndedBy
    <2> QED
      BY <1>1, <1>2, <2>1, <2>2 DEF Scanned
  <1>8. InHand'
    BY <1>1 DEF InHand
  <1>9. Queued'
    BY <1>1, <1>4 DEF IInv, Queued, Increasing
  <1> QED
    BY <1>5, <1>6, <1>7, <1>8, <1>9 DEF IInv

(* The other steps leave the file in hand and the history alone.           *)
LEMMA OtherStep ==
    ASSUME IInv, UNCHANGED <<options, fileVars, written, applied>>,
           phase \notin {"splitting"}, phase' \notin {"splitting"},
           phase' \in {"executing"} => phase = "executing",
           phase' \notin {"executing", "failed"} => unsent = <<>>,
           Typed', Split', Sorted'
    PROVE  IInv'
  <1>1. /\ engine' = engine /\ tree' = tree /\ file' = file /\ script' = script /\ scan' = scan
        /\ unsent' = unsent /\ written' = written /\ applied' = applied
    BY DEF options, fileVars
  <1>2. Wanted' = Wanted
    BY <1>1 DEF Wanted, WantedOf
  <1>3. Scanned'
    BY <1>1 DEF IInv, Scanned
  <1>4. Cut'
    BY DEF Cut
  <1>5. InHand'
    BY <1>1 DEF IInv, InHand
  <1>6. Queued'
    BY <1>1, <1>2 DEF IInv, Queued, Increasing
  <1> QED
    BY <1>3, <1>4, <1>5, <1>6 DEF IInv

LEMMA InvStep == IInv /\ [Next]_vars => IInv'
  <1> SUFFICES ASSUME IInv, [Next]_vars PROVE IInv'
    OBVIOUS
  <1>1. CASE PassOver
    <2>1. Scripted(tree) = {}
      BY <1>1 DEF PassOver, Scripted
    <2>2. unsent = <<>>
      BY <1>1 DEF PassOver, IInv, InHand
    <2>3. Typed' /\ Split' /\ Sorted'
      BY <1>1, <2>1 DEF PassOver, options, fileVars, IInv, Typed, Split, Sorted, Taken, Scripted, Refused
    <2> QED
      BY <1>1, <2>2, <2>3, OtherStep DEF PassOver
  <1>2. CASE Prepare
    <2>1. unsent = <<>>
      BY <1>2 DEF Prepare, IInv, InHand
    <2>2. Typed' /\ Split' /\ Sorted'
      BY <1>2 DEF Prepare, EmptyDatabase, options, fileVars, IInv, Typed, Split, Sorted, Taken, Scripted,
                  Refused
    <2> QED
      BY <1>2, <2>1, <2>2, OtherStep DEF Prepare, EmptyDatabase
  <1>3. CASE ExecDir
    <2>1. unsent = <<>>
      BY <1>3 DEF ExecDir, IInv, InHand
    <2>2. Typed' /\ Split' /\ Sorted'
      BY <1>3 DEF ExecDir, options, fileVars, IInv, Typed, Split, Sorted, Taken, Scripted, Refused
    <2> QED
      BY <1>3, <2>1, <2>2, OtherStep DEF ExecDir
  <1>4. CASE CollectSQLFiles
    <2>1. unsent = <<>>
      BY <1>4 DEF CollectSQLFiles, IInv, InHand
    <2>2. Typed' /\ Split' /\ Sorted'
      BY <1>4 DEF CollectSQLFiles, options, fileVars, IInv, Typed, Split, Sorted, Taken, Scripted, Refused
    <2>3. UNCHANGED <<options, fileVars, written, applied>> /\ phase = "collecting"
          /\ phase' \in {"failed", "reading"}
      BY <1>4 DEF CollectSQLFiles
    <2> QED
      BY <2>1, <2>2, <2>3, OtherStep
  <1>5. CASE ExecFile
    BY <1>5, TakeStep
  <1>6. CASE splitSQL
    BY <1>6, SplitStep
  <1>7. CASE ExecStatement
    BY <1>7, SendStep
  <1>8. CASE FileFinished
    BY <1>8, FinishStep
  <1>9. CASE Fail
    <2>1. Typed' /\ Split' /\ Sorted'
      BY <1>9 DEF Fail, options, fileVars, IInv, Typed, Split, Sorted, Taken, Scripted, Refused
    <2> QED
      BY <1>9, <2>1, OtherStep DEF Fail
  <1>10. CASE Return
    <2>1. unsent = <<>>
      BY <1>10 DEF Return, IInv, InHand
    <2>2. Typed' /\ Split' /\ Sorted'
      BY <1>10 DEF Return, options, fileVars, IInv, Typed, Split, Sorted, Taken, Scripted, Refused
    <2> QED
      BY <1>10, <2>1, <2>2, OtherStep DEF Return
  <1>11. CASE UNCHANGED vars
    <2>1. /\ engine' = engine /\ strict' = strict /\ prepare' = prepare /\ tree' = tree
          /\ phase' = phase /\ todo' = todo /\ file' = file /\ script' = script /\ scan' = scan
          /\ unsent' = unsent /\ written' = written /\ applied' = applied
      BY <1>11 DEF vars, options, fileVars
    <2>2. Typed' /\ Split' /\ Sorted'
      BY <2>1 DEF IInv, Typed, Split, Sorted, Taken, Scripted, Refused
    <2>3. Scanned' /\ InHand'
      BY <2>1 DEF IInv, Scanned, InHand
    <2>4. Cut'
      BY <2>1 DEF IInv, Cut, EndingAt
    <2>5. Wanted' = Wanted
      BY <2>1 DEF Wanted, WantedOf
    <2>6. Queued'
      BY <2>1, <2>5 DEF IInv, Queued, Increasing
    <2> QED
      BY <2>2, <2>3, <2>4, <2>6 DEF IInv
  <1> QED
    BY <1>1, <1>2, <1>3, <1>4, <1>5, <1>6, <1>7, <1>8, <1>9, <1>10, <1>11 DEF Next

LEMMA Invariance == Spec => []IInv
  BY InvInit, InvStep, PTL DEF Spec

-----------------------------------------------------------------------------
(* What the call promises                                                  *)

(* All variables keep their types, and no statement that waits for         *)
(* ClickHouse is blank or begins or ends in white space (splitSQL,         *)
(* clickhouse.go:107-111).                                                 *)
THEOREM TypeCorrect == Spec => []TypeOK
  <1>1. IInv => TypeOK
    <2> SUFFICES ASSUME IInv PROVE TypeOK
      OBVIOUS
    <2>1. tree \in Seq(Path) /\ Len(tree) <= MaxPaths
      <3>1. PICK n \in 0..MaxPaths : tree \in [1..n -> Path]
        BY DEF IInv, Typed, Trees
      <3>2. n \in Nat /\ n <= MaxPaths
        BY MaxPathsAssumption
      <3>3. tree \in Seq(Path) /\ Len(tree) = n
        BY <3>1, <3>2
      <3> QED
        BY <3>2, <3>3
    <2>2. /\ Lexed(script) /\ script.text \in Seq(Characters)
          /\ Len(script.text) \in Nat /\ DOMAIN script.text = 1..Len(script.text)
      BY TextIs DEF IInv, Typed, Lexed
    <2>3. scan.at \in 1..(Len(script.text) + 1) /\ scan.buf \subseteq DOMAIN script.text
      BY <2>2, EndedLies DEF IInv, Scanned
    <2>4. ASSUME NEW i \in DOMAIN unsent
          PROVE  /\ unsent[i].of = file /\ unsent[i].text \subseteq DOMAIN script.text
                 /\ engine = "clickhouse" => /\ unsent[i].text # {}
                                             /\ unsent[i].text = Bare(script, unsent[i].text)
      <3>1. unsent # <<>>
        BY <2>4
      <3>2. unsent[i].of = file /\ unsent[i] \in Wanted
        BY DEF IInv, Queued
      <3>3. PICK t \in Pieces : unsent[i] = [of |-> file, text |-> t]
        BY <3>1, <3>2, WantedInHand
      <3>4. unsent[i].text = t /\ t \subseteq DOMAIN script.text
        BY <3>1, <3>3, WantedInHand
      <3>5. ASSUME engine = "clickhouse"
            PROVE  t # {} /\ t = Bare(script, t)
        <4>1. PICK e \in Ends(script) \cup {Len(script.text) + 1} :
                  t = Bare(script, EndedBy(script, e)) /\ t # {}
          BY <3>5 DEF Pieces, Statements
        <4>2. e \in 1..(Len(script.text) + 1)
          BY <2>2, EndsIn
        <4> QED
          BY <2>2, <4>1, <4>2, EndedLies
      <3> QED
        BY <3>2, <3>4, <3>5
    <2>5. ASSUME NEW i \in DOMAIN written
          PROVE  written[i].file \in Scripted(tree) /\ written[i].script.text \in Seq(Characters)
      <3>1. Lexed(written[i].script)
        BY <2>5, ReadingsAre DEF IInv
      <3>2. written # <<>>
        BY <2>5
      <3> QED
        BY <3>1, <3>2 DEF Lexed, IInv, Split, Taken
    <2>6. ASSUME NEW i \in DOMAIN applied
          PROVE  \E j \in DOMAIN written : applied[i].of = written[j].file
      BY WantedIs DEF IInv, Queued
    <2>7. /\ engine \in {"postgres", "clickhouse"} /\ strict \in BOOLEAN /\ prepare \in BOOLEAN
          /\ phase \in {"started", "collecting", "reading", "splitting", "executing", "failed", "done"}
          /\ todo \subseteq Scripted(tree) /\ file \in Files \cup {NoFile}
          /\ scan.region \in {"code", "line", "block"} \cup Quotes
      BY DEF IInv, Typed, Scanned
    <2> QED
      BY <2>1, <2>2, <2>3, <2>4, <2>5, <2>6, <2>7 DEF TypeOK
  <1> QED
    BY <1>1, Invariance, PTL

(* Wherever the call fails, and whatever the scripts quote or comment out, *)
(* the database has executed the first statements of the files in order,   *)
(* each once and whole (splitSQL, clickhouse.go:42-116; ApplyClickHouse,   *)
(* clickhouse.go:17-36).                                                   *)
THEOREM AppliedInOrder == Spec => []AppliedAsWritten
  <1>1. IInv => AppliedAsWritten
    <2> SUFFICES ASSUME IInv, NEW n \in DOMAIN applied
                 PROVE  /\ applied[n] \in Wanted
                        /\ \A w \in Wanted :
                              Before(w, applied[n]) <=> \E m \in 1..(n - 1) : applied[m] = w
      BY DEF AppliedAsWritten
    <2>1. applied \in Seq(Sentences) /\ unsent \in Seq(Sentences)
      BY DEF IInv, Typed
    <2>2. Len(applied) \in Nat /\ DOMAIN applied = 1..Len(applied)
      BY <2>1, LenProperties
    <2>3. /\ \A m \in DOMAIN applied : applied[m] \in Sentences
          /\ \A m \in DOMAIN unsent : unsent[m] \in Sentences
      BY <2>1
    <2>4. applied[n] \in Wanted
      BY DEF IInv, Queued
    <2>5. ASSUME NEW m \in 1..(n - 1)
          PROVE  Before(applied[m], applied[n])
      BY DEF IInv, Queued, Increasing
    <2>6. ASSUME NEW w \in Wanted, Before(w, applied[n])
          PROVE  \E m \in 1..(n - 1) : applied[m] = w
      <3>1. CASE phase = "splitting" /\ w.of = file
        <4>1. /\ FileBefore(applied[n].of, w.of)
              /\ applied[n].of \in Files /\ w.of \in Files
          BY <2>3, <3>1 DEF IInv, Queued, Sentences, InHand
        <4>2. ~FileBefore(w.of, applied[n].of) /\ w.of # applied[n].of
          BY <4>1, FilesAreOrdered DEF FileBefore, Precedes
        <4> QED
          BY <2>6, <4>2 DEF Before
      <3>2. CASE \E k \in DOMAIN unsent : unsent[k] = w
        <4>1. PICK k \in DOMAIN unsent : unsent[k] = w
          BY <3>2
        <4>2. Before(applied[n], w) /\ w \in Sentences /\ applied[n] \in Sentences
          BY <2>3, <4>1 DEF IInv, Queued
        <4> QED
          BY <2>6, <4>2, BeforeIsStrict
      <3>3. CASE \E m \in DOMAIN applied : applied[m] = w
        <4>1. PICK m \in 1..Len(applied) : applied[m] = w
          BY <2>2, <3>3
        <4>2. w \in Sentences /\ applied[n] \in Sentences
          BY <2>2, <2>3, <4>1
        <4>3. m # n
          BY <2>6, <4>1, <4>2, BeforeIsStrict
        <4>4. ~(n \in 1..(m - 1))
          <5>1. ASSUME n \in 1..(m - 1)
                PROVE  FALSE
            <6>1. Before(applied[n], w)
              BY <2>2, <4>1, <5>1 DEF IInv, Queued, Increasing
            <6> QED
              BY <2>6, <4>2, <6>1, BeforeIsStrict
          <5> QED
            BY <5>1
        <4>5. m \in 1..(n - 1)
          BY <2>2, <4>1, <4>3, <4>4
        <4> QED
          BY <4>1, <4>5
      <3> QED
        BY <3>1, <3>2, <3>3 DEF IInv, Queued
    <2> QED
      BY <2>4, <2>5, <2>6
  <1> QED
    BY <1>1, Invariance, PTL

(* Files run in the documented order, without a repetition and without a   *)
(* gap, wherever the call has failed (CollectSQLFiles, sqlfiles.go:14-27). *)
THEOREM FilesOrdered == Spec => []FilesInOrder
  <1>1. IInv => FilesInOrder
    <2> SUFFICES ASSUME IInv, NEW i \in DOMAIN written, NEW f \in Scripted(tree)
                 PROVE  Precedes(f, written[i].file)
                            <=> \E j \in 1..(i - 1) : written[j].file = f
      BY DEF FilesInOrder, Precedes, FileBefore
    <2>1. /\ Len(written) \in Nat /\ DOMAIN written = 1..Len(written)
          /\ f \in Files /\ \A j \in DOMAIN written : written[j].file \in Files
      BY ReadingsAre DEF IInv, Scripted
    <2>2. (\E j \in 1..(i - 1) : written[j].file = f) => Precedes(f, written[i].file)
      BY DEF IInv, Sorted
    <2>3. ASSUME Precedes(f, written[i].file)
          PROVE  \E j \in 1..(i - 1) : written[j].file = f
      <3>1. f \notin todo
        BY <2>1, <2>3, FilesAreOrdered DEF IInv, Sorted
      <3>2. written # <<>>
        BY <2>1
      <3>3. PICK j \in DOMAIN written : written[j].file = f
        BY <3>1, <3>2 DEF IInv, Split, Taken
      <3>4. j # i
        BY <2>1, <2>3, <3>3, FilesAreOrdered
      <3>5. ~(i \in 1..(j - 1))
        BY <2>1, <2>3, <3>3, FilesAreOrdered DEF IInv, Sorted
      <3> QED
        BY <2>1, <3>3, <3>4, <3>5
    <2> QED
      BY <2>2, <2>3
  <1> QED
    BY <1>1, Invariance, PTL

(* A call that reports success left out no script, no statement of one     *)
(* and, under StrictPath, no path (CollectSQLFiles, migration.go:29-42).   *)
THEOREM SuccessIsComplete == Spec => []DoneMeansAll
  <1>1. IInv => DoneMeansAll
    <2>1. IInv => NoFileLeft
      BY DEF IInv, Split, NoFileLeft, Refused
    <2>2. ASSUME IInv, phase = "done", NEW w \in Wanted
          PROVE  \E n \in DOMAIN applied : applied[n] = w
      <3>1. DOMAIN unsent = {}
        BY <2>2 DEF IInv, InHand
      <3> QED
        BY <2>2, <3>1 DEF IInv, Queued
    <2> QED
      BY <2>1, <2>2 DEF DoneMeansAll
  <1> QED
    BY <1>1, Invariance, PTL

=============================================================================
