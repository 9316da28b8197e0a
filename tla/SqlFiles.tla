------------------------------ MODULE SqlFiles ------------------------------
(***************************************************************************)
(* src/itestkit/migration.go: the SQL files of one database instance, in   *)
(* one call of applyPostgresMigrations, applyClickHouseMigrations or their *)
(* seed siblings, or of the helpers in sqlhelpers.go. CollectSQLFiles      *)
(* finds and orders the files; PostgreSQL gets each as a whole, ClickHouse *)
(* statement by statement, as splitSQL cuts them. Any access to a file or  *)
(* the database may fail, and the first failure ends the call.             *)
(***************************************************************************)
EXTENDS Naturals, Sequences, FiniteSets

CONSTANTS
    Names,       (* base names of files, numbered in lexicographic order    *)
    MaxPaths,    (* configured paths: bounds the model                      *)
    Scripts,     (* what a ClickHouse file that is the only path may hold   *)
    FewScripts   (* what other files may hold: both bound the model         *)

(* Characters, as far as splitSQL tells them apart.                        *)
White == {"space", "newline"}
Quotes == {"single", "double", "back"}
Characters == White \cup Quotes \cup {"dash", "slash", "star", "semicolon", "other"}

(* A script is a text and the lexemes that SQL reads in it, each known by  *)
(* where it begins and ends: a sign, something quoted, or a comment. The   *)
(* last one may break off. No action looks at the lexemes.                 *)
Pair(text, i, c, d) == i < Len(text) /\ text[i] = c /\ text[i + 1] = d
OpensComment(text, i) == Pair(text, i, "dash", "dash") \/ Pair(text, i, "slash", "star")

Sign(text, l) == l.from = l.to /\ text[l.from] \notin Quotes /\ ~OpensComment(text, l.from)
Quoted(text, l) ==
    /\ text[l.from] \in Quotes
    /\ \A i \in (l.from + 1)..(l.to - 1) : text[i] # text[l.from]
    /\ l.to = Len(text) \/ (l.from < l.to /\ text[l.to] = text[l.from])
LineComment(text, l) ==
    /\ Pair(text, l.from, "dash", "dash") /\ l.from < l.to
    /\ \A i \in (l.from + 2)..(l.to - 1) : text[i] # "newline"
    /\ l.to = Len(text) \/ (l.from + 2 <= l.to /\ text[l.to] = "newline")
BlockComment(text, l) ==
    /\ Pair(text, l.from, "slash", "star") /\ l.from < l.to
    /\ \A i \in (l.from + 2)..(l.to - 2) : ~Pair(text, i, "star", "slash")
    /\ l.to = Len(text) \/ (l.from + 3 <= l.to /\ Pair(text, l.to - 1, "star", "slash"))

IsLexeme(text, l) ==
    Sign(text, l) \/ Quoted(text, l) \/ LineComment(text, l) \/ BlockComment(text, l)

Covers(l, i) == l.from <= i /\ i <= l.to
Lexed(s) ==
    /\ s.text \in Seq(Characters)
    /\ \A l \in s.lexemes : /\ l.from \in DOMAIN s.text /\ l.to \in DOMAIN s.text
                                 /\ IsLexeme(s.text, l)
    /\ \A i \in DOMAIN s.text : \E l \in s.lexemes : Covers(l, i)
    /\ \A k, l \in s.lexemes, i \in DOMAIN s.text : Covers(k, i) /\ Covers(l, i) => k = l

ASSUME NamesAssumption == Names \subseteq Nat
ASSUME MaxPathsAssumption == MaxPaths \in Nat
ASSUME ScriptsAssumption == \A s \in Scripts \cup FewScripts : Lexed(s)

VARIABLES
    (* The options, and what is on the disk.                                *)
    engine,     (* the kind of the instance                                 *)
    strict,     (* StrictPath                                               *)
    prepare,    (* DropPublicSchemaBeforeMigrate, TruncateTablesBeforeSeed  *)
    tree,       (* the configured paths, in their order                     *)
    (* The call.                                                            *)
    phase,      (* where it stands                                          *)
    todo,       (* the files CollectSQLFiles found, less those taken up     *)
    file,       (* the file in hand ...                                     *)
    script,     (* ... and what it holds                                    *)
    scan,       (* splitSQL: where it reads, in what region, and its buffer *)
    unsent,     (* the statements of the file not yet sent                  *)
    (* History, read by the properties alone.                               *)
    written,    (* the files read so far                                    *)
    applied     (* the statements the database executed                     *)

options == <<engine, strict, prepare, tree>>
fileVars == <<file, script, scan, unsent>>
vars == <<options, phase, todo, fileVars, written, applied>>

(* A directory entry is a script, or ignored: hidden, a directory, or not  *)
(* named .sql. A path that is a file itself is listed as its only entry.   *)
Entries == [Names -> {"absent", "script", "ignored"}]
Path ==
    [is : {"missing", "unreadable"}, entries : {[n \in Names |-> "absent"]}]
        \cup [is : {"directory"}, entries : Entries]
        \cup [is : {"file"}, entries : {e \in Entries :
                Cardinality({n \in Names : e[n] # "absent"}) = 1}]

Files == [path : 1..MaxPaths, name : Names]
NoFile == [path |-> 0, name |-> 0]
NoScript == [text |-> <<>>, lexemes |-> {}]

-----------------------------------------------------------------------------
(* splitSQL. Its buffer, and a statement, is the set of the places in the  *)
(* script that its characters come from.                                   *)

NewScan == [at |-> 1, region |-> "code", buf |-> {}]

IsSpace(c) == c \in White

trimSpace(buf) ==
    LET solid == {i \in buf : ~IsSpace(script.text[i])}
    IN  {i \in buf : (\E a \in solid : a <= i) /\ (\E b \in solid : i <= b)}

(* The buffer becomes a statement, unless there is nothing in it.          *)
Stated(text) == [of |-> file, text |-> text]
FlushEvenIfEmpty(out, buf) == Append(out, Stated(trimSpace(buf)))
Flush(out, buf) == IF trimSpace(buf) = {} THEN out ELSE Append(out, Stated(trimSpace(buf)))

(* The region that r opens in code, if any: a quoted one is named for its  *)
(* quote. The two characters of a comment's sign are taken together.       *)
OpensNoComment(r, next) == IF r \in Quotes THEN r ELSE "code"
Opens(r, next) ==
    CASE r = "dash" /\ next = "dash"  -> "line"
      [] r = "slash" /\ next = "star" -> "block"
      [] r \in Quotes                 -> r
      [] OTHER                        -> "code"

Closes(region, r, next) ==
    CASE region = "line"  -> r = "newline"
      [] region = "block" -> r = "star" /\ next = "slash"
      [] OTHER            -> r = region

Region(r, next) ==
    IF scan.region = "code" THEN Opens(r, next)
    ELSE IF Closes(scan.region, r, next) THEN "code" ELSE scan.region

(* One turn of the loop.                                                   *)
Turn ==
    LET r == script.text[scan.at]
        next == IF scan.at < Len(script.text) THEN script.text[scan.at + 1] ELSE "none"
        region == Region(r, next)
        both == \/ scan.region = "code" /\ region \in {"line", "block"}
                \/ scan.region = "block" /\ region = "code"
        last == IF both THEN scan.at + 1 ELSE scan.at
    IN  IF scan.region = "code" /\ r = "semicolon"
        THEN /\ unsent' = Flush(unsent, scan.buf)
             /\ scan' = [at |-> scan.at + 1, region |-> "code", buf |-> {}]
        ELSE /\ scan' = [at |-> last + 1, region |-> region, buf |-> scan.buf \cup scan.at..last]
             /\ UNCHANGED unsent

splitSQL ==
    /\ phase = "splitting"
    /\ \/ scan.at <= Len(script.text) /\ Turn /\ UNCHANGED phase
       \/ /\ scan.at > Len(script.text)
          /\ unsent' = Flush(unsent, scan.buf)
          /\ scan' = NewScan
          /\ phase' = "executing"
    /\ UNCHANGED <<options, todo, file, script, written, applied>>

-----------------------------------------------------------------------------
(* The call                                                                *)

Trees == UNION {[1..n -> Path] : n \in 0..MaxPaths}
Scripted(paths) == {f \in Files : /\ f.path \in DOMAIN paths
                                  /\ paths[f.path].entries[f.name] = "script"}

(* Only the options of PostgreSQL know a preparation.                      *)
Init ==
    /\ engine \in {"postgres", "clickhouse"}
    /\ strict \in BOOLEAN
    /\ prepare \in IF engine = "postgres" THEN BOOLEAN ELSE {FALSE}
    /\ tree \in Trees
    /\ phase = "started"
    /\ todo = {}
    /\ file = NoFile
    /\ script = NoScript
    /\ scan = NewScan
    /\ unsent = <<>>
    /\ written = <<>>
    /\ applied = <<>>

(* An instance without paths is passed over, its preparation included.     *)
PassOver ==
    /\ phase = "started" /\ tree = <<>>
    /\ phase' = "done"
    /\ UNCHANGED <<options, todo, fileVars, written, applied>>

(* The schema is dropped and made anew, or tables are truncated: in one    *)
(* exchange with the database, which may fail.                             *)
EmptyDatabase == phase' \in {"collecting", "failed"}

Prepare ==
    /\ phase = "started" /\ tree # <<>>
    /\ prepare
    /\ EmptyDatabase
    /\ UNCHANGED <<options, todo, fileVars, written, applied>>

(* A loop of migration.go without a preparation, or a test's own call of   *)
(* ExecPostgresDir or ExecClickHouseDir, which take one path and know none. *)
ExecDir ==
    /\ phase = "started" /\ tree # <<>>
    /\ ~prepare
    /\ phase' = "collecting"
    /\ UNCHANGED <<options, todo, fileVars, written, applied>>

RefusedOnlyIfUnreadable(path) == path.is = "unreadable"
Refused(path) == path.is = "unreadable" \/ (path.is = "missing" /\ strict)

CollectSQLFiles ==
    /\ phase = "collecting"
    /\ IF \E i \in DOMAIN tree : Refused(tree[i])
       THEN phase' = "failed" /\ UNCHANGED todo
       ELSE phase' = "reading" /\ todo' = Scripted(tree)
    /\ UNCHANGED <<options, fileVars, written, applied>>

(* Sorted by base name; the sort is stable over the order of the paths.    *)
PrecedesByPath(f, g) == f.path < g.path \/ (f.path = g.path /\ f.name < g.name)
Precedes(f, g) == f.name < g.name \/ (f.name = g.name /\ f.path < g.path)

Contents ==
    IF engine = "clickhouse" /\ Len(tree) = 1 /\ tree[1].is = "file" THEN Scripts ELSE FewScripts

(* PostgreSQL takes a script as it is, ClickHouse a statement at a time.   *)
ExecPostgresFile ==
    /\ engine = "postgres"
    /\ phase' = "executing" /\ unsent' = <<[of |-> file', text |-> DOMAIN script'.text]>>
ExecClickHouseFile ==
    /\ engine = "clickhouse"
    /\ phase' = "splitting" /\ unsent' = <<>>

(* The next file is read, the database opened and pinged.                  *)
ExecFile ==
    /\ phase = "reading"
    /\ \E f \in todo :
        /\ \A g \in todo \ {f} : Precedes(f, g)
        /\ todo' = todo \ {f}
        /\ file' = f
    /\ script' \in Contents
    /\ written' = Append(written, [file |-> file', script |-> script'])
    /\ ExecPostgresFile \/ ExecClickHouseFile
    /\ UNCHANGED <<options, scan, applied>>

(* The answer of a statement that was executed may be lost.                *)
ExecStatement ==
    /\ phase = "executing" /\ unsent # <<>>
    /\ applied' = Append(applied, Head(unsent))
    /\ unsent' = Tail(unsent)
    /\ phase' \in {"executing", "failed"}
    /\ UNCHANGED <<options, todo, file, script, scan, written>>

FileFinished ==
    /\ phase = "executing" /\ unsent = <<>>
    /\ phase' = "reading"
    /\ file' = NoFile /\ script' = NoScript
    /\ UNCHANGED <<options, todo, scan, unsent, written, applied>>

(* A file that cannot be read, a database that cannot be opened or pinged, *)
(* a statement that fails: the call returns with the rest undone.          *)
Fail ==
    /\ \/ phase = "reading" /\ todo # {}
       \/ phase = "executing" /\ unsent # <<>>
    /\ phase' = "failed"
    /\ UNCHANGED <<options, todo, fileVars, written, applied>>

Return ==
    /\ phase = "reading" /\ todo = {}
    /\ phase' = "done"
    /\ UNCHANGED <<options, todo, fileVars, written, applied>>

Next == PassOver \/ Prepare \/ ExecDir \/ CollectSQLFiles \/ ExecFile \/ splitSQL
            \/ ExecStatement \/ FileFinished \/ Fail \/ Return

Spec == Init /\ [][Next]_vars

=============================================================================
