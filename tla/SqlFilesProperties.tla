------------------------- MODULE SqlFilesProperties -------------------------
(***************************************************************************)
(* What one turn of a migration or seed loop promises about the files of   *)
(* an instance and the statements in them.                                 *)
(***************************************************************************)
EXTENDS SqlFiles

-----------------------------------------------------------------------------
(* The statements of a script, told without a scanner: a semicolon ends a  *)
(* statement only where it is a lexeme of its own, and so does the end of  *)
(* the script.                                                             *)

Ends(s) == {i \in DOMAIN s.text : s.text[i] = "semicolon" /\ \E l \in s.lexemes : l.from = i /\ l.to = i}
EndedBy(s, e) == {i \in 1..(e - 1) : \A j \in Ends(s) : ~(i <= j /\ j < e)}

(* Without the white space around it.                                      *)
Solid(s, i) == s.text[i] \notin White
Bare(s, piece) == {i \in piece : /\ \E a \in piece : a <= i /\ Solid(s, a)
                                 /\ \E b \in piece : i <= b /\ Solid(s, b)}

Statements(s) == {Bare(s, EndedBy(s, e)) : e \in Ends(s) \cup {Len(s.text) + 1}} \ {{}}

WantedOf(w) ==
    {[of |-> w.file, text |-> t] :
        t \in IF engine = "postgres" THEN {DOMAIN w.script.text} ELSE Statements(w.script)}
Wanted == UNION {WantedOf(written[i]) : i \in DOMAIN written}

FileBefore(f, g) == f.name < g.name \/ (f.name = g.name /\ f.path < g.path)
Before(s, t) == \/ FileBefore(s.of, t.of)
                \/ s.of = t.of /\ \E i \in s.text : \A j \in t.text : i < j

-----------------------------------------------------------------------------

(* The types of all variables. What waits to be sent to ClickHouse is      *)
(* never blank and never begins or ends in white space, as the comment of  *)
(* splitSQL says of the slice it returns.                                  *)
TypeOK ==
    /\ engine \in {"postgres", "clickhouse"}
    /\ strict \in BOOLEAN /\ prepare \in BOOLEAN
    /\ tree \in Seq(Path) /\ Len(tree) <= MaxPaths
    /\ phase \in {"started", "collecting", "reading", "splitting", "executing", "failed", "done"}
    /\ todo \subseteq Scripted(tree)
    /\ file \in Files \cup {NoFile}
    /\ script.text \in Seq(Characters)
    /\ scan.at \in 1..(Len(script.text) + 1) /\ scan.buf \subseteq DOMAIN script.text
    /\ scan.region \in {"code", "line", "block"} \cup Quotes
    /\ \A i \in DOMAIN unsent :
          /\ unsent[i].of = file /\ unsent[i].text \subseteq DOMAIN script.text
          /\ engine = "clickhouse" =>
                /\ unsent[i].text # {}
                /\ unsent[i].text = Bare(script, unsent[i].text)
    /\ \A i \in DOMAIN written : /\ written[i].file \in Scripted(tree)
                                 /\ written[i].script.text \in Seq(Characters)
    /\ \A i \in DOMAIN applied : \E j \in DOMAIN written : applied[i].of = written[j].file

(* Whatever fails, the database has executed the statements of the files   *)
(* up to some point, each once, whole and in the order of the script:      *)
(* semicolons and quotes within strings, identifiers and comments neither  *)
(* cut a statement nor join two (clickhouse.go:11-15, 38-41).              *)
AppliedAsWritten ==
    \A n \in DOMAIN applied :
        /\ applied[n] \in Wanted
        /\ \A w \in Wanted : Before(w, applied[n]) <=> \E m \in 1..(n - 1) : applied[m] = w

(* Files run by base name across all paths, and in the order of the paths  *)
(* where base names are equal; none is run twice, and none is left behind  *)
(* that should have come before one that ran (sqlfiles.go:14-27).          *)
FilesInOrder ==
    \A i \in DOMAIN written :
        LET ran == written[i].file IN
        \A f \in Scripted(tree) :
            FileBefore(f, ran) <=> \E j \in 1..(i - 1) : written[j].file = f

(* A call that reports success has taken up every script in the configured *)
(* paths, and a strict one found all its paths (sqlfiles.go:19-22).        *)
Taken == {written[i].file : i \in DOMAIN written}
NoFileLeft ==
    phase = "done" =>
        /\ Taken = Scripted(tree)
        /\ \A i \in DOMAIN tree : /\ tree[i].is # "unreadable"
                                  /\ strict => tree[i].is # "missing"

(* It has also executed every statement of them.                           *)
DoneMeansAll ==
    NoFileLeft /\ (phase = "done" => \A w \in Wanted : \E n \in DOMAIN applied : applied[n] = w)

-----------------------------------------------------------------------------
(* The invariant behind the files: those taken up and those to do are all  *)
(* there are, and each taken one precedes those taken later or to do.      *)
AllScripts == Scripts \cup FewScripts
Readings == [file : Files, script : AllScripts]
Sentences == [of : Files, text : SUBSET Nat]

Typed ==
    /\ engine \in {"postgres", "clickhouse"} /\ strict \in BOOLEAN /\ prepare \in BOOLEAN
    /\ tree \in Trees
    /\ phase \in {"started", "collecting", "reading", "splitting", "executing", "failed", "done"}
    /\ todo \subseteq Scripted(tree)
    /\ file \in Files \cup {NoFile}
    /\ Lexed(script)
    /\ unsent \in Seq(Sentences)
    /\ written \in Seq(Readings)
    /\ applied \in Seq(Sentences)

Split ==
    /\ phase \in {"started", "collecting"} => todo = {} /\ written = <<>>
    /\ phase \in {"reading", "splitting", "executing", "done"} \/ written # <<>> =>
          /\ Taken \cup todo = Scripted(tree)
          /\ \A i \in DOMAIN tree : ~Refused(tree[i])
    /\ phase = "done" => todo = {}

Sorted ==
    /\ \A i \in DOMAIN written, f \in todo : Precedes(written[i].file, f)
    /\ \A j \in DOMAIN written : \A i \in 1..(j - 1) :
          Precedes(written[i].file, written[j].file)

(* Behind the scanner: it stands at the beginning of a lexeme, and in code, *)
(* or within one, and in its region. So the buffer holds what follows the  *)
(* last semicolon that ends a statement.                                   *)
Stands(s, at, region, l) ==
    /\ Covers(l, at)
    /\ \/ at = l.from /\ region = "code"
       \/ at > l.from /\ Quoted(s.text, l) /\ region = s.text[l.from]
       \/ at >= l.from + 2 /\ LineComment(s.text, l) /\ region = "line"
       \/ /\ at >= l.from + 2 /\ BlockComment(s.text, l) /\ region = "block"
          /\ l.to = Len(s.text) \/ at < l.to

Scanned ==
    /\ scan.at \in 1..(Len(script.text) + 1)
    /\ scan.region \in {"code", "line", "block"} \cup Quotes
    /\ scan.buf = EndedBy(script, scan.at)
    /\ scan.at <= Len(script.text) => \E l \in script.lexemes : Stands(script, scan.at, scan.region, l)
    /\ phase # "splitting" => scan = NewScan

(* What was cut off so far is what the semicolons so far have ended.       *)
EndingAt(e) == [of |-> file, text |-> Bare(script, EndedBy(script, e))]
Cut ==
    phase = "splitting" =>
        /\ engine = "clickhouse"
        /\ \A n \in DOMAIN unsent : \E e \in Ends(script) :
              e < scan.at /\ unsent[n] = EndingAt(e) /\ unsent[n].text # {}
        /\ \A e \in Ends(script) : e < scan.at /\ EndingAt(e).text # {} =>
              \E n \in DOMAIN unsent : unsent[n] = EndingAt(e)

(* And behind the execution: every statement of the files taken up is      *)
(* applied, or waits behind those that are, or is yet to be cut off.       *)
InHand ==
    /\ phase \in {"splitting", "executing"} \/ unsent # <<>> =>
          /\ Len(written) > 0 /\ file \in Files
          /\ written[Len(written)].file = file /\ written[Len(written)].script = script
    /\ phase \notin {"splitting", "executing", "failed"} => unsent = <<>>

Increasing(s) == \A n \in DOMAIN s : \A m \in 1..(n - 1) : Before(s[m], s[n])
Queued ==
    /\ Increasing(unsent) /\ Increasing(applied)
    /\ \A n \in DOMAIN unsent : unsent[n].of = file /\ unsent[n] \in Wanted
    /\ \A n \in DOMAIN applied : applied[n] \in Wanted
    /\ \A m \in DOMAIN applied : \A n \in DOMAIN unsent : Before(applied[m], unsent[n])
    /\ phase = "splitting" => \A m \in DOMAIN applied : FileBefore(applied[m].of, file)
    /\ \A w \in Wanted :
          \/ phase = "splitting" /\ w.of = file
          \/ \E n \in DOMAIN applied : applied[n] = w
          \/ \E n \in DOMAIN unsent : unsent[n] = w

IInv == Typed /\ Split /\ Sorted /\ Scanned /\ Cut /\ InHand /\ Queued

=============================================================================
