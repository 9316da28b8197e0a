---------------------------- MODULE ServiceSetup ----------------------------
(***************************************************************************)
(* src/itestkit: what is done to one instance that takes no SQL files. A   *)
(* WireMock gets its stubs before it starts, a LocalStack runs its init    *)
(* scripts and a MockServer takes its expectations afterwards, a Kafka is  *)
(* told its topics, and helpers of a test drop or truncate tables. Any     *)
(* access may fail, and the first failure ends the call.                   *)
(***************************************************************************)
EXTENDS Naturals, Sequences

CONSTANTS
    MaxBaseName,  (* base names of files are 1..MaxBaseName, in their order *)
    MaxGiven      (* paths, expectations, topics or tables: bounds the model *)

ASSUME MaxBaseNameAssumption == MaxBaseName \in Nat
ASSUME MaxGivenAssumption == MaxGiven \in Nat

VARIABLES
    service,    (* what is set up                                           *)
    given,      (* what it is given, in the caller's order                  *)
    strictPath, (* StrictPath                                               *)
    stand,      (* where the call stands                                    *)
    looked,     (* the paths that were looked at                            *)
    entry,      (* entries read of the directory that is looked at          *)
    work,       (* what is to be done, in this order                        *)
    container,  (* the container                                            *)
    inbox,      (* the file at each place of the container                  *)
    copied,     (* the next script is copied, and not run                   *)
    effects     (* what was done: read by the properties, and as a counter  *)

givenVars == <<service, given, strictPath>>
boxVars == <<container, inbox, copied>>
pathVars == <<looked, entry>>
setupVars == <<givenVars, stand, pathVars, work, boxVars, effects>>

BaseNames == 1..MaxBaseName
NoItem == [at |-> 0, name |-> 0]

(* A path is given with the directory of the container it is meant for. A  *)
(* file inside a folder is written as the folder.                          *)
Paths(targets) ==
    [is : {"missing", "denied"}, for : targets]
        \cup [is : {"file"}, for : targets, base : BaseNames]
        \cup [is : {"dir"}, for : targets,
              holds : [BaseNames -> {"nothing", "script", "hidden", "folder", "other"}]]
Expectations == [method : {"", "POST"}, status : {0, 503}, times : {0, 2}]
Topics == [topic : BaseNames, partitions : {0, 3}, exists : BOOLEAN]
Tables == [table : BaseNames]

Givens(s) ==
    CASE s = "wiremock" -> Paths({"mappings", "files"})
      [] s = "localstack" -> Paths({"scripts"})
      [] s = "mockserver" -> Expectations
      [] s = "kafka" -> Topics
      [] OTHER -> Tables

Services == {"wiremock", "localstack", "mockserver", "kafka", "drop", "truncate"}
FromPaths == {"wiremock", "localstack"}
FirstStand(s) ==
    CASE s = "wiremock" -> "expanding"
      [] s \in {"localstack", "mockserver"} -> "starting"
      [] OTHER -> "applying"

Items == [at : 1..MaxGiven, name : BaseNames]

(* A place in the container: in the directory a path is for, or in a folder *)
(* there. No folder is named like a file.                                  *)
Places == [for : {"mappings", "files", "scripts"}, under : {"target", "folder"}, name : BaseNames]
Boxes == [Places -> Items \cup {NoItem}]

SetupTypeOK ==
    /\ service \in Services
    /\ strictPath \in BOOLEAN
    /\ stand \in {"idle", "expanding", "starting", "applying", "done", "failed"}
    /\ given \in Seq(Givens(service))
    /\ looked \in 0..Len(given) /\ entry \in 0..MaxBaseName
    /\ container \in {"none", "dropped", "running"}
    /\ inbox \in Boxes
    /\ copied \in BOOLEAN
    /\ service \in FromPaths => work \in Seq(Items) /\ effects \in Seq(Items)
    /\ Len(effects) <= Len(work)

SetupInit ==
    /\ service = "kafka"
    /\ given = <<>>
    /\ strictPath = FALSE
    /\ stand = "idle"
    /\ looked = 0 /\ entry = 0
    /\ work = <<>>
    /\ container = "none"
    /\ inbox = [p \in Places |-> NoItem]
    /\ copied = FALSE
    /\ effects = <<>>

(* MockServer expectations and Kafka topics, completed by their defaults.  *)
Body(e) ==
    [method |-> IF e.method = "" THEN "GET" ELSE e.method,
     status |-> IF e.status = 0 THEN 200 ELSE e.status,
     unlimited |-> e.times = 0, remaining |-> e.times]
TopicSpec(t) == [t EXCEPT !.partitions = IF @ = 0 THEN 1 ELSE @]

Complete(s, item) ==
    CASE s = "mockserver" -> Body(item)
      [] s = "kafka" -> TopicSpec(item)
      [] OTHER -> item

(* Of paths, the files are still to be found.                              *)
FirstWork(s, g) == IF s \in FromPaths THEN <<>> ELSE [i \in DOMAIN g |-> Complete(s, g[i])]

(* Two entries may name one topic, which exists or does not; MappingPaths  *)
(* come before FilePaths.                                                  *)
Acceptable(s, g) ==
    \A i, j \in DOMAIN g : i < j =>
        /\ s = "kafka" /\ g[i].topic = g[j].topic => g[i].exists = g[j].exists
        /\ s = "wiremock" => ~(g[i].for = "files" /\ g[j].for = "mappings")

Configure ==
    /\ stand = "idle"
    /\ \E s \in Services, n \in 0..MaxGiven : \E g \in [1..n -> Givens(s)] :
          /\ Acceptable(s, g)
          /\ service' = s
          /\ given' = g
          /\ stand' = FirstStand(s)
          /\ work' = FirstWork(s, g)
    /\ strictPath' \in BOOLEAN
    /\ UNCHANGED <<pathVars, boxVars, effects>>

-----------------------------------------------------------------------------
(* The files under the paths                                               *)

TakenHidden == IF service = "localstack" THEN {"script", "hidden"} ELSE {"script", "folder", "other", "hidden"}
Taken == IF service = "localstack" THEN {"script"} ELSE {"script", "folder", "other"}

FileAt(i, n) == [at |-> i, name |-> n]

(* Where a file goes: under its base name, or, from a folder of a          *)
(* directory, under its path in that directory.                            *)
PlaceOf(item) ==
    LET path == given[item.at]
        deep == path.is = "dir" /\ path.holds[item.name] = "folder"
    IN  [for |-> path.for, under |-> IF deep THEN "folder" ELSE "target", name |-> item.name]

(* A directory may also fail to be read; WalkDir meets it while it walks.  *)
Refused(path) == path.is = "denied" \/ (path.is = "missing" /\ strictPath)
MayFail(path) == Refused(path) \/ (path.is = "dir" /\ (entry = 0 \/ service = "wiremock"))

(* Both ReadDir and WalkDir list names in their order.                     *)
ReadEntry(path) ==
    /\ path.is = "dir" /\ entry < MaxBaseName
    /\ entry' = entry + 1
    /\ work' = IF path.holds[entry'] \in Taken THEN Append(work, FileAt(looked + 1, entry')) ELSE work
    /\ UNCHANGED <<stand, looked>>

NextPath(path) ==
    /\ ~Refused(path)
    /\ path.is = "dir" => entry = MaxBaseName
    /\ looked' = looked + 1 /\ entry' = 0
    /\ work' = IF path.is = "file" THEN Append(work, FileAt(looked', path.base)) ELSE work
    /\ UNCHANGED stand

ExpandPath ==
    /\ stand = "expanding" /\ looked < Len(given)
    /\ LET path == given[looked + 1] IN
       \/ MayFail(path) /\ stand' = "failed" /\ UNCHANGED <<pathVars, work>>
       \/ ReadEntry(path)
       \/ NextPath(path)
    /\ UNCHANGED <<givenVars, boxVars, effects>>

Expanded ==
    /\ stand = "expanding" /\ looked = Len(given)
    /\ stand' = IF service = "wiremock" THEN "starting" ELSE "applying"
    /\ UNCHANGED <<givenVars, pathVars, work, boxVars, effects>>

-----------------------------------------------------------------------------
(* The containers                                                          *)

Fails(leaving) ==
    /\ stand' = "failed"
    /\ container' = leaving
    /\ UNCHANGED <<givenVars, pathVars, work, inbox, copied>>

(* Run may fail with its container already created; but a failed lookup of *)
(* the endpoint terminates it.                                             *)
StartFails(s) ==
    /\ stand = "starting" /\ service = s
    /\ Fails("none") \/ Fails("dropped")
    /\ UNCHANGED effects

Starts(s, next) ==
    /\ stand = "starting" /\ service = s
    /\ container' = "running"
    /\ stand' = next
    /\ UNCHANGED <<givenVars, pathVars, work, inbox, copied>>

startOneMockServer == \/ Starts("mockserver", "applying") /\ UNCHANGED effects
                      \/ StartFails("mockserver")
startOneLocalStack == \/ Starts("localstack", "expanding") /\ UNCHANGED effects
                      \/ StartFails("localstack")

(* The work is done one piece after the other.                             *)
NextPiece == work[Len(effects) + 1]
Goes(did) == effects' = effects \o did

(* What lay at the place of a file is overwritten.                         *)
Put(item) == inbox' = [inbox EXCEPT ![PlaceOf(item)] = item]

(* GenericContainer copies req.Files, one after the other, before it       *)
(* starts the process.                                                     *)
CopyFile ==
    /\ stand = "starting" /\ service = "wiremock"
    /\ Len(effects) < Len(work)
    /\ Put(NextPiece)
    /\ Goes(<<NextPiece>>)
    /\ UNCHANGED <<givenVars, stand, pathVars, work, container, copied>>

startOneWireMock ==
    \/ CopyFile
    \/ Starts("wiremock", "done") /\ Len(effects) = Len(work) /\ UNCHANGED effects
    \/ StartFails("wiremock")

-----------------------------------------------------------------------------
(* The work after the start                                                *)

CopyScript ==
    /\ stand = "applying" /\ service = "localstack"
    /\ Len(effects) < Len(work) /\ ~copied
    /\ \/ /\ Put(NextPiece)
          /\ copied' = TRUE
          /\ UNCHANGED <<givenVars, stand, pathVars, work, container>>
       \/ Fails(container)
    /\ UNCHANGED effects

(* What is run is whatever lies at the place of the script.                *)
ExecScript ==
    /\ stand = "applying" /\ service = "localstack" /\ copied
    /\ \/ /\ Goes(<<inbox[PlaceOf(NextPiece)]>>)
          /\ copied' = FALSE
          /\ UNCHANGED <<givenVars, stand, pathVars, work, container, inbox>>
       \/ UNCHANGED effects /\ Fails(container)
       \/ Goes(<<inbox[PlaceOf(NextPiece)]>>) /\ Fails(container)    (* it exits with an error *)

(* A request or statement whose answer is lost may have had its effect.    *)
Apply(did, services) ==
    /\ stand = "applying" /\ service \in services
    /\ Len(effects) < Len(work)
    /\ \/ Goes(did) /\ UNCHANGED <<givenVars, stand, pathVars, work, boxVars>>
       \/ UNCHANGED effects /\ Fails(container)
       \/ Goes(did) /\ Fails(container)

postMockServerExpectation == Apply(<<NextPiece>>, {"mockserver"})
DropClickHouseTables == Apply(<<NextPiece>>, {"drop"})
TruncatePostgres == Apply(work, {"truncate"})

(* One request: the broker makes what it can, of two entries for one topic *)
(* at most one, and kafka-go passes over the topics that exist.            *)
CreateKafkaTopics ==
    /\ stand = "applying" /\ service = "kafka" /\ effects = <<>>
    /\ \E n \in 0..Len(work) : \E born \in [1..n -> DOMAIN work] :
          /\ \A k \in 1..n : ~work[born[k]].exists
          /\ \A k, l \in 1..n : k < l => born[k] < born[l] /\ work[born[k]].topic # work[born[l]].topic
          /\ effects' = [k \in 1..n |-> work[born[k]]]
          /\ \/ /\ \A i \in DOMAIN work : work[i].exists \/ \E k \in 1..n : work[born[k]].topic = work[i].topic
                /\ stand' = "done"
                /\ UNCHANGED <<givenVars, pathVars, work, boxVars>>
             \/ Fails(container)

Finished ==
    /\ stand = "applying" /\ service # "kafka"
    /\ Len(effects) = Len(work) /\ ~copied
    /\ stand' = "done"
    /\ UNCHANGED <<givenVars, pathVars, work, boxVars, effects>>

StartingOne == startOneMockServer \/ startOneLocalStack \/ startOneWireMock
Working ==
    \/ CopyScript \/ ExecScript \/ postMockServerExpectation
    \/ DropClickHouseTables \/ TruncatePostgres \/ CreateKafkaTopics

SetupNext ==
    \/ Configure
    \/ ExpandPath \/ Expanded
    \/ StartingOne
    \/ Working \/ Finished

SetupSpec == SetupInit /\ [][SetupNext]_setupVars

-----------------------------------------------------------------------------
(* Properties, told from what was given.                                   *)

Visible(path, n) ==
    \/ path.is = "file" /\ path.base = n
    \/ path.is = "dir" /\ path.holds[n] = "script"
    \/ path.is = "dir" /\ path.holds[n] \in {"folder", "other"} /\ service = "wiremock"
Among(item, did) == \E i \in DOMAIN did : did[i] = item
Wanted == {item \in Items : item.at \in DOMAIN given /\ Visible(given[item.at], item.name)}
Earlier(x, y) == x.at < y.at \/ (x.at = y.at /\ x.name < y.name)

(* Files take effect in the caller's order, a directory's by name, each    *)
(* once, though two may share a base name, and none is passed over         *)
(* (localstack.go:104-108, httpmock.go:187-190).                           *)
FilesTakeTurns ==
    /\ \A i \in DOMAIN effects : effects[i] \in Wanted
    /\ \A i, j \in DOMAIN effects : i < j => Earlier(effects[i], effects[j])
    /\ \A item \in Wanted, i \in DOMAIN effects :
          Earlier(item, effects[i]) => Among(item, effects)

(* A WireMock holds every file copied so far, save one that a later file   *)
(* for the same place has overwritten: stubs in two directories that share *)
(* a name are not both there (httpmock.go:206-229).                        *)
FilesInPlace ==
    /\ \A p \in Places : inbox[p] # NoItem => Among(inbox[p], effects) /\ PlaceOf(inbox[p]) = p
    /\ \A i \in DOMAIN effects :
          LET there == inbox[PlaceOf(effects[i])] IN there = effects[i] \/ Earlier(effects[i], there)

(* What was done is an initial part of what was given, whatever failed, of *)
(* topics a part; and a call that ends well has done all and has skipped   *)
(* no path if it is strict. A WireMock answers only once all its files     *)
(* were copied.                                                            *)
SetupIsAsGiven ==
    /\ service \in FromPaths => FilesTakeTurns
    /\ service = "wiremock" => FilesInPlace
    /\ service \in {"mockserver", "drop", "truncate"} =>
          \A i \in DOMAIN effects : effects[i] = Complete(service, given[i])
    /\ stand = "done" =>
          CASE service \in FromPaths ->
                    /\ \A item \in Wanted : Among(item, effects)
                    /\ strictPath => \A i \in DOMAIN given : given[i].is # "missing"
            [] service = "kafka" ->
                    \A i \in DOMAIN given : given[i].exists \/ \E j \in DOMAIN effects :
                        effects[j].topic = given[i].topic /\ effects[j].partitions >= 1
            [] OTHER -> Len(effects) = Len(given)
    /\ service = "wiremock" /\ container = "running" => stand = "done"

=============================================================================
