------------------------------- MODULE Upload -------------------------------
(***************************************************************************)
(* src/aws/aws.go: Upload stores what a data URI holds under a fresh name  *)
(* in a bucket and returns the URL of the object. Calls overlap, any step  *)
(* may fail, a lost answer of the store says nothing of the object, and    *)
(* the client of a call that failed may call again.                        *)
(***************************************************************************)
EXTENDS Naturals, FiniteSets

CONSTANTS
    Payloads,       (* what follows the comma, and decodes                  *)
    MaxUploads      (* calls of Upload: bounds the model                    *)

ASSUME MaxUploadsAssumption == MaxUploads \in Nat

VARIABLES
    upload,     (* the calls                                                *)
    bucket,     (* the objects, by the number of their UUID                 *)
    uuids       (* UUIDs given out                                          *)

uploadVars == <<upload, bucket, uuids>>

(* A source is known by what follows the slash of its first part, and by   *)
(* what follows its comma.                                                 *)
Garbled == "garbled"
Subtypes == {"no slash", "jpeg", "jpg", "png", "gif", "bmp", "webp", "tiff", "plain", "pdf", "zip", "mp4", "other"}
Sources == [subtype : Subtypes, comma : BOOLEAN, payload : Payloads \cup {Garbled}]
NoSource == [subtype |-> "other", comma |-> FALSE, payload |-> Garbled]

FileExtensions == {"jpeg", "png", "gif", "bmp", "webp", "tiff", "pdf", "txt", "zip", "mp4"}
MimeTypes ==
    [jpeg |-> "image/jpeg", png |-> "image/png", gif |-> "image/gif", bmp |-> "image/bmp",
     webp |-> "image/webp", tiff |-> "image/tiff", pdf |-> "application/pdf", txt |-> "text/plain",
     zip |-> "application/zip", mp4 |-> "video/mp4"]
ContentTypes == {MimeTypes[e] : e \in DOMAIN MimeTypes}
Unknown == "unknown"
ItsHeader == "its header"

NoObject == [type |-> Unknown, data |-> Garbled]
Objects == [type : ContentTypes, data : Payloads \cup {ItsHeader}]
ObjectKeys == 1..MaxUploads

NoUpload ==
    [at |-> "idle", src |-> NoSource, extension |-> Unknown, name |-> 0, object |-> NoObject]

UploadTypeOK ==
    /\ \A n \in ObjectKeys :
          /\ upload[n].at \in {"idle", "extended", "named", "typed", "decoded", "signed in",
                               "stored", "returned", "failed", "panicked"}
          /\ upload[n].src \in Sources
          /\ upload[n].extension \in FileExtensions \cup {Unknown}
          /\ upload[n].name \in 0..MaxUploads
    /\ bucket \in [ObjectKeys -> Objects \cup {NoObject}]
    /\ uuids \in 0..MaxUploads

UploadInit ==
    /\ upload = [n \in ObjectKeys |-> NoUpload]
    /\ bucket = [k \in ObjectKeys |-> NoObject]
    /\ uuids = 0

-----------------------------------------------------------------------------

getExtension(subtype) ==
    CASE subtype \in {"jpeg", "jpg"} -> "jpeg"
      [] subtype = "plain" -> "txt"
      [] subtype \in {"no slash", "other"} -> Unknown
      [] OTHER -> subtype

setDefaultContentType(extension) ==
    IF extension \in DOMAIN MimeTypes THEN MimeTypes[extension] ELSE Unknown

(* Each call gets a UUID of its own.                                       *)
UuidOfLast == IF uuids = 0 THEN 1 ELSE uuids
NewUuid == uuids + 1

-----------------------------------------------------------------------------
(* Upload                                                                  *)

Reaches(n, at) == upload' = [upload EXCEPT ![n].at = at]
IsAt(n, at) == upload[n].at = at
FailsAt(n, at) == IsAt(n, at) /\ Reaches(n, "failed") /\ UNCHANGED <<bucket, uuids>>

CallUpload(n, src) ==
    /\ IsAt(n, "idle") /\ \A m \in 1..(n - 1) : ~IsAt(m, "idle")
    /\ upload' = [upload EXCEPT ![n].src = src, ![n].extension = getExtension(src.subtype),
                     ![n].at = IF getExtension(src.subtype) = Unknown THEN "failed" ELSE "extended"]
    /\ UNCHANGED <<bucket, uuids>>

setDefaultFileName(n) ==
    /\ IsAt(n, "extended")
    /\ upload' = [upload EXCEPT ![n].name = NewUuid, ![n].at = "named"]
    /\ uuids' = NewUuid
    /\ UNCHANGED bucket

TypeSet(n) ==
    LET type == setDefaultContentType(upload[n].extension) IN
    /\ IsAt(n, "named")
    /\ upload' = [upload EXCEPT ![n].object.type = type,
                     ![n].at = IF type = Unknown THEN "panicked" ELSE "typed"]
    /\ UNCHANGED <<bucket, uuids>>

(* Without a comma the whole source is decoded, which base64 allows if it  *)
(* is little else than its MIME type.                                      *)
Decode(n) ==
    LET src == upload[n].src IN
    \/ /\ IsAt(n, "typed")
       /\ ~src.comma \/ src.payload # Garbled
       /\ upload' = [upload EXCEPT ![n].object.data = IF src.comma THEN src.payload ELSE ItsHeader,
                        ![n].at = "decoded"]
       /\ UNCHANGED <<bucket, uuids>>
    \/ /\ ~src.comma \/ src.payload = Garbled
       /\ FailsAt(n, "typed")

(* Keys that are empty are refused.                                        *)
GetCredentials(n) ==
    \/ IsAt(n, "decoded") /\ Reaches(n, "signed in") /\ UNCHANGED <<bucket, uuids>>
    \/ FailsAt(n, "decoded")

(* The store takes the object, or does not; and its answer may be lost.    *)
PutObject(n) ==
    \/ /\ IsAt(n, "signed in")
       /\ bucket' = [bucket EXCEPT ![upload[n].name] = upload[n].object]
       /\ Reaches(n, "stored") \/ Reaches(n, "failed")
       /\ UNCHANGED uuids
    \/ FailsAt(n, "signed in")

(* The URL is that of the key, without the signature.                      *)
Presign(n) ==
    \/ IsAt(n, "stored") /\ Reaches(n, "returned") /\ UNCHANGED <<bucket, uuids>>
    \/ FailsAt(n, "stored")

UploadNext ==
    \E n \in ObjectKeys :
        \/ IsAt(n, "idle") /\ \E src \in Sources : CallUpload(n, src)
        \/ setDefaultFileName(n) \/ TypeSet(n) \/ Decode(n)
        \/ GetCredentials(n) \/ PutObject(n) \/ Presign(n)

UploadSpec == UploadInit /\ [][UploadNext]_uploadVars

-----------------------------------------------------------------------------
(* Properties                                                              *)

TypeSent(subtype) ==
    CASE subtype \in {"pdf", "zip"} -> {"application/pdf", "application/zip"}
      [] subtype = "mp4" -> {"video/mp4"}
      [] subtype = "plain" -> {"text/plain"}
      [] OTHER -> ContentTypes \ {"application/pdf", "application/zip", "video/mp4", "text/plain"}

(* A returned URL names an object with the data and a type of the kind     *)
(* sent, which no other call overwrites, as the name is fresh; two sources *)
(* of different types never get the same one, but for jpeg and jpg; and    *)
(* an object that no URL was returned for is that of a call in progress or *)
(* of one that failed once it had sent it (aws.go:157-180). The panic of   *)
(* line 153 is never reached, as 127-129 say.                              *)
UrlsNameTheirObjects ==
    /\ \A n \in ObjectKeys : LET u == upload[n] IN
          /\ u.at # "panicked"
          /\ u.at = "returned" =>
                /\ bucket[u.name].type \in TypeSent(u.src.subtype)
                /\ bucket[u.name].data = IF u.src.comma THEN u.src.payload ELSE ItsHeader
    /\ \A n, m \in ObjectKeys :
          upload[n].at = "returned" /\ upload[m].at = "returned" /\ n # m =>
              /\ upload[n].name # upload[m].name
              /\ bucket[upload[n].name].type = bucket[upload[m].name].type =>
                    \/ upload[n].src.subtype = upload[m].src.subtype
                    \/ {upload[n].src.subtype, upload[m].src.subtype} = {"jpeg", "jpg"}
    /\ \A k \in ObjectKeys : bucket[k] # NoObject =>
          \E n \in ObjectKeys : /\ upload[n].name = k /\ bucket[k] = upload[n].object
                          /\ upload[n].at \in {"stored", "returned", "failed"}

=============================================================================
