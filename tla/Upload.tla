------------------------------- MODULE Upload -------------------------------
(***************************************************************************)
(* Server-side uploads of util/xoss/upload.go: Upload (from a file path)   *)
(* and UploadBinaryData (from memory). One call: the options are applied,  *)
(* the object key is derived from the file type and suffix, and the data   *)
(* goes to OSS by PutObject or, for a file with a part size, by a          *)
(* resumable multipart UploadFile. Any of the SDK calls may fail.          *)
(* A suffix is a record: whether it starts with "." and the extension      *)
(* name after it; a file path is abstracted to its path.Ext.               *)
(* ksuid names and carbon dates are single model values: no property       *)
(* tells two of them apart.                                                *)
(***************************************************************************)
EXTENDS Naturals

CONSTANTS
    ExtNames,       \* extension names, "" among them
    FileTypes,      \* FileType values a caller may pass (0 when not given)
    Buckets,        \* bucket names a caller may pass ("" when not given)
    ConfBucket,     \* a.conf.Bucket
    PartSizes       \* WithPartSize values (0 when not given)

FileTypeNil == 1
FileTypeImage == 2
FileTypeAudio == 3
FileTypeVideo == 4

Suffix == [dot : BOOLEAN, ext : ExtNames]
NoSuffix == [dot |-> FALSE, ext |-> ""]

(* A call's options, as uploadOption reads them.                           *)
Opts == [file : [Suffix : Suffix, FileType : FileTypes],
         bucketName : Buckets, partSize : PartSizes]

(* The argument of Upload: "" or a path, abstracted to its path.Ext.       *)
FilePaths == {[given |-> FALSE, ext |-> NoSuffix]} \cup
             [given : {TRUE}, ext : {[dot |-> e # "", ext |-> e] : e \in ExtNames}]

VARIABLE uresult    \* what the call returned

NoKey == [dir |-> "", suffix |-> NoSuffix]
Result(status, bucket, key, asked, via) ==
    [status |-> status, bucket |-> bucket, key |-> key, asked |-> asked, via |-> via]
NoResult == Result("none", "", NoKey, 0, "")
Failed == Result("error", "", NoKey, 0, "")

Init == uresult = NoResult

-----------------------------------------------------------------------------
(* uploadOption: the options, then the default bucket, FileType Image for  *)
(* 0, and the default suffix of the type (none for other types).           *)
UploadOption(o) ==
    LET ft  == IF o.file.FileType = 0 THEN FileTypeImage ELSE o.file.FileType
        def == CASE ft = FileTypeImage -> "png"
                 [] ft = FileTypeAudio -> "mp3"
                 [] ft = FileTypeVideo -> "mp4"
                 [] OTHER              -> ""
    IN [o EXCEPT !.bucketName = IF @ = "" THEN ConfBucket ELSE @,
                 !.file = [FileType |-> ft,
                           Suffix |-> IF @.Suffix = NoSuffix
                                      THEN [dot |-> FALSE, ext |-> def] ELSE @.Suffix]]

(* uploadFilePathPrefix: the directory of a file type under appName.       *)
UploadFilePathPrefix(ft) ==
    CASE ft = FileTypeImage -> "images"
      [] ft = FileTypeAudio -> "audio"
      [] ft = FileTypeVideo -> "videos"
      [] OTHER              -> "files"

(* The suffix getFileName gives the key: the path's extension if none was  *)
(* set, a leading "." added when missing, ".png" if still empty.           *)
KeySuffix(path, s) ==
    LET s1 == IF path.given /\ s = NoSuffix THEN path.ext ELSE s
        s2 == IF s1 # NoSuffix /\ ~s1.dot THEN [s1 EXCEPT !.dot = TRUE] ELSE s1
    IN IF s2 = NoSuffix THEN [dot |-> TRUE, ext |-> "png"] ELSE s2

(* getFileName: appName/<type dir>/<Ymd>/<ksuid><suffix>.                  *)
GetFileName(path, file) ==
    [dir |-> UploadFilePathPrefix(file.FileType), suffix |-> KeySuffix(path, file.Suffix)]

(* uploadToOss after oss.New and Bucket: multipart for a file path with a  *)
(* positive part size, PutObject otherwise; the result names the bucket   *)
(* and the key (FileName is the key's base name).                          *)
UploadToOss(path, opt, asked) ==
    \E sdkOk \in BOOLEAN :
        uresult' = IF ~sdkOk THEN Failed
                   ELSE Result("ok", opt.bucketName, GetFileName(path, opt.file), asked,
                               IF opt.partSize > 0 /\ path.given
                               THEN "multipart" ELSE "put")

(* Upload: an empty path or a failed os.Open returns an error first.       *)
Upload ==
    /\ uresult = NoResult
    /\ \E path \in FilePaths, o \in Opts, opened \in BOOLEAN :
         IF ~path.given \/ ~opened THEN uresult' = Failed
         ELSE UploadToOss(path, UploadOption(o), o.file.FileType)

(* UploadBinaryData: no path, so never multipart.                          *)
UploadBinaryData ==
    /\ uresult = NoResult
    /\ \E o \in Opts : UploadToOss([given |-> FALSE, ext |-> NoSuffix], UploadOption(o),
                                o.file.FileType)

Next == Upload \/ UploadBinaryData
=============================================================================
