------------------------------- MODULE Media -------------------------------
(***************************************************************************)
(* One recording-media operation (media_tools.rs: Operation) with the      *)
(* export it may own (trim.rs: ExportStage, ExportOwner) and the jobs of   *)
(* its backend (media_backend.rs).  A contact sheet reads the recording; a *)
(* trim samples it, plans cuts and, when asked, encodes into a private     *)
(* partial file beside the output, probes and decodes that file, and gives *)
(* it the output's name with a hard link, which cannot replace a file.     *)
(*                                                                         *)
(* Names and files are apart: disk.names gives the file of a name (0: no   *)
(* such file), disk.version the state of a file's content.  Other programs *)
(* rewrite, replace and remove files at any step; a metadata check and the *)
(* system call right after it are one step here, and every write is        *)
(* assumed to change the size or the modification time that the code       *)
(* compares.  A job's process ends as Process allows: joined, or with its  *)
(* cleanup unconfirmed ("loose").  A private work file goes with each      *)
(* sampling, encoding and sheet job.  What the tools print, the directory  *)
(* and executable checks' details and the cut plan itself (Cuts) are       *)
(* reduced to whether they succeed.                                        *)
(***************************************************************************)
EXTENDS Integers, FiniteSets

CONSTANTS
    MediaRequests,  \* what may be asked: [tool, apply, preview]
    MaxOutside      \* bound on what other programs do

VARIABLE media

mediaVars == <<media>>
Nothing == 0
Names == {"source", "output", "partial"}
NoJob == [kind |-> "none", child |-> "none", target |-> Nothing, work |-> "none"]

MediaInit(r) ==
    media = [request |-> r, phase |-> "directory", cancelled |-> FALSE, tools |-> TRUE, root |-> TRUE,
             names |-> [n \in Names |-> IF n = "source" THEN 1 ELSE Nothing],
             version |-> [f \in {1} |-> 1], clock |-> 1, outside |-> 0,
             pinned |-> [file |-> Nothing, version |-> 0], read |-> {}, stage |-> Nothing,
             stamp |-> 0, tested |-> {}, hash |-> 0, receipt |-> [file |-> Nothing, version |-> 0],
             job |-> NoJob, result |-> "none", unconfirmed |-> FALSE, warned |-> FALSE]

Working == media.result = "none"
At(phase) == Working /\ media.phase = phase
Go(m, phase) == [m EXCEPT !.phase = phase]

\* same_version, unchanged: the file a name leads to, and its content.
Seen(m, n) == IF m.names[n] = Nothing THEN 0 ELSE m.version[m.names[n]]
SourceUnchanged(m) == m.names["source"] = m.pinned.file /\ Seen(m, "source") = m.pinned.version
StageIntact(m) == m.names["partial"] = m.stage /\ m.stage # Nothing

Written(m, file) ==
    [m EXCEPT !.clock = @ + 1, !.version = [f \in DOMAIN @ \cup {file} |-> IF f = file THEN m.clock + 1 ELSE @[f]]]

-----------------------------------------------------------------------------
(* How an operation ends *)

Conclude(m, how) == [m EXCEPT !.result = how, !.phase = "done"]

\* The partial file is removed only if its name still leads to our file.
Cleanup(m) ==
    IF m.names["partial"] = Nothing \/ m.stage = Nothing THEN {[gone |-> TRUE, m |-> m]}
    ELSE {[gone |-> FALSE, m |-> m]} \cup
         (IF StageIntact(m) THEN {[gone |-> TRUE, m |-> [m EXCEPT !.names["partial"] = Nothing]]} ELSE {})

\* An error: what the export owns is settled and its partial file cleaned up.
\* Operation::finish remembers whether that was confirmed.
Fail(m, issue) ==
    {[Conclude(c.m, "failed") EXCEPT !.unconfirmed = issue \/ ~c.gone] : c \in Cleanup(m)}

\* The source is checked after what was just read, and before what is read next.
IfUnchanged(m, next) == IF SourceUnchanged(m) THEN {next} ELSE Fail(m, FALSE)
IfNotCancelled(m, next) == IF m.cancelled THEN Fail(m, FALSE) ELSE {next}

-----------------------------------------------------------------------------
(* Jobs *)

ReadsSource == {"probe", "sample", "encode", "sheet"}
ReadsStage == {"verify", "decode"}
HasWork == {"sample", "encode", "sheet", "preview"}

\* Config::validate, Executable::checked and spawn_process refuse changed
\* tools and a cancelled operation.  What a job reads is read from its start
\* to its end.
Spawned(m, kind) ==
    IF ~m.tools \/ m.cancelled THEN Fail(m, FALSE)
    ELSE {[m EXCEPT !.job = [kind |-> kind, child |-> "running", target |-> m.names["partial"],
                             work |-> IF kind \in HasWork THEN "inflight" ELSE "none"],
                    !.read = IF kind \in ReadsSource THEN @ \cup {Seen(m, "source")} ELSE @,
                    !.tested = IF kind \in ReadsStage THEN @ \cup {Seen(m, "partial")} ELSE @]}

\* A work file is kept when its identity changed; one of a joined process that
\* is still ours is removed.
WorkSettled(m) == {[m EXCEPT !.job.work = w] : w \in {"removed", "retained"}}
\* The job's owner learns how its process ended; its work file is touched only
\* if the process was joined.  A file that could not be removed is an issue.
JobSettled(m, how) ==
    LET loose == how = "unconfirmed"
        ended == [m EXCEPT !.job.child = IF loose THEN "loose" ELSE "reaped"]
        works == IF m.job.work # "inflight" THEN {ended}
                 ELSE IF loose THEN {[ended EXCEPT !.job.work = "retained"]} ELSE WorkSettled(ended)
        stuck(w) == w.job.work = "retained"
    IN  {[m |-> w, ok |-> how = "ok" /\ ~stuck(w), issue |-> loose \/ stuck(w)] : w \in works}
Running(kind) == Working /\ media.job.kind = kind /\ media.job.child = "running"
JobResults(kind) == UNION {JobSettled(media, how) : how \in {"ok", "failed", "unconfirmed"}}
Resting(phase) == At(phase) /\ media.job.child # "running"

\* Authority::current: the approved root is what it was, and OBS records there.
RootApproved(m) == m.root
\* Authority::recording: which file the source is, and its content, from here on.
Pinned(m) == [m EXCEPT !.pinned = [file |-> m.names["source"], version |-> Seen(m, "source")]]
\* OBS is asked where recordings go; the answer must be the approved root.
DirectoryKnown(answered) == answered /\ RootApproved(media) /\ ~media.cancelled
DirectoryAnswers(phase) ==
    /\ Resting(phase)
    /\ \E answered \in BOOLEAN :
          media' \in
            IF ~DirectoryKnown(answered) THEN Fail(media, FALSE)
            ELSE IF phase = "directory"
            THEN IF media.names["source"] = Nothing THEN Fail(media, FALSE) ELSE {Go(Pinned(media), "probe")}
            ELSE IF media.names["output"] # Nothing THEN {Conclude(media, "exists")}
            ELSE {Go(media, "encoders")}

-----------------------------------------------------------------------------
(* Before the export *)

BeginJob(phase, kind) == Resting(phase) /\ media' \in Spawned(media, kind)

ProbeSource == BeginJob("probe", "probe")
Probed ==
    /\ Running("probe")
    /\ \E j \in JobResults("probe"), usable \in BOOLEAN :
          media' \in IF ~j.ok THEN Fail(j.m, j.issue)
                     ELSE IF ~SourceUnchanged(j.m) \/ ~usable THEN Fail(j.m, FALSE)
                     ELSE {Go(j.m, IF media.request.tool = "sheet" THEN "sheet" ELSE "sample")}

DrawSheet == BeginJob("sheet", "sheet")
SheetDrawn ==
    /\ Running("sheet")
    /\ \E j \in JobResults("sheet") :
          media' \in IF j.ok THEN IfUnchanged(j.m, Conclude(j.m, "sheet")) ELSE Fail(j.m, j.issue)

SampleSource ==
    /\ Resting("sample")
    /\ media' \in IF SourceUnchanged(media) THEN Spawned(media, "sample") ELSE Fail(media, FALSE)
SourceSampled ==
    /\ Running("sample")
    /\ \E j \in JobResults("sample"), cuts \in BOOLEAN :
          media' \in IF ~j.ok THEN Fail(j.m, j.issue)
                     ELSE IfUnchanged(j.m, IF media.request.apply /\ cuts THEN Go(j.m, "output")
                                           ELSE Conclude(j.m, "report"))

QueryEncoders == BeginJob("encoders", "encoders")
EncodersKnown ==
    /\ Running("encoders")
    /\ \E j \in JobResults("encoders") :
          media' \in IF j.ok THEN IfUnchanged(j.m, Go(j.m, "stage")) ELSE Fail(j.m, j.issue)

\* create_new: the partial name must be free.
ReserveStage ==
    /\ Resting("stage")
    /\ media' \in
         IF media.names["partial"] # Nothing THEN Fail(media, FALSE)
         ELSE LET file == Cardinality(DOMAIN media.version) + 1
              IN  {Go([Written(media, file) EXCEPT !.names["partial"] = file, !.stage = file], "encode")}
\* The command or its owner may refuse what was probed after the stage was
\* made: the stage is dropped, and nobody is told how its cleanup ended.
RefuseExport ==
    /\ Resting("encode")
    /\ media' \in {Go(Conclude(c.m, "failed"), "gone") : c \in Cleanup(media)}

-----------------------------------------------------------------------------
(* The export *)

Encode ==
    /\ Resting("encode")
    /\ media' \in IF SourceUnchanged(media) /\ media.names["partial"] # Nothing
                  THEN Spawned(media, "encode") ELSE Fail(media, FALSE)
\* The encoder wrote through the name it was given.
Encoded ==
    /\ Running("encode")
    /\ \E j \in JobResults("encode") :
          LET w == Written(j.m, j.m.job.target)
          IN  media' \in IF j.ok THEN IfNotCancelled(w, Go(w, "verify")) ELSE Fail(w, j.issue)

\* The file is identified before its verification begins.
Stamped(m) == [m EXCEPT !.stamp = Seen(m, "partial")]
Verify ==
    /\ Resting("verify")
    /\ media' \in IF StageIntact(media) THEN Spawned(Stamped(media), "verify") ELSE Fail(media, FALSE)
Verified ==
    /\ Running("verify")
    /\ \E j \in JobResults("verify"), asPlanned \in BOOLEAN :
          media' \in IF j.ok /\ asPlanned THEN {Go(j.m, "decode")} ELSE Fail(j.m, j.issue)

Decode == BeginJob("decode", "decode")
Decoded ==
    /\ Running("decode")
    /\ \E j \in JobResults("decode") :
          media' \in IF j.ok THEN {Go(j.m, "publish")} ELSE Fail(j.m, j.issue)

\* PublicationDecode: after the decoding OBS is asked for the directory once
\* more, and tools and source are checked.
Confirm ==
    /\ Resting("publish")
    /\ \E answered \in BOOLEAN :
          media' \in IF answered /\ RootApproved(media) /\ media.tools /\ SourceUnchanged(media) /\ ~media.cancelled
                     THEN {Go(media, "hash")} ELSE Fail(media, FALSE)

\* Fault seed: the file is hashed without asking whether it is the one that
\* was verified.
HashAnything ==
    /\ Resting("hash")
    /\ media' \in IF StageIntact(media) THEN {Go([media EXCEPT !.hash = Seen(media, "partial"),
                                                              !.stamp = Seen(media, "partial")], "link")}
                  ELSE Fail(media, FALSE)
Hash ==
    /\ Resting("hash")
    /\ media' \in IF StageIntact(media) /\ Seen(media, "partial") = media.stamp
                  THEN {Go([media EXCEPT !.hash = Seen(media, "partial")], "link")}
                  ELSE Fail(media, FALSE)

Linked(m) ==
    [m EXCEPT !.names["output"] = m.stage, !.receipt = [file |-> m.stage, version |-> Seen(m, "partial")]]
\* hard_link fails when the output name is taken.  After it the export is
\* committed; a cleanup that fails is only a warning.
PublishExport ==
    /\ Resting("link")
    /\ media' \in
         IF StageIntact(media) /\ Seen(media, "partial") = media.hash /\ ~media.cancelled
            /\ media.names["output"] = Nothing
         THEN {[Go(c.m, "preview") EXCEPT !.warned = ~c.gone] : c \in Cleanup(Linked(media))}
         ELSE Fail(media, FALSE)

Exported(m) == Conclude(m, "exported")
Preview ==
    /\ Resting("preview")
    /\ media' \in IF ~media.request.preview THEN {Exported(media)}
                  ELSE IF ~media.tools \/ media.cancelled \/ media.names["output"] = Nothing
                  THEN {Exported([media EXCEPT !.warned = TRUE])}
                  ELSE Spawned(media, "preview")
Previewed ==
    /\ Running("preview")
    /\ \E j \in JobResults("preview") : media' = Exported([j.m EXCEPT !.warned = @ \/ ~j.ok])

-----------------------------------------------------------------------------
(* The service and other programs *)

CancelMedia == Working /\ ~media.cancelled /\ media' = [media EXCEPT !.cancelled = TRUE]

\* The operation is dropped before it ended: its process is killed without
\* being waited for, work files in flight stay, the partial file is cleaned.
DropMedia ==
    /\ Working
    /\ LET m == [media EXCEPT !.job.child = IF @ = "running" THEN "loose" ELSE @,
                              !.job.work = IF @ = "inflight" THEN "retained" ELSE @]
       IN  media' \in {Conclude(c.m, "dropped") : c \in Cleanup(m)}

\* ExportStage::drop: when the settled operation goes, a cleanup that was not
\* confirmed is tried once more, and nobody is told how that ends.
StageLeft == media.result \in {"failed", "exported"} /\ media.phase = "done" /\ media.stage # Nothing
DropStage == StageLeft /\ media' \in {Go(c.m, "gone") : c \in Cleanup(media)}

\* A running job reads what another program has just written.
Observed(m) ==
    IF ~Working \/ m.job.child # "running" THEN m
    ELSE [m EXCEPT !.read = IF m.job.kind \in ReadsSource THEN @ \cup {Seen(m, "source")} ELSE @,
                   !.tested = IF m.job.kind \in ReadsStage THEN @ \cup {Seen(m, "partial")} ELSE @]
Outside(m) == media.outside < MaxOutside /\ media' = [Observed(m) EXCEPT !.outside = @ + 1]
NewFile == Cardinality(DOMAIN media.version) + 1
OthersWrite(n) == media.names[n] # Nothing /\ Outside(Written(media, media.names[n]))
OthersReplace(n) == Outside([Written(media, NewFile) EXCEPT !.names[n] = NewFile])
OthersRemove(n) == media.names[n] # Nothing /\ Outside([media EXCEPT !.names[n] = Nothing])
SetupChanges ==
    \/ media.tools /\ Outside([media EXCEPT !.tools = FALSE])
    \/ Outside([media EXCEPT !.root = ~@])

Ours ==
    \/ DirectoryAnswers("directory") \/ ProbeSource \/ Probed \/ DrawSheet \/ SheetDrawn
    \/ SampleSource \/ SourceSampled \/ DirectoryAnswers("output") \/ QueryEncoders \/ EncodersKnown
    \/ ReserveStage \/ RefuseExport \/ Encode \/ Encoded \/ Verify \/ Verified \/ Decode \/ Decoded
    \/ Confirm \/ Hash \/ PublishExport \/ Preview \/ Previewed
    \/ CancelMedia \/ DropMedia \/ DropStage
Others ==
    /\ Working \/ StageLeft
    /\ SetupChanges \/ \E n \in Names : OthersWrite(n) \/ OthersReplace(n) \/ OthersRemove(n)

MediaNext == Ours \/ Others

-----------------------------------------------------------------------------
(* Properties *)

(* ExportIsVerified: an export that was committed is the content that was    *)
(* probed, decoded and hashed, made from one state of the recording, the one *)
(* that was planned on, however other programs changed files meanwhile; an   *)
(* operation that failed has published nothing; a private work file is       *)
(* removed only after its process was joined; and an operation that failed   *)
(* with a process that may still run says so.                                *)
ExportIsVerified ==
    LET m == media
    IN  /\ m.receipt.file # Nothing =>
              /\ m.receipt.file = m.stage
              /\ m.tested = {m.receipt.version} /\ m.hash = m.receipt.version
              /\ m.read = {m.pinned.version}
        /\ m.result \in {"failed", "exists"} => m.receipt.file = Nothing /\ m.names["output"] \notin {m.stage} \ {Nothing}
        /\ m.result = "exported" => m.receipt.file # Nothing
        /\ m.job.work = "removed" => m.job.child = "reaped"
        /\ m.result = "failed" /\ m.job.child = "loose" => m.unconfirmed

(* FilesAreNeverReplaced: no step of the operation rewrites the recording,   *)
(* takes a name away from a file another program put there, or touches the   *)
(* output once it has a file.                                                *)
FilesAreNeverReplaced ==
    [][Ours =>
        \A n \in Names : media.names[n] # Nothing =>
            /\ media'.names[n] = media.names[n] \/ (n = "partial" /\ media.names[n] = media.stage)
            /\ n # "partial" /\ media.names[n] # media.stage =>
                  media'.version[media.names[n]] = media.version[media.names[n]]]_mediaVars

=============================================================================
