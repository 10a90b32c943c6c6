------------------------------- MODULE Imports -------------------------------
(***************************************************************************)
(* Importing the sessions of other clients.  A client appends to its       *)
(* session file while copies of the file are uploaded to POST              *)
(* /memory/import and `aim import latest` looks for the newest file that   *)
(* is no longer written, reads it and stores its conversations.  Storing   *)
(* one conversation is atomic here; module Ingestion has the steps.        *)
(***************************************************************************)
EXTENDS Importers

CONSTANTS
    Paths,         \* session files
    OpenPaths,     \* the ones whose client still runs
    FirstRecords,  \* the records a file of each format may start with
    LaterRecords,  \* the records it may go on with
    OtherFiles,    \* what the files hold at the start, by format
    ImportFormats, \* the formats explored
    MaxRecords,    \* bound on the length of a file, by format
    Window,        \* records the bounded reader sees at each end of a file
    InactiveAfter, \* DEFAULT_INACTIVE_AFTER, in ticks of the clock
    MaxConversations, \* MAX_IMPORT_CONVERSATIONS
    Uploads,       \* the requests clients send, apart from the file's text
    MaxRequestBytes, MaxFileBytes, MaxSchemaBytes,
    MaxClock, MaxImports, MaxFaults

Importer == {"http", "cli"}
DiscoveryFormats == {"codex", "claude-code", "copilot-cli", "pi"}
Files == [log: Seq(Records), mtime: 0 .. MaxClock, version: Nat, archived: BOOLEAN]

(* A request of POST /memory/import.  Its fields are the names of its parts *)
(* in order; declared is the content-length header.  A schema is bounded    *)
(* when it keeps the limits on depth, size, names and values.               *)
Requests ==
    [multipart: BOOLEAN, declared: Nat \cup {Missing}, size: Nat,
     fields: Seq({"parser", "file", "schema", "source", "title", "other"}),
     known: BOOLEAN, media: BOOLEAN, fileSize: Nat, utf8: BOOLEAN,
     schemaSize: Nat, schemaBounded: BOOLEAN, alias: Ids \cup {Missing}]

ASSUME ImportsAssumption ==
    /\ ImportFormats \subseteq Formats /\ OpenPaths \subseteq Paths
    /\ \A f \in ImportFormats : /\ FirstRecords[f] \cup LaterRecords[f] \subseteq Records
                                /\ OtherFiles[f] \subseteq [Paths -> Files]
                                /\ MaxRecords[f] \in Nat
    /\ Window \in Nat \ {0} /\ InactiveAfter \in Nat \ {0}
    /\ MaxConversations \in Nat \ {0}
    /\ MaxRequestBytes \in Nat /\ MaxFileBytes \in Nat /\ MaxSchemaBytes \in Nat
    /\ Uploads \subseteq Requests
    /\ MaxClock \in Nat /\ MaxImports \in Nat /\ MaxFaults \in Nat
    /\ Missing # "ok"

VARIABLES
    format,   \* the format of the files
    files,    \* what the file system holds
    wallClock,
    stored,   \* the hub's memories: a session identity or Missing, and messages
    scan,     \* the discovery of the command line
    running,      \* the import each interface runs
    imports, faults

counters == <<imports, faults>>
importsVars == <<format, files, wallClock, stored, scan, running, counters>>

-----------------------------------------------------------------------------
(* Discovery: what a file says about itself, and whether it may be active.  *)

(* The first and the last part of the file; broken lines are skipped.       *)
BoundedJsonlRecordReader(log) ==
    LET seen == IF Len(log) <= Window THEN log
                ELSE SubSeq(log, 1, Window) \o SubSeq(log, Len(log) - Window + 1, Len(log))
    IN  Where(seen, LAMBDA r : r.kind # "broken")

InspectedHeader(session, time, terminal) ==
    IF session = Missing \/ time = Missing THEN Missing
    ELSE [session |-> session, time |-> time, terminal |-> terminal]

inspect_codex(records) ==
    LET metas == Where(records, LAMBDA r : r.kind = "header")
    IN  IF metas = <<>> THEN Missing
        ELSE IF ~ metas[1].valid THEN Missing
        ELSE InspectedHeader(metas[1].session, metas[1].seq, FALSE)

inspect_claude_code(records) ==
    LET dated == Where(records, LAMBDA r :
                     r.kind \in {"message", "header"} /\ r.session # Missing /\ r.seq # Missing)
    IN  IF dated = <<>> THEN Missing
        ELSE InspectedHeader(dated[1].session, dated[1].seq, FALSE)

(* "turn_end" is session.shutdown; starts, resumes and messages undo it.    *)
inspect_copilot_cli(records) ==
    LET live == Where(records, LAMBDA r : r.kind \in {"header", "message", "turn_end"})
        dated == Where(records, LAMBDA r :
                     r.kind = "header" /\ r.session # Missing /\ r.seq # Missing)
    IN  IF dated = <<>> THEN Missing
        ELSE InspectedHeader(dated[1].session, dated[1].seq, Last(live).kind = "turn_end")

(* An Oh My Pi file starts with a title, or its header names a title source.*)
inspect_pi(records, ohMyPi) ==
    LET starts == {i \in DOMAIN records : records[i].kind = "header"}
        first == Min(starts)
        looksLikeOmp == records[first].internal \/ (first > 1 /\ records[1].kind = "title")
    IN  IF starts = {} THEN Missing
        ELSE IF looksLikeOmp # ohMyPi THEN Missing
        ELSE InspectedHeader(records[first].session, records[first].seq, FALSE)

Inspect(log, ohMyPi) ==
    LET records == BoundedJsonlRecordReader(log)
    IN  CASE format = "codex" -> inspect_codex(records)
          [] format = "claude-code" -> inspect_claude_code(records)
          [] format = "copilot-cli" -> inspect_copilot_cli(records)
          [] format = "pi" -> inspect_pi(records, ohMyPi)

safe_reason(file, header, now) ==
    CASE format = "codex" /\ file.archived -> "archived"
      [] header.terminal -> "terminal"
      [] now - file.mtime >= InactiveAfter -> "unchanged"
      [] OTHER -> Missing

NewScan == [pc |-> "off", ohMyPi |-> FALSE, now |-> 0, todo |-> {}, at |-> Missing,
            archived |-> {}, header |-> Missing, reason |-> Missing, safe |-> {}, unsafe |-> {},
            artifact |-> Missing, text |-> Missing]

-----------------------------------------------------------------------------
(* Storing the conversations of an import.                                  *)

(* The outcome of one conversation: an equal transcript is a duplicate, the *)
(* snapshot of a known session extends it, is older, or conflicts with it.  *)
ingest_outcome(p) ==
    LET same == {m \in stored : p.session # Missing /\ m.session = p.session}
    IN  IF \E m \in stored : m.messages = p.messages THEN "deduplicated"
        ELSE IF same = {} THEN "inserted"
        ELSE IF \E m \in same : IsPrefix(m.messages, p.messages) THEN "appended"
        ELSE IF \E m \in same : IsPrefix(p.messages, m.messages) THEN "stale"
        ELSE "conflict"

Ingested(p, outcome) ==
    CASE outcome = "inserted" -> stored \cup {p}
      [] outcome = "appended" -> {m \in stored : m.session # p.session} \cup {p}
      [] OTHER -> stored

(* Mutant: conflicts are part of a successful import.                       *)
ConflictsAreOk(results) ==
    IF \E i \in DOMAIN results : results[i] = "error" THEN "partial" ELSE "ok"

(* "partial" is for conflicts and failures; the other outcomes are ok.      *)
ImportStatus(results) ==
    IF \E i \in DOMAIN results : results[i] \in {"conflict", "error"}
    THEN "partial" ELSE "ok"

NewJob == [pc |-> "idle", payloads |-> <<>>, results |-> <<>>, answer |-> Missing]

-----------------------------------------------------------------------------
ImportsInit ==
    /\ format \in ImportFormats
    /\ files \in OtherFiles[format]
    /\ wallClock = MaxClock - InactiveAfter
    /\ stored = {}
    /\ scan = NewScan
    /\ running = [i \in Importer |-> NewJob]
    /\ imports = 0 /\ faults = 0

-----------------------------------------------------------------------------
(* The client.                                                              *)

Written(p, log) ==
    files' = [files EXCEPT ![p].log = log, ![p].mtime = wallClock, ![p].version = @ + 1]

ClientAppends(p) ==
    LET log == files[p].log
    IN  /\ Len(log) < MaxRecords[format] /\ ~ files[p].archived
        /\ \E r \in IF log = <<>> THEN FirstRecords[format] ELSE LaterRecords[format] :
              Written(p, Append(log, r))
        /\ UNCHANGED <<format, wallClock, stored, scan, running, counters>>

(* The rest of a line that was only partly written.                         *)
ClientCompletesLine(p) ==
    LET log == files[p].log
    IN  /\ log # <<>>
        /\ Last(log).kind = "broken"
        /\ \E r \in LaterRecords[format] :
              r.kind # "broken" /\ Written(p, Append(Front(log), r))
        /\ UNCHANGED <<format, wallClock, stored, scan, running, counters>>

(* Codex moves a finished session to its archive: the old path is gone.     *)
ClientArchives(p) ==
    /\ format = "codex" /\ ~ files[p].archived /\ files[p].log # <<>>
    /\ files' = [files EXCEPT ![p].archived = TRUE, ![p].version = @ + 1]
    /\ UNCHANGED <<format, wallClock, stored, scan, running, counters>>

(* Time matters to discovery only.                                          *)
Tick ==
    /\ wallClock < MaxClock /\ format \in DiscoveryFormats
    /\ wallClock' = wallClock + 1
    /\ UNCHANGED <<format, files, stored, scan, running, counters>>

-----------------------------------------------------------------------------
(* aim import latest: discover_latest reads each file, then asks how long   *)
(* it has not changed, then records its size and modification time.         *)

StartDiscovery ==
    /\ format \in DiscoveryFormats /\ scan.pc = "off" /\ running["cli"].pc = "idle"
    /\ imports < MaxImports
    /\ imports' = imports + 1
    /\ \E omp \in IF format = "pi" THEN BOOLEAN ELSE {FALSE} :
          scan' = [NewScan EXCEPT !.pc = "next", !.ohMyPi = omp, !.now = wallClock,
                                  !.todo = {p \in Paths : files[p].log # <<>>},
                                  !.archived = {p \in Paths : files[p].archived}]
    /\ UNCHANGED <<format, files, wallClock, stored, running, faults>>

FailImport(i) == running' = [running EXCEPT ![i] = [NewJob EXCEPT !.answer = "refused"]]
Abandon == scan' = NewScan /\ FailImport("cli")

(* The file was moved since it was listed.                                  *)
Gone(p) == (p \in scan.archived) # files[p].archived

InspectFile ==
    /\ scan.pc = "next"
    /\ \E p \in scan.todo :
          LET header == Inspect(files[p].log, scan.ohMyPi)
          IN  IF Gone(p) THEN Abandon
              ELSE /\ scan' = [scan EXCEPT !.todo = @ \ {p}, !.at = p, !.header = header,
                                           !.pc = IF header = Missing THEN "next" ELSE "age"]
                   /\ UNCHANGED running
    /\ UNCHANGED <<format, files, wallClock, stored, counters>>

AgeOfFile ==
    LET reason == safe_reason(files[scan.at], scan.header, scan.now)
    IN  /\ scan.pc = "age"
        /\ IF Gone(scan.at) THEN Abandon
           ELSE /\ scan' = [scan EXCEPT !.reason = reason,
                       !.unsafe = IF reason # Missing THEN @ ELSE @ \cup {scan.header.time},
                       !.pc = IF reason = Missing THEN "next" ELSE "stat"]
                /\ UNCHANGED running
        /\ UNCHANGED <<format, files, wallClock, stored, counters>>

(* "seen" is what the file held when its size and time were recorded.       *)
DiscoveredArtifact(p) ==
    [path |-> p, time |-> scan.header.time, version |-> files[p].version,
     mtime |-> files[p].mtime, reason |-> scan.reason, seen |-> files[p].log]

StatFile ==
    /\ scan.pc = "stat"
    /\ IF Gone(scan.at) THEN Abandon
       ELSE /\ scan' = [scan EXCEPT !.pc = "next",
                            !.safe = @ \cup {DiscoveredArtifact(scan.at)}]
            /\ UNCHANGED running
    /\ UNCHANGED <<format, files, wallClock, stored, counters>>

(* The newest session, unless one that may be active is as new, or two tie. *)
discover_latest ==
    LET newest == {a \in scan.safe : \A b \in scan.safe : b.time <= a.time}
        refused == \/ scan.safe = {} \/ Cardinality(newest) # 1
                   \/ \E t \in scan.unsafe : \A a \in newest : t >= a.time
    IN  /\ scan.pc = "next" /\ scan.todo = {}
        /\ IF refused THEN Abandon
           ELSE /\ scan' = [scan EXCEPT !.artifact = CHOOSE a \in newest : TRUE,
                                        !.pc = "confirm"]
                /\ UNCHANGED running
        /\ UNCHANGED <<format, files, wallClock, stored, counters>>

(* Mutant: only the check before the read is made.                          *)
verify_once(artifact) ==
    scan.pc = "verify" \/ files[artifact.path].version = artifact.version

verify_unchanged(artifact) == files[artifact.path].version = artifact.version

(* The user confirms, or declines.                                          *)
Confirm ==
    /\ scan.pc = "confirm"
    /\ \/ /\ verify_unchanged(scan.artifact)
          /\ scan' = [scan EXCEPT !.pc = "read"] /\ UNCHANGED running
       \/ Abandon
    /\ UNCHANGED <<format, files, wallClock, stored, counters>>

ReadText ==
    /\ scan.pc = "read"
    /\ scan' = [scan EXCEPT !.text = files[scan.artifact.path].log, !.pc = "verify"]
    /\ UNCHANGED <<format, files, wallClock, stored, running, counters>>

-----------------------------------------------------------------------------
(* Parsing and storing.                                                     *)

Begin(i, payloads) ==
    running' = [running EXCEPT ![i] = [NewJob EXCEPT !.pc = "store", !.payloads = payloads]]

execute_import ==
    /\ scan.pc = "verify"
    /\ LET payloads == import_text_with_schema(format, scan.text, Missing)
       IN  IF ~ verify_unchanged(scan.artifact) \/ payloads = Refused
           THEN Abandon
           ELSE scan' = [scan EXCEPT !.pc = "off"] /\ Begin("cli", payloads)
    /\ UNCHANGED <<format, files, wallClock, stored, counters>>

(* The checks of an upload, each with the status it answers when it fails.  *)
require_multipart(q) ==
    IF ~ q.multipart THEN 415
    ELSE IF q.declared # Missing /\ q.declared > MaxRequestBytes THEN 413 ELSE 200

read_bounded_body(q) == IF q.size > MaxRequestBytes THEN 413 ELSE 200

(* At most two files and four fields reach the form, no name twice.         *)
unique_fields(q) ==
    IF Len(q.fields) > 6 \/ \E i, j \in DOMAIN q.fields :
          q.fields[i] = "other" \/ (i # j /\ q.fields[i] = q.fields[j])
    THEN 400 ELSE 200

required_parts(q) == IF {"parser", "file"} \subseteq ToSet(q.fields) THEN 200 ELSE 400

uploaded_file(q) ==
    IF ~ q.media THEN 415 ELSE IF q.fileSize > MaxFileBytes THEN 413
    ELSE IF q.fileSize = 0 \/ ~ q.utf8 THEN 400 ELSE 200

parse_schema_override(q) ==
    IF q.schemaSize > MaxSchemaBytes THEN 413
    ELSE IF q.schemaSize > 0 /\ ~ q.schemaBounded THEN 400 ELSE 200

Checks(q) == <<require_multipart(q), read_bounded_body(q), unique_fields(q),
               required_parts(q), uploaded_file(q), parse_schema_override(q),
               IF q.known THEN 200 ELSE 400>>

Accepted(q) == \A i \in DOMAIN Checks(q) : Checks(q)[i] = 200

(* prepare_import_request: a copy of the file is uploaded.                  *)
Upload(p) ==
    /\ running["http"].pc = "idle" /\ imports < MaxImports
    /\ imports' = imports + 1
    /\ \E q \in Uploads :
          LET schema == IF "schema" \in ToSet(q.fields) THEN q.alias ELSE Missing
              payloads == import_text_with_schema(format, files[p].log, schema)
          IN  IF ~ Accepted(q) \/ files[p].log = <<>> \/ payloads = Refused
              THEN FailImport("http")
              ELSE IF Len(payloads) > MaxConversations THEN FailImport("http")
              ELSE Begin("http", payloads)
    /\ UNCHANGED <<format, files, wallClock, stored, scan, faults>>

(* One conversation is stored, or fails in a provider: the command line     *)
(* goes on with the next, the upload stops, and answers an error when the   *)
(* first one failed.                                                        *)
StoreNext(i) ==
    LET j == running[i]
        p == j.payloads[Len(j.results) + 1]
        outcome == ingest_outcome(p)
    IN  /\ j.pc = "store" /\ Len(j.results) < Len(j.payloads)
        /\ running' = [running EXCEPT ![i].results = Append(@, outcome)]
        /\ stored' = Ingested(p, outcome)
        /\ UNCHANGED <<format, files, wallClock, scan, counters>>

StoreFails(i) ==
    LET j == running[i]
        results == Append(j.results, "error")
    IN  /\ j.pc = "store" /\ Len(j.results) < Len(j.payloads)
        /\ faults < MaxFaults
        /\ faults' = faults + 1
        /\ IF i = "cli" THEN running' = [running EXCEPT ![i].results = results]
           ELSE IF j.results = <<>> THEN FailImport(i)
           ELSE running' = [running EXCEPT ![i].pc = "idle", ![i].results = results,
                                   ![i].answer = "partial"]
        /\ UNCHANGED <<format, files, wallClock, stored, scan, imports>>

Answer(i) ==
    LET j == running[i]
    IN  /\ j.pc = "store" /\ Len(j.results) = Len(j.payloads)
        /\ running' = [running EXCEPT ![i].pc = "idle", ![i].answer = ImportStatus(j.results)]
        /\ UNCHANGED <<format, files, wallClock, stored, scan, counters>>

-----------------------------------------------------------------------------
ImportsNext ==
    \/ \E p \in OpenPaths : ClientAppends(p) \/ ClientCompletesLine(p) \/ ClientArchives(p)
    \/ Tick
    \/ StartDiscovery \/ InspectFile \/ AgeOfFile \/ StatFile
    \/ discover_latest \/ Confirm \/ ReadText \/ execute_import
    \/ \E p \in Paths : Upload(p)
    \/ \E i \in Importer : StoreNext(i) \/ StoreFails(i) \/ Answer(i)

ImportsSpec == ImportsInit /\ [][ImportsNext]_importsVars

-----------------------------------------------------------------------------
(* Properties.                                                              *)

(* What makes two snapshots of one growing log diverge: a Codex turn whose  *)
(* question is asked again, a Pi branch, Hermes records that only a schema  *)
(* override makes readable.                                                 *)
RewritesHistory(log) ==
    CASE format = "codex" ->
           \E i, j \in DOMAIN log : /\ i # j /\ log[i].turn # Missing
                                    /\ log[i].turn = log[j].turn
      [] format = "pi" ->
           \E i \in 2 .. Len(log) : log[i].kind = "message" /\ log[i].parent # log[i - 1].id
      [] format = "hermes" -> \E i \in DOMAIN log : log[i].turn # Missing
      [] OTHER -> FALSE

(* Re-importing a session that only grew never ends in a conflict: the      *)
(* importers keep the transcript of a longer log an extension of the one    *)
(* of a shorter log (internal records, blank texts, duplicates and turns in *)
(* progress included), except where the client rewrote its history.         *)
ConflictMeansRewritten ==
    \A i \in Importer : \A k \in DOMAIN running[i].results :
        running[i].results[k] = "conflict" => \E p \in Paths : RewritesHistory(files[p].log)

(* What aim import latest parses is what the file held when discovery       *)
(* recorded its size and time, whatever the client writes meanwhile.        *)
ImportsWhatWasDiscovered ==
    scan.pc = "off" /\ scan.text # Missing => scan.text = scan.artifact.seen

(* An import answered ok has every conversation of the text in the hub, at  *)
(* its length or longer, also when two interfaces import at the same time.  *)
OkMeansStored ==
    \A i \in Importer : running[i].answer = "ok" =>
        \A k \in DOMAIN running[i].payloads :
            \E m \in stored : IsPrefix(running[i].payloads[k].messages, m.messages)

=============================================================================
