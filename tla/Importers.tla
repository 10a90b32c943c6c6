------------------------------ MODULE Importers ------------------------------
(***************************************************************************)
(* The importers: pure functions from the text of a client's session to    *)
(* the conversations it holds, or Refused (the code raises ValueError).    *)
(* A text is the sequence of its records (lines, messages, frames, rows);  *)
(* a record keeps what an importer tells apart.  The text of a message is  *)
(* the sequence of the block texts that the importer joins.                *)
(***************************************************************************)
EXTENDS Integers, Sequences, FiniteSets, SequencesExt

CONSTANTS
    Texts,       \* non-blank texts
    Ids,         \* identifiers of records, turns and blocks
    Sessions,    \* upstream session ids
    Blank,       \* a text of white space only
    NotText,     \* a value that is not a string where text is expected
    Refused,     \* the importer raises: nothing is imported
    Missing

KnownRoles == {"user", "assistant"}

(* "tool" stands for every block that is not text, "synthetic" for text     *)
(* that the client marks as ignored or synthetic, "file" for an attachment. *)
Blocks == [type: {"text", "tool", "synthetic", "file"},
           text: Texts \cup {Blank, NotText}]

(* Records of a line-oriented session log.  A broken line is not a JSON     *)
(* object; a message that is not valid fails the importer's schema; one     *)
(* that is not stamped carries a timestamp that cannot be parsed.           *)
Records ==
    [kind: {"header", "title", "message", "turn_end", "other", "broken"},
     role: KnownRoles \cup {Missing}, blocks: Seq(Blocks), id: Ids \cup {Missing},
     session: Sessions \cup {Missing}, parent: Ids \cup {Missing},
     turn: Ids \cup {Missing}, internal: BOOLEAN, valid: BOOLEAN,
     stamped: BOOLEAN, seq: Nat \cup {Missing}]

Payload(session, messages) == [session |-> session, messages |-> messages]

-----------------------------------------------------------------------------
(* Helpers.                                                                 *)

(* The entries of s at the indices, in the order of Upto; in the order of   *)
(* the sequence; and the ones that pass a test.                             *)
Arranged(s, indices, Upto(_, _)) ==
    [k \in 1 .. Cardinality(indices) |->
        s[CHOOSE i \in indices : Cardinality({j \in indices : Upto(j, i)}) = k]]

Selected(s, indices) == Arranged(s, indices, LAMBDA j, i : j <= i)

Where(s, Test(_)) == Selected(s, {i \in DOMAIN s : Test(s[i])})

(* The texts of the blocks that an importer keeps, without the blank ones.  *)
TextsOf(blocks, Kept(_)) ==
    Selected([i \in DOMAIN blocks |-> blocks[i].text],
       {i \in DOMAIN blocks : Kept(blocks[i]) /\ blocks[i].text # Blank})

IllFormed(blocks, Kept(_)) ==
    \E i \in DOMAIN blocks : Kept(blocks[i]) /\ blocks[i].text = NotText

(* The first of the records with one identity; those without one all stay.  *)
FirstOfEach(records, Identity(_)) ==
    Selected(records, {i \in DOMAIN records :
                    \/ Identity(records[i]) = Missing
                    \/ \A j \in 1 .. i - 1 : Identity(records[j]) # Identity(records[i])})

RecordId(r) == r.id
Broken(log) == \E i \in DOMAIN log : log[i].kind = "broken"
MessagesIn(log) == Where(log, LAMBDA r : r.kind = "message")
AllValid(records) == \A i \in DOMAIN records : records[i].valid
AllStamped(records) == \A i \in DOMAIN records : records[i].stamped
Transcript(records, Text(_)) ==
    [i \in DOMAIN records |-> [role |-> records[i].role, text |-> Text(records[i])]]

FirstSession(records) ==
    LET named == Where(records, LAMBDA r : r.session # Missing)
    IN  IF named = <<>> THEN Missing ELSE named[1].session

-----------------------------------------------------------------------------
(* Claude Code sessions.                                                    *)

claude_text(r) == TextsOf(r.blocks, LAMBDA b : b.type = "text" /\ b.text # NotText)

(* Mutant: a repeated record replaces the earlier one.                      *)
claude_keeps_last(records) ==
    Selected(records, {i \in DOMAIN records :
                    \A j \in i + 1 .. Len(records) : records[j].id # records[i].id})

claude_is_duplicate(records) == FirstOfEach(records, RecordId)

claude_code_session_jsonl(log) ==
    LET texts == Where(MessagesIn(log), LAMBDA r : claude_text(r) # <<>>)
        kept == claude_is_duplicate(texts)
    IN  IF Broken(log) \/ ~ AllValid(MessagesIn(log)) \/ ~ AllStamped(kept)
           \/ kept = <<>>
        THEN Refused
        ELSE <<Payload(FirstSession(log), Transcript(kept, claude_text))>>

-----------------------------------------------------------------------------
(* GitHub Copilot CLI events.  A message is identified by its messageId,    *)
(* its id or its interactionId; "internal" covers sub-agents and sources    *)
(* other than the user.                                                     *)

copilot_text(r) == TextsOf(r.blocks, LAMBDA b : b.type = "text")

copilot_message_identity(r) ==
    IF r.id # Missing THEN <<"messageId", r.id>>
    ELSE IF r.turn # Missing THEN <<r.role, r.turn>> ELSE Missing

copilot_is_internal_message(r) == r.internal

copilot_cli_events_jsonl(log) ==
    LET visible == Where(MessagesIn(log), LAMBDA r :
                   ~ copilot_is_internal_message(r) /\ copilot_text(r) # <<>>)
        kept == FirstOfEach(visible, copilot_message_identity)
        headers == Where(log, LAMBDA r : r.kind = "header")
        checked == Where(log, LAMBDA r : r.kind \in {"header", "title", "message"})
    IN  IF log = <<>> \/ Broken(log) \/ ~ AllValid(checked)
           \/ ~ AllStamped(headers \o kept) \/ kept = <<>>
        THEN Refused
        ELSE <<Payload(FirstSession(headers), Transcript(kept, copilot_text))>>

-----------------------------------------------------------------------------
(* Codex rollouts.  Of the user messages of a turn only the last is kept.   *)

codex_kept(b) == b.type = "text"
codex_text(r) == TextsOf(r.blocks, codex_kept)

LastUserOfTurn(candidates, i) ==
    \/ candidates[i].role # "user" \/ candidates[i].turn = Missing
    \/ \A j \in i + 1 .. Len(candidates) :
          candidates[j].role = "user" => candidates[j].turn # candidates[i].turn

codex_rollout_jsonl(log) ==
    LET messages == MessagesIn(log)
        candidates == Where(messages, LAMBDA r : codex_text(r) # <<>>)
        kept == Selected(candidates, {i \in DOMAIN candidates : LastUserOfTurn(candidates, i)})
        headers == Where(log, LAMBDA r : r.kind = "header")
        meta == SubSeq(headers, 1, 1)
    IN  IF \/ Broken(log) \/ ~ AllValid(meta) \/ ~ AllValid(messages)
           \/ \E i \in DOMAIN messages : IllFormed(messages[i].blocks, codex_kept)
           \/ ~ AllStamped(meta \o candidates)
           \/ {kept[i].role : i \in DOMAIN kept} # KnownRoles
        THEN Refused
        ELSE <<Payload(FirstSession(meta), Transcript(kept, codex_text))>>

-----------------------------------------------------------------------------
(* DeepSeek Harness sessions: one header, first; its events are all numbered*)
(* from 0 or none is.                                                       *)

harness_kept(b) == b.type = "text"
harness_text(r) == TextsOf(r.blocks, harness_kept)

harness_parse_header(r) == r.kind = "header" /\ r.valid

harness_event_order(events) ==
    \/ \A i \in DOMAIN events : events[i].seq = Missing
    \/ \A i \in DOMAIN events : events[i].seq = i - 1

deepseek_harness_session_jsonl(log) ==
    LET events == Tail(log)
        visible == Where(MessagesIn(events), LAMBDA r :
                   ~ (r.role = "user" /\ r.internal))
        kept == FirstOfEach(Where(visible, LAMBDA r : harness_text(r) # <<>>), RecordId)
    IN  IF \/ log = <<>> \/ Broken(log) \/ ~ harness_parse_header(Head(log))
           \/ ~ harness_event_order(events) \/ ~ AllValid(events)
           \/ \E i \in DOMAIN events : events[i].kind = "header"
           \/ \E i \in DOMAIN visible : IllFormed(visible[i].blocks, harness_kept)
           \/ kept = <<>>
        THEN Refused
        ELSE <<Payload(Head(log).session, Transcript(kept, harness_text))>>

-----------------------------------------------------------------------------
(* Pi-family session trees: the conversation is the path from a root to the *)
(* last entry of the file.                                                  *)

pi_kept(b) == b.type = "text"
pi_text(r) == TextsOf(r.blocks, pi_kept)

(* The records without an optional title line and the header, or Refused.   *)
pi_split_header(log) ==
    LET start == IF log # <<>> /\ log[1].kind = "title" THEN 2 ELSE 1
    IN  IF \/ Len(log) < start \/ log[start].kind # "header" \/ ~ log[start].valid
           \/ \E i \in 1 .. start : ~ log[i].valid
        THEN Refused ELSE SubSeq(log, start + 1, Len(log))

pi_header(log) == log[IF log[1].kind = "title" THEN 2 ELSE 1]

(* The entries with the id, 0 for none: the parent of entry 0 is 0.         *)
ParentOf(entries, i) ==
    IF i = 0 \/ entries[i].parent = Missing THEN 0
    ELSE CHOOSE j \in DOMAIN entries : entries[j].id = entries[i].parent

Ancestors(entries, i) ==
    LET up[n \in 0 .. Len(entries)] ==
            IF n = 0 THEN i ELSE ParentOf(entries, up[n - 1])
    IN  up

pi_validate_graph(entries) ==
    /\ \A i \in DOMAIN entries : entries[i].id # Missing
    /\ \A i, j \in DOMAIN entries : entries[i].id = entries[j].id => i = j
    /\ \A i \in DOMAIN entries : entries[i].parent # Missing =>
          \E j \in DOMAIN entries : entries[j].id = entries[i].parent
    /\ \A i \in DOMAIN entries : Ancestors(entries, i)[Len(entries)] = 0

pi_active_path(entries) ==
    LET up == Ancestors(entries, Len(entries))
        path == Where([n \in 1 .. Len(entries) |-> up[n - 1]], LAMBDA i : i # 0)
    IN  Reverse([n \in DOMAIN path |-> entries[path[n]]])

pi_session_jsonl(log) ==
    LET entries == pi_split_header(log)
        spoken == Where(pi_active_path(entries), LAMBDA r :
                  r.kind = "message" /\ r.role \in KnownRoles)
        kept == Where(spoken, LAMBDA r : pi_text(r) # <<>>)
    IN  IF \/ Broken(log) \/ entries \in {Refused, <<>>} \/ ~ pi_validate_graph(entries)
        THEN Refused
        ELSE IF \/ ~ AllValid(spoken) \/ ~ AllStamped(<<pi_header(log)>> \o kept)
                \/ \E i \in DOMAIN spoken : IllFormed(spoken[i].blocks, pi_kept)
                \/ kept = <<>>
             THEN Refused
             ELSE <<Payload(pi_header(log).session, Transcript(kept, pi_text))>>

-----------------------------------------------------------------------------
(* Qwen Code exports, as one JSON document or as lines.  The text of a      *)
(* message is its content (a "text" block) or else its parts (the others).  *)
(* "header" is the metadata line, or what a document says outside its       *)
(* messages.                                                                *)

qwen_content(r) == TextsOf(r.blocks, LAMBDA b : b.type = "text" /\ b.text # NotText)

qwen_text(r) ==
    IF qwen_content(r) # <<>> THEN qwen_content(r)
    ELSE TextsOf(r.blocks, LAMBDA b : b.type # "text" /\ b.text # NotText)

qwen_ill_formed(r) ==
    qwen_content(r) = <<>> /\ IllFormed(r.blocks, LAMBDA b : b.type # "text")

(* Metadata at most once, before every other record.                        *)
qwen_metadata_first(log) ==
    \A i \in DOMAIN log : log[i].kind = "header" => i = 1 /\ log[i].valid

qwen_payload(session, messages) ==
    LET texts == Where(messages, LAMBDA r : qwen_text(r) # <<>> /\ ~ qwen_ill_formed(r))
        kept == FirstOfEach(texts, RecordId)
    IN  IF \/ ~ AllValid(messages) \/ ~ AllStamped(kept) \/ kept = <<>>
           \/ \E i \in DOMAIN messages :
                 /\ qwen_ill_formed(messages[i])
                 /\ \A j \in 1 .. i - 1 : \/ messages[j].id # messages[i].id
                                        \/ qwen_text(messages[j]) = <<>>
        THEN Refused
        ELSE <<Payload(session, Transcript(kept, qwen_text))>>

qwen_code_session_export(log) ==
    IF log = <<>> \/ Broken(log) \/ ~ qwen_metadata_first(log) THEN Refused
    ELSE qwen_payload(FirstSession(SubSeq(log, 1, 1)), MessagesIn(log))

-----------------------------------------------------------------------------
(* Droid Exec captures.  A one-shot capture is a "title" record (with the   *)
(* session), the prompt and the result.  In the frames of a stream a        *)
(* "header" starts a session or answers that, a user message waits until    *)
(* its turn completes, and the assistant's deltas are grouped by block.     *)

droid_text(r) == TextsOf(r.blocks, LAMBDA b : TRUE)

(* An error, or a result that is not a success, is "internal".              *)
droid_import_one_shot(log) ==
    IF \/ Len(log) # 3 \/ ~ AllValid(log) \/ log[3].internal
       \/ droid_text(log[2]) = <<>> \/ droid_text(log[3]) = <<>>
    THEN Refused
    ELSE <<Payload(log[1].session, <<[role |-> "user", text |-> droid_text(log[2])],
                                     [role |-> "assistant", text |-> droid_text(log[3])]>>)>>

(* The deltas of a block are joined; blocks stay in the order they began.   *)
droid_coalesced_text(deltas) ==
    LET begun == FirstOfEach(deltas, RecordId)
    IN  FlattenSeq([k \in DOMAIN begun |->
            FlattenSeq([i \in DOMAIN deltas |->
                IF deltas[i].id = begun[k].id THEN droid_text(deltas[i]) ELSE <<>>])])

droid_start == [messages |-> <<>>, pending |-> Missing, blocks |-> <<>>,
                session |-> Missing, bad |-> FALSE]

(* A turn that ended for another reason than completion is "internal".      *)
droid_turn(state, r) ==
    LET reply == droid_coalesced_text(state.blocks)
        done == state.pending # Missing /\ ~ r.internal /\ reply # <<>>
        turn == <<[role |-> "user", text |-> state.pending],
                  [role |-> "assistant", text |-> reply]>>
    IN  IF done THEN state.messages \o turn ELSE state.messages

droid_frame(state, r) ==
    IF r.kind = "header"
    THEN [state EXCEPT !.session = IF r.session # Missing THEN r.session ELSE @,
                       !.bad = @ \/ ~ r.valid]
    ELSE IF r.kind = "message" /\ r.role = "user"
    THEN [state EXCEPT !.pending = droid_text(r), !.blocks = <<>>,
                       !.bad = @ \/ ~ r.valid \/ droid_text(r) = <<>>]
    ELSE IF r.kind = "message" /\ state.pending # Missing
    THEN [state EXCEPT !.blocks = Append(@, r), !.bad = @ \/ ~ r.valid]
    ELSE IF r.kind = "turn_end"
    THEN [state EXCEPT !.messages = droid_turn(state, r), !.pending = Missing,
                       !.blocks = <<>>, !.bad = @ \/ ~ r.valid]
    ELSE state

droid_import_stream(log) ==
    LET after[n \in 0 .. Len(log)] ==
            IF n = 0 THEN droid_start ELSE droid_frame(after[n - 1], log[n])
        stream == after[Len(log)]
    IN  IF stream.bad \/ stream.messages = <<>> THEN Refused
        ELSE <<Payload(stream.session, stream.messages)>>

droid_exec_json(log) ==
    IF log = <<>> \/ Broken(log) THEN Refused
    ELSE IF Head(log).kind = "title" THEN droid_import_one_shot(log)
    ELSE droid_import_stream(log)

-----------------------------------------------------------------------------
(* Gemini CLI: a stored session (with its header) or a shared history.  The *)
(* context that the client puts before the first question is "internal".    *)

gemini_kept(b) == b.type # "tool"
gemini_text(r) == TextsOf(r.blocks, gemini_kept)

gemini_is_session_context(r) == r.role = "user" /\ r.internal

gemini_messages(log) ==
    LET known == Where(MessagesIn(log), LAMBDA r : r.role \in KnownRoles)
        kept == Where(known, LAMBDA r :
                gemini_text(r) # <<>> /\ ~ gemini_is_session_context(r))
    IN  IF \/ ~ AllValid(known)
           \/ \E i \in DOMAIN known : IllFormed(known[i].blocks, gemini_kept)
        THEN Refused ELSE kept

gemini_import_session_document(log) ==
    LET kept == gemini_messages(log)
    IN  IF kept \in {Refused, <<>>} \/ ~ AllStamped(<<Head(log)>> \o kept) THEN Refused
        ELSE <<Payload(Head(log).session, Transcript(kept, gemini_text))>>

gemini_import_shared_history(log) ==
    LET kept == gemini_messages(log)
    IN  IF kept \in {Refused, <<>>} THEN Refused
        ELSE <<Payload(Missing, Transcript(kept, gemini_text))>>

gemini_cli_session_json(log) ==
    IF log = <<>> \/ Broken(log) THEN Refused
    ELSE IF Head(log).kind = "header" THEN gemini_import_session_document(log)
    ELSE gemini_import_shared_history(log)

-----------------------------------------------------------------------------
(* Hermes exports: several sessions, one per line, each a "header" followed *)
(* by its messages.  With a schema override the records whose fields have   *)
(* other names (their "turn" is the alias) are read too.                    *)

hermes_apply_override(log, schema) ==
    [i \in DOMAIN log |->
        IF log[i].turn # Missing /\ log[i].turn = schema
        THEN [log[i] EXCEPT !.turn = Missing] ELSE log[i]]

(* Active, or compacted away by the client; summaries it wrote are left out.*)
hermes_is_visible(r) == ~ r.internal

hermes_text(r) == TextsOf(r.blocks, LAMBDA b : b.type = "text" /\ b.text # NotText)

hermes_payload(session, messages) ==
    LET candidates == Where(messages, LAMBDA r : r.turn = Missing)
        visible == Where(candidates, LAMBDA r :
                   hermes_is_visible(r) /\ r.role \in KnownRoles /\ hermes_text(r) # <<>>)
        kept == FirstOfEach(visible, RecordId)
    IN  IF ~ AllValid(candidates) \/ kept = <<>> THEN Refused
        ELSE Payload(session, Transcript(kept, hermes_text))

(* The messages of the session that starts at record h.                     *)
hermes_lines(log, h) ==
    Selected(log, {j \in DOMAIN log : /\ log[j].kind = "message" /\ h < j
                                      /\ \A i \in h + 1 .. j : log[i].kind # "header"})

hermes_session_jsonl(log, schema) ==
    LET read == hermes_apply_override(log, schema)
        heads == Selected([h \in DOMAIN read |-> h],
                          {h \in DOMAIN read : read[h].kind = "header"})
        payloads == [k \in DOMAIN heads |->
                        hermes_payload(read[heads[k]].session, hermes_lines(read, heads[k]))]
    IN  IF \/ heads = <<>> \/ Broken(read) \/ Head(read).kind # "header"
           \/ \E k \in DOMAIN heads : read[heads[k]].turn # Missing \/ ~ read[heads[k]].valid
           \/ \E j, k \in DOMAIN heads :
                 j # k /\ read[heads[j]].session = read[heads[k]].session
           \/ \E k \in DOMAIN payloads : payloads[k] = Refused
        THEN Refused ELSE payloads

-----------------------------------------------------------------------------
(* OpenCode exports: ignored and synthetic parts are left out, an unknown   *)
(* role refuses the document.                                               *)

opencode_kept(b) == b.type = "text"
opencode_text(r) == TextsOf(r.blocks, opencode_kept)

opencode_session_json(log) ==
    LET messages == SubSeq(log, 2, Len(log))
        kept == Where(messages, LAMBDA r : opencode_text(r) # <<>>)
    IN  IF \/ log = <<>> \/ Broken(log) \/ Head(log).kind # "header"
           \/ ~ AllValid(messages) \/ kept = <<>>
           \/ \E i \in DOMAIN messages : messages[i].role \notin KnownRoles
           \/ \E i \in DOMAIN messages : IllFormed(messages[i].blocks, opencode_kept)
           \/ ~ AllStamped(<<Head(log)>> \o kept)
        THEN Refused ELSE <<Payload(Head(log).session, Transcript(kept, opencode_text))>>

-----------------------------------------------------------------------------
(* DeepSeek shares: every message has a known role and content; the names   *)
(* of attached files follow the text.  The header is the share's envelope,  *)
(* not valid for an account export or another document.                     *)

deepseek_text(r) ==
    TextsOf(r.blocks, LAMBDA b : b.type = "text" /\ b.text # NotText)
      \o TextsOf(r.blocks, LAMBDA b : b.type = "file" /\ b.text # NotText)

deepseek_conversation_data(log) ==
    log # <<>> /\ ~ Broken(log) /\ Head(log).kind = "header" /\ Head(log).valid

deepseek_share_json(log) ==
    LET messages == SubSeq(log, 2, Len(log))
    IN  IF \/ ~ deepseek_conversation_data(log) \/ messages = <<>>
           \/ \E i \in DOMAIN messages : \/ ~ messages[i].valid
                                        \/ messages[i].role \notin KnownRoles
                                        \/ deepseek_text(messages[i]) = <<>>
        THEN Refused ELSE <<Payload(Missing, Transcript(messages, deepseek_text))>>

-----------------------------------------------------------------------------
(* Pasted transcripts: a line with a speaker label starts a message, other  *)
(* lines continue it.                                                       *)

manual_line(messages, r) ==
    LET text == TextsOf(r.blocks, LAMBDA b : TRUE)
    IN  IF messages = Refused \/ (messages = <<>> /\ r.role = Missing /\ text # <<>>)
        THEN Refused
        ELSE IF r.role # Missing THEN Append(messages, [role |-> r.role, text |-> text])
        ELSE IF messages = <<>> THEN messages
        ELSE [messages EXCEPT ![Len(messages)].text = @ \o text]

manual_paste(log) ==
    LET after[n \in 0 .. Len(log)] ==
            IF n = 0 THEN <<>> ELSE manual_line(after[n - 1], log[n])
        messages == after[Len(log)]
    IN  IF messages \in {Refused, <<>>} \/ \E i \in DOMAIN messages : messages[i].text = <<>>
        THEN Refused ELSE <<Payload(Missing, messages)>>

-----------------------------------------------------------------------------
(* Microsoft Copilot activity: rows of several conversations ("parent"),    *)
(* sorted by their time ("seq") and then by their place in the file.        *)

csv_text(r) == TextsOf(r.blocks, LAMBDA b : TRUE)

csv_rows(rows, conversation) ==
    Arranged(rows, {i \in DOMAIN rows : rows[i].parent = conversation},
             LAMBDA j, i : \/ rows[j].seq < rows[i].seq
                           \/ rows[j].seq = rows[i].seq /\ j <= i)

copilot_activity_csv(log) ==
    LET rows == Where(log, LAMBDA r : csv_text(r) # <<>>)
        conversations == FirstOfEach(rows, LAMBDA r : r.parent)
    IN  IF \/ Broken(log) \/ rows = <<>> \/ ~ AllStamped(rows)
           \/ \E i \in DOMAIN log : log[i].parent = Missing \/ log[i].role \notin KnownRoles
        THEN Refused
        ELSE [k \in DOMAIN conversations |->
                 Payload(Missing, Transcript(csv_rows(rows, conversations[k].parent), csv_text))]

-----------------------------------------------------------------------------
(* The registry.                                                            *)

Formats == {"claude-code", "copilot-cli", "codex", "deepseek-harness", "pi", "qwen",
            "droid", "gemini", "hermes", "opencode", "deepseek-share", "manual", "csv"}

(* Only the Hermes importer has a schema that overrides may follow.         *)
SchemaFormats == {"hermes"}

get_importer(format, log, schema) ==
    CASE format = "claude-code"      -> claude_code_session_jsonl(log)
      [] format = "copilot-cli"      -> copilot_cli_events_jsonl(log)
      [] format = "codex"            -> codex_rollout_jsonl(log)
      [] format = "deepseek-harness" -> deepseek_harness_session_jsonl(log)
      [] format = "pi"               -> pi_session_jsonl(log)
      [] format = "qwen"             -> qwen_code_session_export(log)
      [] format = "droid"            -> droid_exec_json(log)
      [] format = "gemini"           -> gemini_cli_session_json(log)
      [] format = "hermes"           -> hermes_session_jsonl(log, schema)
      [] format = "opencode"         -> opencode_session_json(log)
      [] format = "deepseek-share"   -> deepseek_share_json(log)
      [] format = "manual"           -> manual_paste(log)
      [] format = "csv"              -> copilot_activity_csv(log)

import_text_with_schema(format, log, schema) ==
    IF schema # Missing /\ format \notin SchemaFormats THEN Refused
    ELSE get_importer(format, log, schema)
=============================================================================
