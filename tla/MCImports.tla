------------------------------ MODULE MCImports ------------------------------
(* Small instances of the imports.                                          *)
EXTENDS Imports

CONSTANTS a, b, x, y, z, s1, s2, p1, p2

Rec == [kind |-> "message", role |-> "user", blocks |-> <<>>, id |-> Missing,
        session |-> Missing, parent |-> Missing, turn |-> Missing, internal |-> FALSE,
        valid |-> TRUE, stamped |-> TRUE, seq |-> Missing]
T(text) == <<[type |-> "text", text |-> text]>>
Says(role, text) == [Rec EXCEPT !.role = role, !.blocks = T(text)]
Header(session, time) == [Rec EXCEPT !.kind = "header", !.role = Missing,
                                     !.session = session, !.seq = time]
Kind(kind) == [Rec EXCEPT !.kind = kind, !.role = Missing]
TornLine == Kind("broken")
Internal(r) == [r EXCEPT !.internal = TRUE]
WithId(r, id) == [r EXCEPT !.id = id]
ToolOnly == [Rec EXCEPT !.role = "assistant",
                        !.blocks = <<[type |-> "tool", text |-> a]>> \o T(Blank)]
Reply == Says("assistant", b)

First ==
  [f \in Formats |->
    CASE f = "claude-code" -> {[WithId(Says("user", a), x) EXCEPT !.session = s1, !.seq = 1]}
      [] f \in {"codex", "copilot-cli"} -> {Header(s1, 1)}
      [] f \in {"deepseek-harness", "opencode"} -> {Header(s1, Missing)}
      [] f = "hermes" -> {Header(s1, Missing), [Header(s1, Missing) EXCEPT !.turn = x]}
      [] f = "pi" -> {Header(s1, 1)}
      [] f = "qwen" -> {Header(s1, Missing), WithId(Says("user", a), x)}
      [] f = "droid" -> {Header(s1, Missing), Says("user", a), [Kind("title") EXCEPT !.session = s1]}
      [] f = "gemini" -> {Header(s1, Missing), Says("user", a), Internal(Says("user", a))}
      [] f = "deepseek-share" -> {Kind("header"), [Kind("header") EXCEPT !.valid = FALSE]}
      [] f = "manual" -> {Says("user", a), Says(Missing, Blank), Says(Missing, a)}
      [] f = "csv" -> {[Says("user", a) EXCEPT !.parent = x, !.seq = 1],
                       [Says("user", Blank) EXCEPT !.parent = y, !.seq = 1]}]

Later ==
  [f \in Formats |->
    CASE f = "claude-code" ->
           {WithId(Says("user", a), x), WithId(ToolOnly, y), WithId(Reply, y), TornLine}
      [] f = "copilot-cli" ->
           {WithId(Says("user", a), x), [Reply EXCEPT !.turn = x], Internal(Says("user", b)),
            Header(s1, 2), Kind("turn_end"), TornLine}
      [] f = "codex" -> {[Says("user", a) EXCEPT !.turn = x], [Says("user", b) EXCEPT !.turn = x],
                         Reply, TornLine}
      [] f = "deepseek-harness" ->
           {[WithId(Says("user", a), x) EXCEPT !.seq = 0], [Reply EXCEPT !.seq = 1],
            Internal(Says("user", b)), WithId(Reply, x), WithId(ToolOnly, x), Header(s2, Missing)}
      [] f = "pi" -> {WithId(Says("user", a), x),
                      [WithId(Reply, y) EXCEPT !.parent = x],
                      [WithId(Says("user", b), z) EXCEPT !.parent = x],
                      [WithId(Says("user", b), z) EXCEPT !.parent = y], TornLine}
      [] f = "qwen" -> {WithId(Reply, x), WithId(ToolOnly, y), WithId(Says("user", b), y),
                        WithId(Says("user", Blank), x), Header(s2, Missing)}
      [] f = "droid" -> {Says("user", a), WithId(Reply, x), WithId(Says("assistant", a), y),
                         Kind("turn_end"), Internal(Kind("turn_end"))}
      [] f = "gemini" -> {Reply, Internal(Says("user", a)), ToolOnly, Says("user", NotText)}
      [] f = "hermes" -> {Header(s2, Missing), WithId(Says("user", a), x), WithId(Reply, x),
                          Internal(Reply), [Reply EXCEPT !.turn = x]}
      [] f = "opencode" -> {Says("user", a), Reply, ToolOnly, Says(Missing, a)}
      [] f = "deepseek-share" ->
           {Says("user", a), Says("assistant", Blank),
            [Reply EXCEPT !.blocks = <<[type |-> "file", text |-> b]>> \o T(a)]}
      [] f = "manual" -> {Says("user", Blank), Says(Missing, b), Reply}
      [] f = "csv" -> {[Reply EXCEPT !.parent = x, !.seq = 0], [Reply EXCEPT !.parent = y, !.seq = 1],
                       [Says("user", b) EXCEPT !.seq = 1]}]

File(records) == [log |-> records, mtime |-> 0, version |-> 0, archived |-> FALSE]

(* An open session, and another one that was finished long ago and started  *)
(* before or after it.                                                      *)
Begun ==
  [f \in Formats |->
    CASE f = "codex" -> <<Header(s1, 1), [Says("user", a) EXCEPT !.turn = x]>>
      [] f = "pi" -> <<Header(s1, 1), WithId(Says("user", a), x)>>
      [] f = "copilot-cli" -> <<Header(s1, 1), WithId(Says("user", a), x)>>
      [] OTHER -> <<>>]
Finished ==
  [f \in Formats |->
    CASE f = "claude-code" -> <<[Says("user", b) EXCEPT !.session = s2, !.seq = 0]>>
      [] f = "copilot-cli" -> <<Header(s2, 1), Says("user", b)>>
      [] f = "codex" -> <<Header(s2, 2), Says("user", b), Reply>>
      [] f = "pi" -> <<Kind("title"), Header(s2, 0), WithId(Says("user", b), x)>>
      [] OTHER -> <<>>]
Others == [f \in Formats |-> {[p \in Paths |-> File(IF p = p1 THEN Begun[f] ELSE Finished[f])]}]

Plain == [multipart |-> TRUE, declared |-> Missing, size |-> 2,
          fields |-> <<"parser", "file">>, known |-> TRUE, media |-> TRUE,
          fileSize |-> 1, utf8 |-> TRUE, schemaSize |-> 0, schemaBounded |-> TRUE,
          alias |-> Missing]
WithSchema == [Plain EXCEPT !.fields = <<"parser", "schema", "file">>,
                            !.schemaSize = 1, !.alias = x]
Posted == {Plain, WithSchema, [WithSchema EXCEPT !.schemaBounded = FALSE],
           [Plain EXCEPT !.declared = 1, !.size = 3], [Plain EXCEPT !.fileSize = 2],
           [Plain EXCEPT !.fields = <<"file", "parser", "file">>]}

Lengths == [f \in Formats |-> IF f = "claude-code" THEN 3 ELSE 4]
=============================================================================
