------------------------------- MODULE Handlers -----------------------------
(***************************************************************************)
(* What the gated operations of the application have of their own: the     *)
(* kind of action they ask for, the targets they name, and what they do    *)
(* once they may.  Everything else is the same in each of them, and is in  *)
(* ActionGate.                                                             *)
(***************************************************************************)
EXTENDS Naturals, Sequences

CONSTANTS
  Domains,   \* domains that targets are in and policies are about
  NoDomain   \* a target in which extract_target_domain finds none

ASSUME DomainAssumption == NoDomain \notin Domains

Kinds == {"FileRead", "FileWrite", "BrowserNav", "NetworkCall", "MessageSend",
          "SkillInstall", "SkillExecute"}

\* PermissionEngine::needs_confirmation
Dangerous(kind) == kind \notin {"FileRead", "SkillExecute"}

\* extract_target_domain: a URL has a domain, and so has, to this function, any
\* other text with a dot in it.
Url  == Domains
Text == Domains \union {NoDomain}

\* kind: the ActionKind.  targets: the domains its target may have.  mode: it
\* reads the mode after the gate.  setup: after the gate it may find that it is
\* not configured.  effects: what it does, in order, each able to fail, along its
\* longest course.  soft: the effect whose refusal is a result, audited as
\* "error", and not an error of the call (0: none is).  pathed: the client names
\* the local path that is read or written.  rooted: that path must be under the
\* allowed roots unless the mode is elevated.
Handler(kind, targets, effects) ==
  [kind |-> kind, targets |-> targets, effects |-> effects, mode |-> TRUE,
   setup |-> FALSE, soft |-> 0, pathed |-> FALSE, rooted |-> FALSE]

Configured(h) == [h EXCEPT !.setup = TRUE]
Soft(h, i)    == [h EXCEPT !.soft = i]
Pathed(h)     == [h EXCEPT !.pathed = TRUE]
Rooted(h)     == [h EXCEPT !.pathed = TRUE, !.rooted = TRUE]
Modeless(h)   == [h EXCEPT !.mode = FALSE]

-----------------------------------------------------------------------------
(* The operations.                                                         *)

run_skill        == Modeless(Handler("SkillExecute", Text, <<"skill">>))
api_run_skill    == Modeless(Handler("SkillExecute", Text, <<"skill">>))
create_skill     == Modeless(Handler("SkillInstall", Text, <<"template">>))
api_create_skill == Modeless(Handler("SkillInstall", Text, <<"template">>))

send_message == Soft(Configured(Handler("MessageSend", Text, <<"message">>)), 1)

fs_read  == Rooted(Handler("FileRead", Text, <<"read">>))
fs_write == Rooted(Handler("FileWrite", Text, <<"write">>))

browser_navigate == Soft(Handler("BrowserNav", Text, <<"page">>), 1)
call_mcp_tool    == Soft(Configured(Handler("NetworkCall", Text, <<"tool">>)), 1)

\* The workbook is saved where the client says, unchecked.
office_create_excel      == Pathed(Handler("FileWrite", Text, <<"workbook">>))
office_upload_graph_file == Soft(Handler("NetworkCall", Text, <<"upload">>), 1)

memory_store ==
  Modeless(Configured(Handler("FileWrite", {NoDomain}, <<"memory">>)))

mail_inbox_unreplied ==
  Configured(Handler("NetworkCall", Url, <<"list", "details">>))

\* A source that cannot be read is only missing from the report (here its reading
\* may also end the call, as every effect may: a superset); an artifact that
\* cannot be registered returns at once.  The artifact is a file in the directory
\* of the project the client names, unchecked.
research_create_job ==
  Pathed(Configured(Handler("NetworkCall", Url,
                            <<"job", "sources", "artifact", "report">>)))

\* The file is written where the client says, unchecked, or where it always is.
media_generate ==
  Pathed(Handler("NetworkCall", Url, <<"media", "download", "file", "artifact">>))

connectors_google_sheets_append ==
  Configured(Handler("NetworkCall", Url, <<"rows">>))
connectors_google_drive_create ==
  Configured(Handler("NetworkCall", Url, <<"file">>))
connectors_notion_search ==
  Configured(Handler("NetworkCall", Url, <<"search">>))
connectors_notion_page_create ==
  Configured(Handler("NetworkCall", Url, <<"schema", "page">>))
connectors_slack_post ==
  Configured(Handler("NetworkCall", Url, <<"post">>))
connectors_slack_history ==
  Configured(Handler("NetworkCall", Url, <<"history">>))

web_search == Handler("NetworkCall", Url, <<"search">>)

AllHandlers ==
  {run_skill, api_run_skill, create_skill, api_create_skill, send_message,
   fs_read, fs_write, browser_navigate, call_mcp_tool, office_create_excel,
   office_upload_graph_file, memory_store, mail_inbox_unreplied,
   research_create_job, media_generate, connectors_google_sheets_append,
   connectors_google_drive_create, connectors_notion_search,
   connectors_notion_page_create, connectors_slack_post,
   connectors_slack_history, web_search}
=============================================================================
