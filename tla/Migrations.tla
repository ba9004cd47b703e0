----------------------------- MODULE Migrations -----------------------------
(***************************************************************************)
(* Opening the database: the schema steps newer than user_version, run one *)
(* statement after the other with no transaction around them, the stamp of *)
(* the version at the end, and the import of the stores that came before   *)
(* SQLite.  The program may die between any two statements.                *)
(***************************************************************************)
EXTENDS Naturals, Sequences

CONSTANTS
  Origin,  \* the versions databases are found with; 0 is a new one
  MaxCut   \* bound on the deaths of the program

ASSUME MigrationAssumption == Origin \subseteq Nat /\ MaxCut \in Nat

SchemaVersion == 18

VARIABLES
  upgrade,     \* closed, migrating, stamped, serving, or refused: open returned an error
  place,       \* the statement that runs next: its step, and its line there
  userVersion, \* the pragma
  schema,      \* tables and added columns
  full,        \* tables that hold the rows written before the upgrade
  ledgerKey,   \* a dispatch key: old or new, on its way in memory, or gone
  imported,    \* the legacyImported key of meta
  settings,    \* config_blob: nothing, what was imported, or what the user saved
  edited,      \* the user has saved a configuration
  origin,      \* the version this database was found with
  cuts         \* deaths so far

upgradeVars == <<upgrade, place, userVersion, schema, full, ledgerKey, imported, settings,
                 edited, origin, cuts>>

-----------------------------------------------------------------------------
(* Statements.  Each is committed by itself; "table" fails on a table that  *)
(* is there, "column" on a column that is there or a table that is not,     *)
(* and a BEGIN..COMMIT batch is one statement.                              *)

Statement(do, of, to) == [do |-> do, of |-> of, to |-> to]
IfMissing(t) == Statement("tableIfMissing", t, t)
Table(t) == Statement("table", t, t)
Column(t, c) == Statement("column", t, c)
RenamesColumn(t) == Statement("renameKind", t, t)
Rebuild(t, new) ==
  <<Table(new), Statement("copy", t, new), Statement("drop", t, t),
    Statement("rename", new, t)>>

Foundation ==
  <<IfMissing("meta"), IfMissing("config_blob"), IfMissing("tracked_pr"),
    IfMissing("dispatch_key"), IfMissing("dispatch_event"), IfMissing("review_session"),
    IfMissing("review_history_item")>>
CommentUrl == <<Column("review_session", "comment_url")>>
EngineKind == <<Column("review_session", "engine_kind")>>
InboxTable == <<IfMissing("inbox_event")>>
OutboxTable == <<IfMissing("action_outbox")>>
ClaimTable == <<IfMissing("outbox_review_claim")>>
ClaimCascade == Rebuild("outbox_review_claim", "outbox_review_claim_new")
TerminalAudit == <<IfMissing("terminal_audit")>>
CandidateColumns ==
  <<Column("inbox_event", "candidate_json"), Column("action_outbox", "dedupe_key")>>
RuleTables == <<IfMissing("rule_match"), IfMissing("rule_match_action")>>
GateAudit == <<IfMissing("remote_access_audit")>>
MessagingTable == <<IfMissing("messaging_event")>>
ReplyColumns ==
  <<Column("messaging_event", "reply_outbox_id"), Column("messaging_event", "reply_kind"),
    Column("messaging_event", "reply_summary")>>
WorkflowTable == <<IfMissing("workflow_instance")>>
TypedEnvelope == <<Statement("envelope", "review_session", "terminal_outcome")>>
HumanInputTable == <<Table("human_input_request")>>
AnswerSource == Rebuild("human_input_request", "human_input_request_v17")
KeyRenames ==
  <<RenamesColumn("review_session"), RenamesColumn("outbox_review_claim"),
    RenamesColumn("dispatch_event"), RenamesColumn("tracked_pr")>>
DispatchKeys ==
  <<Statement("deleteKey", "dispatch_key", "dispatch_key"),
    Statement("insertKey", "dispatch_key", "dispatch_key")>>
\* The payloads row by row, which may be done twice, and then the table in one batch.
OutboxPayloads == <<Statement("outboxKind", "action_outbox", "runSkill")>>
SkillKeys == KeyRenames \o DispatchKeys \o OutboxPayloads

SchemaStep ==
  <<Foundation, CommentUrl, EngineKind, InboxTable, OutboxTable, ClaimTable, ClaimCascade,
    TerminalAudit, CandidateColumns, RuleTables, GateAudit, MessagingTable, ReplyColumns,
    WorkflowTable, TypedEnvelope, HumanInputTable, AnswerSource, SkillKeys>>

\* run_migrations goes through the steps newer than a version, each from its start.
Begin(v) == [step |-> v + 1, line |-> 1]
Through == Begin(SchemaVersion)
Now(p) == SchemaStep[p.step][p.line]
After(p) ==
  IF p.line < Len(SchemaStep[p.step]) THEN [p EXCEPT !.line = @ + 1] ELSE Begin(p.step)

\* A table is named by itself, a column by its table.
Named(t, c) == <<t, c>>
Fails(s) ==
  CASE s.do = "table" -> Named(s.of, s.of) \in schema
    [] s.do \in {"column", "envelope"} ->
         Named(s.of, s.of) \notin schema \/ Named(s.of, s.to) \in schema
    [] s.do \in {"copy", "drop", "rename"} -> Named(s.of, s.of) \notin schema
    [] OTHER -> FALSE

\* What a statement adds to the tables and columns, and what it takes away.
Adds(s) ==
  CASE s.do \in {"tableIfMissing", "table", "column", "outboxKind"} -> {Named(s.of, s.to)}
    [] s.do = "envelope" ->
         {Named(s.of, s.to), Named("review_receipt_workflow", "review_receipt_workflow")}
    [] s.do = "rename" -> {Named(s.to, s.to)}
    [] s.do = "renameKind" -> {Named(s.of, "skill_key")}
    [] OTHER -> {}
Removes(s, x) == s.do \in {"drop", "rename"} /\ x[1] = s.of
Effect(s, xs) == {x \in xs : ~Removes(s, x)} \cup Adds(s)

\* The schema of a version that was reached without interruption: what some statement
\* of its steps added and no later one took away.
Places ==
  UNION {{[step |-> v, line |-> n] : n \in DOMAIN SchemaStep[v]} : v \in 1..SchemaVersion}
Earlier(p, q) == p.step < q.step \/ (p.step = q.step /\ p.line < q.line)
SchemaOf ==
  [v \in 0..SchemaVersion |->
     {x \in UNION {Adds(Now(p)) : p \in Places} :
        \E p \in Places :
          /\ p.step <= v /\ x \in Adds(Now(p))
          /\ \A q \in Places : q.step <= v /\ Earlier(p, q) => ~Removes(Now(q), x)}]

-----------------------------------------------------------------------------
UpgradeTypeOK ==
  /\ upgrade \in {"closed", "migrating", "stamped", "serving", "refused"}
  /\ place \in Places \cup {Through}
  /\ userVersion \in Nat /\ origin \in Origin /\ cuts \in 0..MaxCut
  /\ \A x \in schema : x = Named(x[1], x[2])
  /\ full \subseteq {x[1] : x \in schema}
  /\ ledgerKey \in {"none", "old", "moving", "gone", "new"}
  /\ imported \in BOOLEAN /\ edited \in BOOLEAN /\ settings \in {"none", "legacy", "saved"}

\* A database as an uninterrupted program of some version left it, or none yet; what
\* came before SQLite is still on the disk.  One of a newer program has tables that
\* this one does not know.
SchemaKnown(v) == SchemaOf[IF v > SchemaVersion THEN SchemaVersion ELSE v]
UpgradeInit ==
  /\ upgrade = "closed" /\ place = Through /\ cuts = 0
  /\ origin \in Origin /\ userVersion = origin /\ schema = SchemaKnown(origin)
  /\ full = {x[1] : x \in schema}
  /\ ledgerKey = (IF origin = 0 THEN "none" ELSE IF origin < SchemaVersion THEN "old" ELSE "new")
  /\ imported = (origin > 0) /\ edited = (origin > 0)
  /\ settings = (IF origin = 0 THEN "none" ELSE "saved")

\* run_migrations: a database of a newer program is refused, untouched.
Open ==
  /\ upgrade = "closed"
  /\ IF userVersion > SchemaVersion
       THEN upgrade' = "refused" /\ UNCHANGED place
       ELSE upgrade' = "migrating" /\ place' = Begin(userVersion)
  /\ UNCHANGED <<userVersion, schema, full, ledgerKey, imported, settings, edited, origin, cuts>>

RunStatement ==
  /\ upgrade = "migrating" /\ place # Through /\ ~Fails(Now(place))
  /\ LET s == Now(place) IN
     /\ place' = After(place) /\ schema' = Effect(s, schema)
     /\ full' = CASE s.do = "copy" /\ s.of \in full -> full \cup {s.to}
                  [] s.do = "drop" -> full \ {s.of}
                  [] s.do = "rename" /\ s.of \in full -> (full \ {s.of}) \cup {s.to}
                  [] OTHER -> full
     /\ ledgerKey' = CASE s.do = "deleteKey" /\ ledgerKey = "old" -> "moving"
                       [] s.do = "insertKey" /\ ledgerKey = "moving" -> "new"
                       [] OTHER -> ledgerKey
  /\ UNCHANGED <<upgrade, userVersion, imported, settings, edited, origin, cuts>>

\* The error ends run_migrations, Database::open, the setup of the program, and it.
Refuse ==
  /\ upgrade = "migrating" /\ place # Through /\ Fails(Now(place))
  /\ upgrade' = "refused" /\ place' = Through
  /\ UNCHANGED <<userVersion, schema, full, ledgerKey, imported, settings, edited, origin, cuts>>

Stamp ==
  /\ upgrade = "migrating" /\ place = Through
  /\ upgrade' = "stamped" /\ userVersion' = SchemaVersion
  /\ UNCHANGED <<place, schema, full, ledgerKey, imported, settings, edited, origin, cuts>>

\* Mutant: every database that was upgraded is imported.
ImportAfterUpgrade ==
  /\ upgrade = "stamped" /\ upgrade' = "serving" /\ imported' = TRUE
  /\ settings' = (IF origin = SchemaVersion THEN settings ELSE "legacy")
  /\ UNCHANGED <<place, userVersion, schema, full, ledgerKey, edited, origin, cuts>>

\* import_legacy_stores: once, in one transaction with its guard, before any command.
Import ==
  /\ upgrade = "stamped" /\ upgrade' = "serving" /\ imported' = TRUE
  /\ settings' = (IF imported THEN settings ELSE "legacy")
  /\ UNCHANGED <<place, userVersion, schema, full, ledgerKey, edited, origin, cuts>>

SaveSettings ==
  /\ upgrade = "serving" /\ settings' = "saved" /\ edited' = TRUE
  /\ UNCHANGED <<upgrade, place, userVersion, schema, full, ledgerKey, imported, origin, cuts>>

\* The program dies, or is closed; the user starts it again.
Cut ==
  /\ upgrade # "closed" /\ cuts < MaxCut /\ cuts' = cuts + 1
  /\ upgrade' = "closed" /\ place' = Through
  /\ ledgerKey' = (IF ledgerKey = "moving" THEN "gone" ELSE ledgerKey)
  /\ UNCHANGED <<userVersion, schema, full, imported, settings, edited, origin>>

UpgradeNext == Open \/ RunStatement \/ Refuse \/ Stamp \/ Import \/ SaveSettings \/ Cut

-----------------------------------------------------------------------------
\* Wherever an upgrade is cut: a database stamped with the current version has the
\* schema of an uninterrupted upgrade; no row of a table that is rebuilt is ever in
\* neither the table nor its copy; a configuration that was saved is not overwritten by
\* another import; a database of a newer program is left alone (run_migrations, the
\* rebuilds of v7 and v17, import_legacy_into_db).
CopyOf(t) ==
  CASE t = "outbox_review_claim" -> "outbox_review_claim_new"
    [] t = "human_input_request" -> "human_input_request_v17"
    [] OTHER -> t
UpgradeIsSound ==
  /\ userVersion = SchemaVersion => schema = SchemaOf[SchemaVersion]
  /\ \A x \in SchemaKnown(origin) : x[1] \in full \/ CopyOf(x[1]) \in full
  /\ edited => settings = "saved"
  /\ origin > SchemaVersion => upgrade \in {"closed", "refused"} /\ userVersion = origin

\* "The migration transaction" (Database::open): an upgrade that is cut leaves what can be
\* opened again and has lost nothing of the ledger of reviews.
UpgradeIsTransaction ==
  /\ origin <= SchemaVersion => upgrade # "refused"
  /\ ledgerKey # "gone"
=============================================================================
