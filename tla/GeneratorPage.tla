----------------------------- MODULE GeneratorPage -----------------------------
(***************************************************************************)
(* The generator page: a list of a schema's tables, from which the user    *)
(* picks those to generate code for, and the form that asks for it.  The   *)
(* list is a jqGrid: it loads one answer at a time, drops a reload that    *)
(* comes while it is loading, and keeps what is picked apart from the rows *)
(* it shows.  The filter on names and the grid's pages only decide which   *)
(* of a schema's tables an answer holds.                                   *)
(***************************************************************************)
EXTENDS FiniteSets

CONSTANTS
    Schema,     \* schemas the server offers
    Table,      \* names of tables
    Has,        \* the tables of each schema
    NoSchema,   \* the empty name the page starts with
    Idle,       \* no list is being loaded
    Undefined   \* what getSelectedRows returns when nothing is picked

ASSUME GeneratorConstantsOK ==
    /\ Has \in [Schema \cup {NoSchema} -> SUBSET Table] /\ Has[NoSchema] = {}
    /\ NoSchema \notin Schema /\ Idle \notin Schema \cup {NoSchema}
    /\ \A picked \in SUBSET Table : Undefined # picked

VARIABLES
    databases,  \* the list of schemas: "loading", "loaded" or "missing"
    schema,     \* q.schemaName
    request,    \* the schema whose tables are being loaded, or Idle
    rows,       \* the tables the grid shows
    selected,   \* its selarrrow; selrow is set when this is not empty
    tables,     \* what the form lists as tables to generate
    showList,   \* the list is displayed, not the form
    alert,      \* a message box covers the pages until it is closed
    astray      \* history: see OwnTables

pageVars == <<databases, schema, request, rows, selected, tables, showList, astray>>

GeneratorTypeOK ==
    /\ databases \in {"loading", "loaded", "missing"}
    /\ schema \in Schema \cup {NoSchema} /\ request \in Schema \cup {NoSchema, Idle}
    /\ rows \subseteq Table /\ selected \subseteq Table
    /\ tables \in {Undefined} \cup SUBSET Table
    /\ showList \in BOOLEAN /\ alert \in BOOLEAN /\ astray \in BOOLEAN

Blank(dbs, loading) ==
    /\ databases' = dbs /\ schema' = NoSchema /\ request' = loading
    /\ rows' = {} /\ selected' = {} /\ tables' = {} /\ showList' = TRUE /\ astray' = FALSE

(* The page has been loaded and asks for the schemas and for a first list. *)
Load == Blank("loading", NoSchema)

(* The page is gone, with the answers it was waiting for. *)
Unload == Blank("missing", Idle)

-------------------------------------------------------------------------------
(* The grid is told to reload: it forgets what is picked, and asks for the *)
(* tables of this schema unless it is still loading others.                *)
ReloadGrid(name) ==
    /\ selected' = {}
    /\ request' = IF request = Idle THEN name ELSE request
    /\ astray' = (request \notin {Idle, name})

(* The schemas arrive; a refusal is reported, a failed call is not. *)
DatabasesArrive ==
    /\ databases = "loading"
    /\ \/ databases' = "loaded" /\ UNCHANGED alert
       \/ databases' = "missing" /\ alert' \in {alert, TRUE}
    /\ UNCHANGED <<schema, request, rows, selected, tables, showList, astray>>

(* The list arrives and replaces the rows, but not what is picked. *)
RowsArrive ==
    /\ request # Idle /\ request' = Idle
    /\ rows' \in SUBSET Has[request]
    /\ UNCHANGED <<databases, schema, selected, tables, showList, alert, astray>>

(* The list cannot be loaded: the old rows stay. *)
RowsFail ==
    /\ request # Idle /\ request' = Idle /\ astray' = TRUE
    /\ UNCHANGED <<databases, schema, rows, selected, tables, showList, alert>>

(* The user works on the list: it is displayed and nothing covers it. *)
OnList == showList /\ ~alert

(* Mutant of ChooseSchema: choosing a schema does not query its tables. *)
OnlyChoose(name) ==
    /\ OnList /\ databases = "loaded" /\ name # schema
    /\ schema' = name
    /\ UNCHANGED <<databases, request, rows, selected, tables, showList, alert, astray>>

ChooseSchema(name) ==
    /\ OnList /\ databases = "loaded" /\ name # schema
    /\ schema' = name /\ ReloadGrid(name)
    /\ UNCHANGED <<databases, rows, tables, showList, alert>>

Query ==
    /\ OnList /\ ReloadGrid(schema)
    /\ UNCHANGED <<databases, schema, rows, tables, showList, alert>>

(* A click on a row picks its table or takes it back. *)
Pick(t) ==
    /\ OnList /\ t \in rows
    /\ selected' = IF t \in selected THEN selected \ {t} ELSE selected \cup {t}
    /\ astray' = (astray \/ request # Idle)
    /\ UNCHANGED <<databases, schema, request, rows, tables, showList, alert>>

getSelectedRows == IF selected = {} THEN Undefined ELSE selected

(* Mutant of ConfigGen: the form is shown before the rows are looked at. *)
ShowForm ==
    /\ OnList
    /\ tables' = getSelectedRows /\ showList' = FALSE
    /\ alert' = (selected = {})
    /\ UNCHANGED <<databases, schema, request, rows, selected, astray>>

(* To the form, with what is picked. *)
ConfigGen ==
    /\ OnList
    /\ tables' = getSelectedRows
    /\ showList' = (selected = {}) /\ alert' = (selected = {})
    /\ UNCHANGED <<databases, schema, request, rows, selected, astray>>

OnForm == ~showList /\ ~alert

(* The form is sent back for a blank field, or for nothing picked. *)
Refuse ==
    /\ OnForm /\ alert' = TRUE
    /\ UNCHANGED pageVars

(* The form is good: the frame is to load the code of what is picked. *)
Generate ==
    /\ OnForm /\ selected # {}
    /\ UNCHANGED <<pageVars, alert>>

(* Back to the list, which is loaded anew. *)
Return ==
    /\ OnForm
    /\ showList' = TRUE /\ ReloadGrid(schema)
    /\ UNCHANGED <<databases, schema, rows, tables, alert>>

CloseAlert == alert /\ alert' = FALSE /\ UNCHANGED pageVars

-------------------------------------------------------------------------------
(* The form lists the tables it will ask for: generator reads the grid     *)
(* again, configGen read it for the form.                                  *)
FormListsSelection == ~showList => tables = selected /\ selected # {}

(* What is picked belongs to the schema that is sent with it, unless the   *)
(* grid dropped the reload for that schema, failed to load it, or had not  *)
(* yet loaded it when the rows were picked.                                *)
OwnTables == ~astray => selected \subseteq Has[schema]
===============================================================================
