----------------------------- MODULE Templates -----------------------------
(***************************************************************************)
(* Document templates and their styles: how documents come to a template  *)
(* (create_doc, import_create in src/fiduswriter/document/views.py), how   *)
(* users and the staff make, copy, save and delete templates               *)
(* (src/fiduswriter/user_template_manager/views.py), the removal of a      *)
(* user's template with its last document (document/signals.py), and the   *)
(* styles (style/views.py).                                                *)
(*                                                                         *)
(* Each request is a few statements of its own; those of two workers mix.  *)
(* A template is the row, its owner and its import id; titles and contents *)
(* make no difference here, nor do export templates.                       *)
(***************************************************************************)
EXTENDS Integers, FiniteSets

CONSTANTS Workers,         \* processes that serve requests
          Authors,         \* users
          ImportIds,       \* import ids that documents are imported with
          MaxTemplates,    \* bound on the templates made
          MaxDocuments,    \* bound on the documents made
          MaxStyles,       \* bound on the styles made
          MaxRequests      \* bound on the requests

ASSUME TemplatesAssumption ==
    /\ {MaxTemplates, MaxStyles} \subseteq Nat \ {0} /\ {MaxDocuments, MaxRequests} \subseteq Nat
    /\ "all" \notin Authors

VARIABLES
    template,    \* the templates: owner and import id of each
    style,       \* the styles: the template of each
    document,    \* the documents: owner and template of each
    readers,     \* documents everybody has a right to
    task,        \* the rest of the request each worker serves
    last,        \* the number of the last template, style and document made
    begun,      \* how many requests were begun
    ended,       \* history: documents deleted by their owner
    used,        \* history: templates that had a document
    styled,      \* history: templates that had a style
    collided     \* history: did two requests cross at a template?

templateVars == <<template, style, document, readers, last, task, begun, ended, used, styled, collided>>

NoTask == [at |-> "none"]
OtherId == "other"      \* an import id nothing is imported with

\* Rows are numbered in the order of their creation; the table is a function on those
\* that exist.
With(table, i, row) == [x \in DOMAIN table \cup {i} |-> IF x = i THEN row ELSE table[x]]
Without(table, is) == [x \in DOMAIN table \ is |-> table[x]]
NextRow(kind) == last[kind] + 1
Count(kind, n) == last' = [last EXCEPT ![kind] = @ + n]

\* One template of the server's, with a style.
TemplatesInit ==
    /\ template = <<[owner |-> "all", import |-> OtherId]>>
    /\ style = <<1>>
    /\ document = <<>> /\ readers = {}
    /\ last = [template |-> 1, style |-> 1, document |-> 0]
    /\ task = [w \in Workers |-> NoTask] /\ begun = 0
    /\ ended = {} /\ used = {} /\ styled = {1} /\ collided = FALSE

\* What goes with a document to its editor.
TemplateOf(d) == document[d].template
StylesOf(t) == {s \in DOMAIN style : style[s] = t}
DocumentsOf(t) == {d \in DOMAIN document : TemplateOf(d) = t}
MayUse(u, t) == t \in DOMAIN template /\ template[t].owner \in {u, "all"}

-----------------------------------------------------------------------------
(* Requests.                                                               *)

Begin(w, next) ==
    /\ task[w] = NoTask /\ begun < MaxRequests
    /\ begun' = begun + 1
    /\ task' = [task EXCEPT ![w] = next]

Continue(w, next) == task' = [task EXCEPT ![w] = next] /\ UNCHANGED begun
End(w) == Continue(w, NoTask)

tables == <<template, style, document, readers, last>>
past == <<ended, used, styled, collided>>

\* Somebody else is about to do the same to t, or to remove it.
OthersAt(w, places, t) ==
    \E v \in Workers \ {w} : task[v].at \in places /\ task[v].template = t

\* The row of a template goes, and with it (CASCADE) its styles and its documents.  One that
\* is saved comes back, and so does a style of it: also one that is just being deleted.
RemoveRow(w, t) ==
    /\ template' = Without(template, {t})
    /\ style' = Without(style, StylesOf(t))
    /\ used' = used \ {t} /\ styled' = styled \ {t}
    /\ collided' = (collided \/ OthersAt(w, {"unstyle"}, t))

-----------------------------------------------------------------------------
(* Documents.                                                              *)

\* create_doc: the template is looked up ...
CreateDoc(w, u) ==
    /\ \E t \in DOMAIN template :
        /\ MayUse(u, t)
        /\ Begin(w, [at |-> "insert", user |-> u, template |-> t])
    /\ UNCHANGED <<tables, past>>

\* import_create: a template with the import id, the user's own first; or that of a
\* document the user has a right to, which is copied; or a new one.
ImportCreate(w, u, k) ==
    LET own == {t \in DOMAIN template : template[t] = [owner |-> u, import |-> k]}
        common == {t \in DOMAIN template : template[t] = [owner |-> "all", import |-> k]}
        seen == {d \in DOMAIN document \cap readers : template[TemplateOf(d)].import = k}
    IN  /\ \/ own # {} /\ \E t \in own :
                Begin(w, [at |-> "insert", user |-> u, template |-> t])
           \/ own = {} /\ \E t \in common :
                Begin(w, [at |-> "insert", user |-> u, template |-> t])
           \/ own \cup common = {} /\ \E d \in seen :
                Begin(w, [at |-> "row", user |-> u, import |-> k, then |-> "insert",
                          styles |-> Cardinality(StylesOf(TemplateOf(d)))])
           \/ own \cup common \cup seen = {} /\ \E n \in 0..1 :
                Begin(w, [at |-> "row", user |-> u, import |-> k, then |-> "insert", styles |-> n])
        /\ UNCHANGED <<tables, past>>

\* ... and the document is made, if the template is still there (foreign key).
InsertDocument(w) ==
    LET r == task[w]
    IN  /\ r.at = "insert"
        /\ IF r.template \in DOMAIN template
           THEN /\ last.document < MaxDocuments /\ Count("document", 1)
                /\ document' = With(document, NextRow("document"),
                                    [owner |-> r.user, template |-> r.template])
                /\ used' = used \cup {r.template}
                /\ collided' = (collided \/ OthersAt(w, {"remove", "delete"}, r.template))
           ELSE UNCHANGED <<document, last, used, collided>>
        /\ End(w)
        /\ UNCHANGED <<template, style, readers, ended, styled>>

ShareDocument ==
    /\ \E d \in DOMAIN document \ readers : readers' = readers \cup {d}
    /\ UNCHANGED <<template, style, document, last, task, begun, past>>

\* A user's template is removed with its last document, in the same transaction: the
\* others' transactions are not seen.
IsLast(d) ==
    LET t == TemplateOf(d)
    IN  template[t].owner # "all" /\ DocumentsOf(t) = {d}

DeleteDocument(w, u) ==
    /\ \E d \in DOMAIN document :
        /\ document[d].owner = u
        /\ \A v \in Workers : task[v].at = "delete" => task[v].document # d
        /\ LET t == TemplateOf(d)
           IN  /\ Begin(w, [at |-> "delete", document |-> d, template |-> t, last |-> IsLast(d)])
               /\ collided' = (collided \/ OthersAt(w, {"delete"}, t))
    /\ UNCHANGED <<tables, ended, used, styled>>

\* delete_unused_template, and the transaction ends.
CommitDelete(w) ==
    LET r == task[w]
        goes == {r.document} \cup (IF r.last THEN DocumentsOf(r.template) ELSE {})
    IN  /\ r.at = "delete"
        /\ document' = Without(document, goes)
        /\ ended' = ended \cup {r.document}
        /\ IF r.last THEN RemoveRow(w, r.template)
                     ELSE UNCHANGED <<template, style, used, styled, collided>>
        /\ End(w)
        /\ UNCHANGED <<readers, last>>

-----------------------------------------------------------------------------
(* Templates.                                                              *)

\* The manager's get_template makes one, with no styles, when asked for number 0.
NewTemplate(w, u) ==
    /\ last.template < MaxTemplates /\ Count("template", 1)
    /\ Begin(w, NoTask)
    /\ template' = With(template, NextRow("template"), [owner |-> u, import |-> OtherId])
    /\ UNCHANGED <<style, document, readers, past>>

\* create, and create_template_admin for everybody.
CreateTemplate(w, u) ==
    /\ \E k \in ImportIds \cup {OtherId}, n \in 0..1 :
          Begin(w, [at |-> "row", user |-> u, import |-> k, then |-> "none", styles |-> n])
    /\ UNCHANGED <<tables, past>>

\* copy: the copy's import id is one that is not used yet.
CopyTemplate(w, u) ==
    /\ \E t \in DOMAIN template :
        /\ MayUse(u, t)
        /\ Begin(w, [at |-> "row", user |-> u, import |-> OtherId, then |-> "none",
                     styles |-> Cardinality(StylesOf(t))])
    /\ UNCHANGED <<tables, past>>

\* The row of a new template, ...
InsertTemplate(w) ==
    LET r == task[w]
    IN  /\ r.at = "row"
        /\ last.template < MaxTemplates /\ Count("template", 1)
        /\ template' = With(template, NextRow("template"), [owner |-> r.user, import |-> r.import])
        /\ Continue(w, [at |-> "styles", user |-> r.user, template |-> NextRow("template"),
                        styles |-> r.styles, then |-> r.then])
        /\ UNCHANGED <<style, document, readers, past>>

\* ... and its styles, if it is still there.
InsertStyles(w) ==
    LET r == task[w]
        new == NextRow("style")..(last.style + r.styles)
    IN  /\ r.at = "styles"
        /\ IF r.template \in DOMAIN template \/ r.styles = 0
           THEN /\ last.style + r.styles <= MaxStyles /\ Count("style", r.styles)
                /\ style' = [s \in DOMAIN style \cup new |-> IF s \in new THEN r.template ELSE style[s]]
                /\ styled' = IF r.styles > 0 THEN styled \cup {r.template} ELSE styled
                /\ Continue(w, IF r.then = "insert"
                               THEN [at |-> "insert", user |-> r.user, template |-> r.template]
                               ELSE NoTask)
           ELSE End(w) /\ UNCHANGED <<style, last, styled>>
        /\ UNCHANGED <<template, document, readers, ended, used, collided>>

\* save, and save_template of the staff: the row is read, ...
SaveTemplate(w, u) ==
    /\ \E t \in DOMAIN template :
        /\ template[t].owner = u
        /\ Begin(w, [at |-> "save", template |-> t, row |-> template[t]])
    /\ UNCHANGED <<tables, past>>

\* ... and written, all fields of it: a row that is gone comes back.
WriteTemplate(w) ==
    LET r == task[w]
    IN  /\ r.at = "save"
        /\ \E k \in {r.row.import} \cup (IF r.row.owner = "all" THEN {} ELSE ImportIds) :
              template' = With(template, r.template, [r.row EXCEPT !.import = k])
        /\ End(w)
        /\ UNCHANGED <<style, document, readers, last, past>>

\* fault: a template that has documents is deletable
IsNotNew(t) == t \in DOMAIN template

IsUnused(t) == DocumentsOf(t) = {}

\* delete: only a template without documents ...
DeleteTemplate(w, u) ==
    /\ \E t \in DOMAIN template :
        /\ template[t].owner = u
        /\ IsUnused(t)
        /\ Begin(w, [at |-> "remove", template |-> t])
    /\ UNCHANGED <<tables, past>>

\* ... is deleted, with whatever belongs to it then.
RemoveTemplate(w) ==
    LET r == task[w]
    IN  /\ r.at = "remove"
        /\ document' = Without(document, DocumentsOf(r.template))
        /\ RemoveRow(w, r.template)
        /\ End(w)
        /\ UNCHANGED <<readers, last, ended>>

-----------------------------------------------------------------------------
(* Styles.                                                                 *)

\* save_document_style, of the user's own templates or by the staff: a new one, or one that is read ...
SaveStyle(w, u) ==
    /\ \E t \in DOMAIN template :
        /\ template[t].owner \in {u, "all"}
        /\ \E s \in StylesOf(t) \cup {0} :
              Begin(w, [at |-> "style", style |-> s, template |-> t])
    /\ UNCHANGED <<tables, past>>

\* ... and written, even if it is gone, but not without its template (foreign key).
WriteStyle(w) ==
    LET r == task[w]
        new == r.style = 0
    IN  /\ r.at = "style"
        /\ IF r.template \in DOMAIN template
           THEN /\ new => last.style < MaxStyles
                /\ Count("style", IF new THEN 1 ELSE 0)
                /\ style' = With(style, IF new THEN NextRow("style") ELSE r.style, r.template)
                /\ styled' = styled \cup {r.template}
           ELSE UNCHANGED <<style, last, styled>>
        /\ End(w)
        /\ UNCHANGED <<template, document, readers, ended, used, collided>>

\* delete_document_style: not the only one of its template, as it is counted here.
DeleteStyle(w, u) ==
    /\ \E s \in DOMAIN style :
        /\ template[style[s]].owner \in {u, "all"}
        /\ Cardinality(StylesOf(style[s])) >= 2
        /\ Begin(w, [at |-> "unstyle", style |-> s, template |-> style[s]])
        /\ collided' = (collided \/ OthersAt(w, {"unstyle"}, style[s]))
    /\ UNCHANGED <<tables, ended, used, styled>>

RemoveStyle(w) ==
    /\ task[w].at = "unstyle"
    /\ style' = Without(style, {task[w].style})
    /\ End(w)
    /\ UNCHANGED <<template, document, readers, last, past>>

TemplatesNext ==
    \/ \E w \in Workers, u \in Authors :
        \/ CreateDoc(w, u) \/ DeleteDocument(w, u)
        \/ \E k \in ImportIds : ImportCreate(w, u, k)
        \/ NewTemplate(w, u) \/ CopyTemplate(w, u) \/ DeleteTemplate(w, u)
        \/ SaveStyle(w, u) \/ DeleteStyle(w, u)
    \/ \E w \in Workers, u \in Authors \cup {"all"} : CreateTemplate(w, u) \/ SaveTemplate(w, u)
    \/ \E w \in Workers :
        \/ InsertDocument(w) \/ CommitDelete(w) \/ InsertTemplate(w) \/ InsertStyles(w)
        \/ WriteTemplate(w) \/ RemoveTemplate(w) \/ WriteStyle(w) \/ RemoveStyle(w)
    \/ ShareDocument

TemplatesSpec == TemplatesInit /\ [][TemplatesNext]_templateVars

-----------------------------------------------------------------------------
\* Rows refer to rows that were made.
TemplatesTypeOK ==
    /\ last \in [{"template", "style", "document"} -> Nat]
    /\ DOMAIN template \subseteq 1..last.template /\ last.template <= MaxTemplates
    /\ DOMAIN style \subseteq 1..last.style /\ last.style <= MaxStyles
    /\ \A i \in DOMAIN style : style[i] \in DOMAIN template
    /\ DOMAIN document \subseteq 1..last.document /\ last.document <= MaxDocuments
    /\ readers \cup ended \subseteq 1..last.document
    /\ used \cup styled \subseteq DOMAIN template
    /\ begun \in 0..MaxRequests /\ collided \in BOOLEAN

\* Every document has its template, which is what get_doc_styles hands out.  Unless two
\* requests crossed at a template: a document is only removed by its owner, though
\* templates are removed with what belongs to them; a template that had documents goes
\* with the last of them, unless it is everybody's; and one that had a style keeps one.
TemplatesServe ==
    /\ \A d \in DOMAIN document : TemplateOf(d) \in DOMAIN template
    /\ ~collided =>
        /\ 1..last.document = DOMAIN document \cup ended
        /\ \A t \in used : template[t].owner = "all" \/ DocumentsOf(t) # {}
        /\ \A t \in styled : StylesOf(t) # {}
=============================================================================
