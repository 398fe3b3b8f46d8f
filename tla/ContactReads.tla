----------------------------- MODULE ContactReads -----------------------------
(***************************************************************************)
(* The requests that only read contacts: getdata, checkids, last_change    *)
(* and query of the API, the files that exports are built from and the     *)
(* pages they are fetched in, the dashboard's search and its contact page. *)
(*                                                                         *)
(* They use the read pool and open no transaction: every statement sees    *)
(* what was committed by then, and a request that takes several statements *)
(* sees several databases.  One request is modelled against any writers:   *)
(* readers take nothing from each other.                                   *)
(***************************************************************************)
EXTENDS ContactTables, Sequences

CONSTANTS
  Reads,        \* what may be asked
  Writings,     \* the field values writers send
  Start,        \* the contact tables a behaviour starts with
  MaxCommits,   \* bound on the transactions committed in it
  BatchLimit,   \* cfg.MaxBatchContacts
  HistoryLimit, \* changes shown on a contact's page
  PageLines,    \* the limit with which a client fetches a file
  NoRead

Keys == FieldIds \cup {ById}
KeyedRead == [op: {"getdata", "checkids", "last_change"}, key: Keys,
              keys: Seq(Values \cup ContactIds), fields: SUBSET FieldIds, multiple: BOOLEAN]
Query == [op: {"query"}, field: FieldIds, value: Texts, nonempty: BOOLEAN,
          limit: Nat, offset: Nat, fields: SUBSET FieldIds]
Export == [op: {"changes", "registrations"}, from: Nat, to: Nat, fields: SUBSET FieldIds, header: BOOLEAN]
ListExport == [op: {"contactlist"}, list: Lists, fields: SUBSET FieldIds, header: BOOLEAN, timestamp: BOOLEAN]
\* The dashboard: a contact by its id, those with a text, or the newest.
Search == [op: {"search", "page"}, contact: SUBSET ContactIds, text: SUBSET Texts, limit: Nat, fields: {FieldIds}]

Read == KeyedRead \cup Query \cup Export \cup ListExport \cup Search

ASSUME ReadsAssumption == \A r \in Reads : r \in Read
ASSUME ReadBoundsAssumption ==
  /\ Writings \subseteq FieldValues /\ Start \in Tables
  /\ RowsAreAnchored(Start, FieldIds, Lists) /\ TrailExplains(Start) /\ IsFiniteSet(Start.hist)
  /\ MaxCommits \in Nat /\ BatchLimit \in Nat /\ HistoryLimit \in Nat
\* A page of one line that is empty could as well be the end of the file.
ASSUME PageAssumption == PageLines \in Nat \ {0, 1}
ASSUME NoReadAssumption == NoRead \notin Read

VARIABLES
  past,     \* what was committed so far, the database being the last of it
  pc,       \* the statement the request executes next
  req,      \* what it asks
  began,    \* where in past it arrived
  at,       \* its current key value
  found,    \* the contacts of the last look-up, with a time for those that have one
  rows,     \* those of them LoadContacts has found a row of
  shown,    \* data.result, data.ids, or the rows of a page or file
  errors,   \* data.errors, by key value
  log,      \* the changes on a contact's page
  file      \* how many lines of an export's file were fetched, and its rows among them

answerVars == <<shown, errors, log, file>>
vars == <<past, pc, req, began, at, found, rows, answerVars>>

Db == past[Len(past)]
Exports == {"changes", "registrations", "contactlist"}
Resting == {"idle", "ok", "failed"}

Init ==
  /\ past = <<[fields |-> FieldIds, lists |-> Lists, t |-> Start]>>
  /\ pc = "idle" /\ req = NoRead /\ began = 1 /\ at = 1
  /\ found = [x \in {} |-> 0] /\ rows = {} /\ shown = {} /\ errors = {} /\ log = {} /\ file = [lines |-> 0, rows |-> {}]

-----------------------------------------------------------------------------
(* What is committed meanwhile *)

Commit(t, fields, lists) ==
  /\ Len(past) <= MaxCommits /\ pc \notin {"ok", "failed"}
  /\ past' = Append(past, [fields |-> fields, lists |-> lists, t |-> t])
  /\ UNCHANGED <<pc, req, began, at, found, rows, answerVars>>

Known(new) == DOMAIN new \subseteq Db.fields

Write ==
  \/ \E new \in Writings :
       /\ Known(new)
       /\ \/ Db.t.next <= MaxContact /\ Commit(CreateContact(Db.t, new), Db.fields, Db.lists)
          \/ \E x \in Db.t.live : Commit(ApplyContactValues(Db.t, x, new), Db.fields, Db.lists)
  \/ \E x \in Db.t.live :
       \/ Commit(DeleteContacts(Db.t, {x}), Db.fields, Db.lists)
       \/ \E l \in Db.lists : Commit(AddContactsToList(Db.t, l, {x}), Db.fields, Db.lists)
  \/ \E f \in Db.fields : Commit(DropFieldValues(Db.t, f), Db.fields \ {f}, Db.lists)
  \/ \E l \in Db.lists : Commit(DropListMembers(Db.t, l), Db.fields, Db.lists \ {l})

-----------------------------------------------------------------------------
(* The request, up to its look-up *)

At(step) == pc = step
GoTo(step) == pc' = step

Ask(r) ==
  /\ At("idle") /\ req' = r /\ began' = Len(past)
  /\ GoTo(CASE r.op = "contactlist" -> "list" [] r.op \in {"search", "page"} -> "find" [] OTHER -> "catalog")
  /\ UNCHANGED <<past, at, found, rows, answerVars>>

CheckList ==
  /\ At("list") /\ GoTo(IF req.list \in Db.lists THEN "catalog" ELSE "failed")
  /\ UNCHANGED <<past, req, began, at, found, rows, answerVars>>

Keyed(r) == r.op \in {"getdata", "checkids", "last_change"}

\* The catalogue is used only here: a field may be dropped right after.
Acceptable(r) ==
  /\ r.fields \subseteq Db.fields
  /\ r.op # "checkids" => r.fields # {}
  /\ Keyed(r) => r.key \in Db.fields \cup {ById}
  /\ r.op \in {"getdata", "checkids"} => Len(r.keys) <= BatchLimit
  /\ r.op = "query" => r.field \in Db.fields /\ r.limit >= 1

LoadCatalog ==
  /\ At("catalog") /\ GoTo(IF Acceptable(req) THEN "find" ELSE "failed")
  /\ UNCHANGED <<past, req, began, at, found, rows, answerVars>>

-----------------------------------------------------------------------------
(* Requests that name contacts by key values: a look-up for each of them *)

Least(S) == CHOOSE n \in S : \A k \in S : n <= k
KeysLeft == at <= Len(req.keys)
KeyValue == req.keys[at]
Matches == FindContactIDs(Db.t, req.key, KeyValue)

\* deviation: the first of several matches will do
UsableIfAny(S) == S # {}
Usable(S) == Cardinality(S) = 1 \/ (Cardinality(S) > 1 /\ req.op = "checkids" /\ req.multiple)

Report(said) == errors' = errors \cup {[key |-> KeyValue, said |-> said]}
NextKeySkipped == at' = at + 2 /\ GoTo("find")  \* deviation: skips a key after each
NextKey == at' = at + 1 /\ GoTo("find")

FindKey ==
  /\ At("find") /\ Keyed(req) /\ KeysLeft
  /\ \/ /\ Usable(Matches) /\ req.op = "checkids"
        /\ shown' = shown \cup {[key |-> KeyValue, ids |-> Matches]}
        /\ NextKey /\ UNCHANGED <<found, errors>>
     \/ /\ Usable(Matches) /\ req.op # "checkids"
        /\ found' = [x \in {Least(Matches)} |-> 0]
        /\ GoTo(IF req.op = "getdata" THEN "rows" ELSE "log")
        /\ UNCHANGED <<at, shown, errors>>
     \/ /\ ~Usable(Matches) /\ req.op = "last_change"
        /\ NextKey /\ UNCHANGED <<found, shown, errors>>
     \/ /\ ~Usable(Matches) /\ req.op # "last_change"
        /\ Report(IF Matches = {} THEN "none" ELSE "several")
        /\ NextKey /\ UNCHANGED <<found, shown>>
  /\ UNCHANGED <<past, req, began, rows, log, file>>

Answer ==
  /\ At("find") /\ Keyed(req) /\ ~KeysLeft /\ GoTo("ok")
  /\ UNCHANGED <<past, req, began, at, found, rows, answerVars>>

ReadLastChange ==
  /\ At("log") /\ req.op = "last_change" /\ NextKey
  /\ shown' = shown \cup {[key |-> KeyValue, change |-> h] :
       h \in {h \in Db.t.hist : h.contact \in DOMAIN found /\ h.field \in req.fields /\ IsLastChange(Db.t, h)}}
  /\ UNCHANGED <<past, req, began, found, rows, errors, log, file>>

-----------------------------------------------------------------------------
(* Requests that look contacts up by what they are *)

Cut(S, offset, limit) == {x \in S : Cardinality({y \in S : y < x}) \in offset..(offset + limit - 1)}
Newest(S, limit) == {x \in S : Cardinality({y \in S : y > x}) < limit}

\* deviation: the end of the window is not part of it
InOpenWindow(r, time) == r.from <= time /\ time < r.to
InWindow(r, time) == r.from <= time /\ time <= r.to

Matching(t, r) == {x \in t.live : t.vals[x][r.field] = r.value /\ (r.nonempty => r.value # Empty)}
ChangesMade(t, r) == {h \in t.hist : h.field \in r.fields /\ InWindow(r, h.stamp)}
Times(changes, x) == {h.stamp : h \in {h \in changes : h.contact = x}}
HasText(t, r, x) == \A v \in r.text : \E f \in FieldIds : t.vals[x][f] = v

\* What each look-up finds, with the time a file gives a contact, if it does: of
\* its first change, or of its creation (created_at grows with the id).
Untimed(S) == [x \in S |-> 0]
QueryFinds(t, r) == Untimed(Cut(Matching(t, r), r.offset, r.limit))
ChangesFind(t, r) ==
  LET changes == ChangesMade(t, r) IN [x \in {h.contact : h \in changes} |-> Least(Times(changes, x))]
RegistrationsFind(t, r) == [x \in {x \in t.live : InWindow(r, x)} |-> x]
ListFinds(t, r) == Untimed({m[2] : m \in {m \in t.members : m[1] = r.list}})
IdFinds(t, r) == Untimed(t.live \cap r.contact)
TextFinds(t, r) == Untimed(Newest({x \in t.live : HasText(t, r, x)}, r.limit))

Selected(t, r) ==
  CASE r.op = "query" -> QueryFinds(t, r)
    [] r.op = "changes" -> ChangesFind(t, r)
    [] r.op = "registrations" -> RegistrationsFind(t, r)
    [] r.op = "contactlist" -> ListFinds(t, r)
    [] r.op \in {"search", "page"} -> IF r.contact # {} THEN IdFinds(t, r) ELSE TextFinds(t, r)

\* Without contacts LoadContacts asks nothing; a page without one is a 404.
Select ==
  /\ At("find") /\ ~Keyed(req)
  /\ found' = Selected(Db.t, req)
  /\ GoTo(IF DOMAIN found' # {} THEN "rows"
          ELSE CASE req.op = "page" -> "failed" [] req.op \in Exports -> "file" [] OTHER -> "ok")
  /\ UNCHANGED <<past, req, began, at, rows, answerVars>>

-----------------------------------------------------------------------------
(* LoadContacts: the contacts, then their values *)

LoadRows ==
  /\ At("rows") /\ GoTo("values")
  /\ rows' = DOMAIN found \cap Db.t.live
  /\ UNCHANGED <<past, req, began, at, found, answerVars>>

\* A value that is not there is shown as an empty one.
Shown(t, x, fs) == [f \in fs |-> IF t.vals[x][f] = NoValue THEN Empty ELSE t.vals[x][f]]
Blank(fs) == [f \in fs |-> Empty]

\* The API and the files leave out contacts that are gone, the dashboard does
\* not; one that goes now is shown without values by all of them.
LoadValues ==
  LET kept == IF req.op \in {"search", "page"} THEN DOMAIN found ELSE rows
      valued == {[contact |-> x, time |-> found[x],
                  vals |-> IF x \in rows THEN Shown(Db.t, x, req.fields) ELSE Blank(req.fields)] : x \in kept}
  IN  /\ At("values")
      /\ IF req.op = "getdata"
         THEN NextKey /\ shown' = shown \cup {[key |-> KeyValue, row |-> v] : v \in valued}
         ELSE /\ shown' = valued
              /\ GoTo(CASE req.op = "page" -> "log" [] req.op \in Exports -> "file" [] OTHER -> "ok")
              /\ UNCHANGED at
      /\ UNCHANGED <<past, req, began, found, rows, errors, log, file>>

Later(g, h) == g.stamp > h.stamp \/ (g.stamp = h.stamp /\ g.field > h.field)

\* The contact page ends with the newest entries of its contact's log.
ReadLog ==
  LET entries == {h \in Db.t.hist : h.contact \in DOMAIN found}
  IN  /\ At("log") /\ req.op = "page" /\ GoTo("ok")
      /\ log' = {h \in entries : Cardinality({g \in entries : Later(g, h)}) < HistoryLimit}
      /\ UNCHANGED <<past, req, began, at, found, rows, shown, errors, file>>

-----------------------------------------------------------------------------
(* The file of an export, and fetching it page by page *)

Earlier(a, b) == a.time < b.time \/ (a.time = b.time /\ a.contact < b.contact)
HeaderLines == IF req.header THEN 1 ELSE 0
LineOf(s) == HeaderLines + Cardinality({t \in shown : Earlier(t, s)})

\* One cell without a text is written as an empty line; a timestamp is a cell.
WithTimestamp == req.op # "contactlist" \/ req.timestamp
IsBlank(s) == ~WithTimestamp /\ Cardinality(req.fields) = 1 /\ \A f \in req.fields : s.vals[f] = Empty

\* sliceCSV counts a header as a line.  Empty lines at the end of the file are
\* trimmed, but it is never left without a line.
FileLength ==
  Least({n \in 1..(HeaderLines + Cardinality(shown) + 1) : \A s \in shown : ~IsBlank(s) => LineOf(s) < n})
LinesSliced(offset, limit) == IF offset + limit <= FileLength THEN limit ELSE FileLength - offset

\* A client reads no row from an empty line.
Sliced(offset, limit) == {s \in shown : ~IsBlank(s) /\ LineOf(s) \in offset..(offset + limit - 1)}

\* A client goes on until a page is not full; what is cut down to nothing is
\* one empty line, which is no full page.
Fetch ==
  LET lines == LinesSliced(file.lines, PageLines)
  IN  /\ At("file")
      /\ file' = [lines |-> file.lines + lines, rows |-> file.rows \cup Sliced(file.lines, PageLines)]
      /\ GoTo(IF lines < PageLines THEN "ok" ELSE "file")
      /\ UNCHANGED <<past, req, began, at, found, rows, shown, errors, log>>

-----------------------------------------------------------------------------
Serve ==
  \/ CheckList \/ LoadCatalog \/ FindKey \/ Answer \/ ReadLastChange
  \/ Select \/ LoadRows \/ LoadValues \/ ReadLog \/ Fetch

Next == Write \/ Serve \/ \E r \in Reads : Ask(r)

Spec == Init /\ [][Next]_vars

-----------------------------------------------------------------------------
(* What must hold *)

During == began..Len(past)

TypeOK ==
  /\ past \in Seq([fields: SUBSET FieldIds, lists: SUBSET Lists, t: Tables]) /\ began \in DOMAIN past
  /\ pc \in Resting \cup {"list", "catalog", "find", "rows", "values", "log", "file"}
  /\ req \in Reads \cup {NoRead}
  /\ pc \notin Resting /\ Keyed(req) => at \in 1..(Len(req.keys) + 1)
  /\ DOMAIN found \subseteq ContactIds /\ rows \subseteq ContactIds
  /\ pc = "values" => rows \subseteq DOMAIN found
  /\ log \subseteq Change
  /\ file.rows \subseteq shown /\ (pc = "file" => file.lines \in 0..FileLength)

\* What a contact must be for the request to show it.
Qualifies(r, t, x, k) ==
  \/ /\ Keyed(r) /\ x \in FindContactIDs(t, r.key, k)
     /\ (r.op = "checkids" /\ r.multiple) \/ FindContactIDs(t, r.key, k) = {x}
  \/ LET before == {y \in t.live : y < x /\ t.vals[y][r.field] = r.value}
     IN  /\ r.op = "query" /\ x \in t.live /\ t.vals[x][r.field] = r.value /\ ~(r.nonempty /\ r.value = Empty)
         /\ Cardinality(before) >= r.offset /\ Cardinality(before) < r.offset + r.limit
  \/ r.op = "changes" /\ \E h \in t.hist, f \in r.fields :
                            h.contact = x /\ h.field = f /\ r.from <= h.stamp /\ h.stamp <= r.to
  \/ r.op = "registrations" /\ x \in t.live /\ r.from <= x /\ x <= r.to
  \/ r.op = "contactlist" /\ <<r.list, x>> \in t.members
  \/ r.op \in {"search", "page"} /\ r.contact # {} /\ x \in t.live \cap r.contact
  \/ LET Has(y) == \A v \in r.text : \E f \in FieldIds : t.vals[y][f] = v
     IN  /\ r.op \in {"search", "page"} /\ r.contact = {} /\ x \in t.live /\ Has(x)
         /\ Cardinality({y \in t.live : y > x /\ Has(y)}) < r.limit

\* A row is a contact that was asked for at one moment of the request, with
\* the values it had together at another, no earlier one.
WasStored(x, vals, k) ==
  \E i, j \in During : i <= j /\ Qualifies(req, past[i].t, x, k) /\ vals = Shown(past[j].t, x, DOMAIN vals)

\* Rows, ids and changes were so while they were asked for, although no two
\* statements of a request need see the same database.
AnswersWereTrue ==
  \A s \in shown :
    /\ req.op = "getdata" => WasStored(s.row.contact, s.row.vals, s.key)
    /\ req.op = "checkids" => \E i \in During : \A x \in s.ids : Qualifies(req, past[i].t, x, s.key)
    /\ req.op = "last_change" =>
         \E i, j \in During : /\ i <= j /\ Qualifies(req, past[i].t, s.change.contact, s.key)
                              /\ s.change \in past[j].t.hist /\ IsLastChange(past[j].t, s.change)
    /\ ~Keyed(req) => WasStored(s.contact, s.vals, NoRead)

\* So were the errors: that a key value has no contact, or several.
ErrorsWereTrue ==
  \A e \in errors : \E i \in During :
    LET matches == FindContactIDs(past[i].t, req.key, e.key)
    IN  IF e.said = "none" THEN matches = {} ELSE Cardinality(matches) > 1

\* "how a contact reached its current state" (history.go:75): what a contact
\* page shows is explained by the log below it, unless the contact was deleted
\* before the log was read or the log is cut off.
PageIsExplained ==
  pc = "ok" /\ req.op = "page" =>
    \A s \in shown, f \in FieldIds :
      \/ s.vals[f] = Empty
      \/ \E h \in log : h.field = f /\ h.new = s.vals[f]
      \/ Cardinality(log) >= HistoryLimit
      \/ s.contact \notin Db.t.live

\* A reader that takes several statements is told nothing that never was.
ShownWasStored == AnswersWereTrue /\ ErrorsWereTrue /\ PageIsExplained

Answered(x, k) ==
  \/ req.op = "getdata" /\ \E s \in shown : s.key = k /\ s.row.contact = x
  \/ req.op = "checkids" /\ \E s \in shown : s.key = k /\ x \in s.ids
  \/ /\ req.op = "last_change"
     /\ \/ \E s \in shown : s.key = k /\ s.change.contact = x
        \/ \E j \in During : \A h \in past[j].t.hist : h.contact = x => h.field \notin req.fields
  \/ req.op \in Exports /\ \E s \in shown : s.contact = x /\ (s \in file.rows \/ IsBlank(s))
  \/ req.op \in {"query", "search", "page"} /\ \E s \in shown : s.contact = x

\* A contact that qualifies for as long as the request runs is not missed,
\* whatever is written around it.  Its row of a file is among the lines that a
\* client fetches page by page, unless all there is to the row is an empty text.
NobodyIsMissed ==
  pc = "ok" =>
    \A x \in ContactIds : \A k \in (IF Keyed(req) THEN {req.keys[i] : i \in DOMAIN req.keys} ELSE {NoRead}) :
      (\A i \in During : Qualifies(req, past[i].t, x, k)) => Answered(x, k)
=============================================================================
