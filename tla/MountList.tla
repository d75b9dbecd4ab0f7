------------------------------- MODULE MountList -------------------------------
(***************************************************************************)
(* MountListModel, MountEditor and the dialog of the controller: the rows  *)
(* a user edits, and the list of mounts.ini that every change replaces.    *)
(*                                                                         *)
(* The file is read once, when an application starts, and is written as a  *)
(* whole, so that two applications do not see each other's changes.  The   *)
(* dialog is not modal: the buttons behind it work while it is open.       *)
(***************************************************************************)
EXTENDS Naturals, Sequences, SequencesExt

CONSTANTS
  Apps,     \* controller applications
  Uuids,    \* bound: identities QUuid::createUuid can give
  Fields,   \* values of the fields other than uuid and enabled
  Default,  \* the fields of MountInfo as constructed
  NoEditor  \* MountListModel::editor is null

Infos == [uuid : Uuids, enabled : BOOLEAN, fields : Fields]

ASSUME MountListAssumption == Default \in Fields /\ NoEditor \notin Infos

VARIABLES
  file,    \* "Mounts" of mounts.ini, a sequence of Infos
  open,    \* the application runs
  rows,    \* modelList: an info, and whether it is shown as running
  editor,  \* the info in the MountEditor, or NoEditor
  dialog,  \* the dialog: closed, open on the editor, or open on null
  twice,   \* history: an editor was asked for while there was one
  last     \* history: the applications that have what the file has

vars == <<file, open, rows, editor, dialog, twice, last>>

Row(i, r) == [info |-> i, running |-> r]

\* Faulty: the rows are written as they are.
RowsAsTheyAre(s) == s

\* getModelList
ListOf(s) == [i \in DOMAIN s |-> s[i].info]

UuidsIn(s) == {s[i].uuid : i \in DOMAIN s}

\* The row a loop over modelList stops at, if there is one.
FirstRow(s, u) ==
  {i \in DOMAIN s : s[i].info.uuid = u /\ \A j \in 1..(i - 1) : s[j].info.uuid # u}

Init ==
  /\ file = <<>>
  /\ open = [a \in Apps |-> FALSE]
  /\ rows = [a \in Apps |-> <<>>]
  /\ editor = [a \in Apps |-> NoEditor]
  /\ dialog = [a \in Apps |-> "closed"]
  /\ twice = [a \in Apps |-> FALSE]
  /\ last = {}

\* What an application reads when it starts.
LoadRows == [i \in DOMAIN file |-> Row(file[i], FALSE)]

\* The constructor of ApplicationUI reads the file.
Open(a) ==
  /\ ~open[a]
  /\ open' = [open EXCEPT ![a] = TRUE]
  /\ rows' = [rows EXCEPT ![a] = LoadRows]
  /\ last' = last \cup {a}
  /\ UNCHANGED <<file, editor, dialog, twice>>

Quit(a) ==
  /\ open[a]
  /\ open' = [open EXCEPT ![a] = FALSE]
  /\ rows' = [rows EXCEPT ![a] = <<>>]
  /\ editor' = [editor EXCEPT ![a] = NoEditor]
  /\ dialog' = [dialog EXCEPT ![a] = "closed"]
  /\ twice' = [twice EXCEPT ![a] = FALSE]
  /\ last' = last \ {a}
  /\ UNCHANGED file

\* Faulty: edited is emitted before the rows are changed.
EditedEarly(a, s) ==
  /\ rows' = [rows EXCEPT ![a] = s]
  /\ file' = ListOf(rows[a])
  /\ last' = {a}

\* The rows change and edited is emitted: onModelModified writes them all.
Edited(a, s) ==
  /\ rows' = [rows EXCEPT ![a] = s]
  /\ file' = ListOf(s)
  /\ last' = {a}

\* remove
RemoveRow(a, u) ==
  /\ open[a]
  /\ \E i \in FirstRow(rows[a], u) : Edited(a, RemoveAt(rows[a], i))
  /\ UNCHANGED <<open, editor, dialog, twice>>

\* start and stop, which set enabled and are not told to the service in any
\* other way.
SetEnabled(a, u, e) ==
  /\ open[a]
  /\ \E i \in FirstRow(rows[a], u) :
       Edited(a, ReplaceAt(rows[a], i, [rows[a][i] EXCEPT !.info.enabled = e]))
  /\ UNCHANGED <<open, editor, dialog, twice>>

\* setRunning, with a status of the service.
SetRunning(a, u, r) ==
  /\ open[a]
  /\ \E i \in DOMAIN rows[a] : rows[a][i].info.uuid = u /\ rows[a][i].running # r
  /\ rows' = [rows EXCEPT ![a] =
                [i \in DOMAIN @ |-> IF @[i].info.uuid = u THEN Row(@[i].info, r)
                                    ELSE @[i]]]
  /\ UNCHANGED <<file, open, editor, dialog, twice, last>>

-----------------------------------------------------------------------------
(* The editor.                                                             *)

\* The dialog takes what edit or newMount returns, null if there is an editor.
Ask(a, info) ==
  /\ IF editor[a] = NoEditor
     THEN /\ editor' = [editor EXCEPT ![a] = info]
          /\ dialog' = [dialog EXCEPT ![a] = "open"]
          /\ UNCHANGED twice
     ELSE /\ dialog' = [dialog EXCEPT ![a] = "null"]
          /\ twice' = [twice EXCEPT ![a] = TRUE]
          /\ UNCHANGED editor
  /\ UNCHANGED <<file, open, rows, last>>

Edit(a, u) ==
  /\ open[a]
  /\ \E i \in FirstRow(rows[a], u) : Ask(a, rows[a][i].info)

\* QUuid::createUuid gives what nobody has.
Fresh ==
  {u \in Uuids :
     /\ u \notin UuidsIn(file)
     /\ \A a \in Apps : /\ u \notin UuidsIn(ListOf(rows[a]))
                        /\ editor[a] # NoEditor => editor[a].uuid # u}

\* Faulty: the row is there before it is accepted.
NewMountInserts(a) ==
  /\ open[a]
  /\ \E u \in Fresh :
       Edited(a, Append(rows[a], Row([uuid |-> u, enabled |-> FALSE,
                                     fields |-> Default], FALSE)))
  /\ UNCHANGED <<open, editor, dialog, twice>>

NewMount(a) ==
  /\ open[a]
  /\ \E u \in Fresh : Ask(a, [uuid |-> u, enabled |-> FALSE, fields |-> Default])

\* The setters of MountEditor.
ChangeEditor(a) ==
  /\ dialog[a] = "open"
  /\ \E e \in BOOLEAN, f \in Fields :
       editor' = [editor EXCEPT ![a] = [@ EXCEPT !.enabled = e, !.fields = f]]
  /\ UNCHANGED <<file, open, rows, dialog, twice, last>>

\* The dialog goes; accepted and rejected of null are errors of the script.
CloseDialog(a) ==
  /\ dialog[a] # "closed"
  /\ dialog' = [dialog EXCEPT ![a] = "closed"]
  /\ editor' = [editor EXCEPT ![a] = IF dialog[a] = "open" THEN NoEditor ELSE @]

\* Faulty: what is edited is always appended.
AcceptedRowsAppended(s, info) == Append(s, Row(info, FALSE))

\* The row of that uuid is replaced, its running forgotten; a new row if none.
AcceptedRows(s, info) ==
  IF FirstRow(s, info.uuid) # {}
  THEN LET i == CHOOSE i \in FirstRow(s, info.uuid) : TRUE
       IN ReplaceAt(s, i, Row(info, FALSE))
  ELSE Append(s, Row(info, FALSE))

\* editaccepted
Accept(a) ==
  /\ CloseDialog(a)
  /\ IF dialog[a] = "open"
     THEN Edited(a, AcceptedRows(rows[a], editor[a]))
     ELSE UNCHANGED <<file, rows, last>>
  /\ UNCHANGED <<open, twice>>

\* Faulty: Escape closes the dialog and rejects nothing.
RejectNothing(a) ==
  /\ dialog[a] # "closed"
  /\ dialog' = [dialog EXCEPT ![a] = "closed"]
  /\ UNCHANGED <<file, open, rows, editor, twice, last>>

\* editrejected
Reject(a) ==
  /\ CloseDialog(a)
  /\ UNCHANGED <<file, open, rows, twice, last>>

Next ==
  \E a \in Apps :
    \/ Open(a) \/ Quit(a)
    \/ \E u \in Uuids : RemoveRow(a, u) \/ Edit(a, u)
    \/ \E u \in Uuids, b \in BOOLEAN : SetEnabled(a, u, b) \/ SetRunning(a, u, b)
    \/ NewMount(a) \/ ChangeEditor(a) \/ Accept(a) \/ Reject(a)

Spec == Init /\ [][Next]_vars

-----------------------------------------------------------------------------
(* Properties.                                                             *)

Rows == [info : Infos, running : BOOLEAN]

TypeOK ==
  /\ file \in Seq(Infos)
  /\ open \in [Apps -> BOOLEAN]
  /\ rows \in [Apps -> Seq(Rows)]
  /\ editor \in [Apps -> Infos \cup {NoEditor}]
  /\ dialog \in [Apps -> {"closed", "open", "null"}]
  /\ twice \in [Apps -> BOOLEAN]
  /\ last \subseteq Apps

Distinct(s) == \A i, j \in DOMAIN s : s[i].uuid = s[j].uuid => i = j

\* No list ever has two mounts of one uuid, whatever is removed while it is
\* edited and whichever application writes; this is what Daemon assumes of
\* the file.
UniqueUuids == Distinct(file) /\ \A a \in Apps : Distinct(ListOf(rows[a]))

\* What the service will load is what the application that wrote last shows.
FileIsShown == \A a \in last : file = ListOf(rows[a])

\* An editor that nobody can accept or reject any more, which stops all editing
\* until the application is restarted, comes only from asking for an editor
\* while the dialog was open.
EditorIsShown ==
  \A a \in Apps : (dialog[a] = "open") = (editor[a] # NoEditor) \/ twice[a]

Entry(s, u) == {s[i] : i \in {i \in DOMAIN s : s[i].uuid = u}}

\* A step writes at most one mount anew, unless the application that writes
\* has not seen what another one wrote.
StepWritesOneMount ==
  file' # file =>
    \/ \E u \in Uuids : \A x \in Uuids \ {u} : Entry(file', x) = Entry(file, x)
    \/ \E a \in last' : a \notin last

\* A mount appears in the file by being accepted in an editor, which may bring
\* back one that was removed meanwhile, or by an application that has not
\* seen its removal.
StepAddsByEditor ==
  \A u \in UuidsIn(file') \ UuidsIn(file) :
    \E a \in last' :
      \/ a \notin last
      \/ dialog[a] = "open" /\ editor[a].uuid = u /\ editor'[a] = NoEditor
WritesAreEdits == [][StepWritesOneMount /\ StepAddsByEditor]_vars
=============================================================================
