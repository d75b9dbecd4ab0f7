--------------------------- MODULE MountListProofs ---------------------------
(***************************************************************************)
(* Proofs about MountList, for every value of its constants: any number of *)
(* applications, of uuids and of values of the other fields.               *)
(***************************************************************************)
EXTENDS MountList, TLAPS

\* No two rows have one uuid.
DistinctRows(s) ==
  \A i, j \in DOMAIN s : s[i].info.uuid = s[j].info.uuid => i = j

\* A dialog on null comes from asking twice, and an open one has an editor.
DialogInv ==
  \A a \in Apps : /\ dialog[a] = "null" => twice[a]
                  /\ dialog[a] = "open" => editor[a] # NoEditor

IInv == TypeOK /\ UniqueUuids /\ FileIsShown /\ EditorIsShown /\ DialogInv

-----------------------------------------------------------------------------
(* Facts about lists of rows.                                              *)

\* A list and its domain.
LEMMA SeqDomain ==
  ASSUME NEW T, NEW s \in Seq(T)
  PROVE  Len(s) \in Nat /\ DOMAIN s = 1..Len(s) /\ \A i \in DOMAIN s : s[i] \in T
OBVIOUS

\* A function on the domain of a list is a list.
LEMMA SeqOfDomain ==
  ASSUME NEW T, NEW S, NEW s \in Seq(S), NEW f \in [DOMAIN s -> T]
  PROVE  f \in Seq(T)
<1>1. Len(s) \in Nat /\ DOMAIN s = 1..Len(s)
  BY SeqDomain
<1> QED BY <1>1

\* The infos of rows are a list of infos.
LEMMA ListOfType ==
  ASSUME NEW s \in Seq(Rows)
  PROVE  ListOf(s) \in Seq(Infos)
<1>1. \A i \in DOMAIN s : s[i].info \in Infos
  <2>1. \A i \in DOMAIN s : s[i] \in Rows
    BY SeqDomain
  <2> QED BY <2>1 DEF Rows
<1>2. ListOf(s) \in [DOMAIN s -> Infos]
  BY <1>1 DEF ListOf
<1> QED BY <1>2, SeqOfDomain

\* Rows are distinct if their infos are.
LEMMA DistinctListOf ==
  ASSUME NEW s
  PROVE  Distinct(ListOf(s)) <=> DistinctRows(s)
BY DEF Distinct, ListOf, DistinctRows

\* Two lists one after the other.
LEMMA ConcatFacts ==
  ASSUME NEW T, NEW s \in Seq(T), NEW t \in Seq(T)
  PROVE  s \o t \in Seq(T) /\ Len(s \o t) = Len(s) + Len(t)
OBVIOUS

\* RemoveAt takes one row out and moves those behind it forward.
LEMMA RemoveFacts ==
  ASSUME NEW s \in Seq(Rows), NEW i \in DOMAIN s
  PROVE  /\ RemoveAt(s, i) \in Seq(Rows)
         /\ DOMAIN RemoveAt(s, i) = 1..(Len(s) - 1)
         /\ \A k \in 1..(Len(s) - 1) :
              RemoveAt(s, i)[k] = IF k < i THEN s[k] ELSE s[k + 1]
<1>1. Len(s) \in Nat /\ DOMAIN s = 1..Len(s) /\ i \in 1..Len(s)
  BY SeqDomain
<1> DEFINE head == SubSeq(s, 1, i - 1)
           tail == SubSeq(s, i + 1, Len(s))
<1>2. head \in Seq(Rows) /\ Len(head) = i - 1 /\ \A k \in 1..(i - 1) : head[k] = s[k]
  BY <1>1
<1>3. /\ tail \in Seq(Rows) /\ Len(tail) = Len(s) - i
      /\ \A k \in 1..(Len(s) - i) : tail[k] = s[i + k]
  BY <1>1
<1>4. RemoveAt(s, i) = head \o tail
  BY DEF RemoveAt
<1> HIDE DEF head, tail
<1>5. /\ head \o tail \in Seq(Rows)
      /\ DOMAIN (head \o tail) = 1..(Len(s) - 1)
  <2>1. head \o tail \in Seq(Rows) /\ Len(head \o tail) = Len(head) + Len(tail)
    BY ConcatFacts, <1>2, <1>3
  <2>2. Len(head) + Len(tail) = Len(s) - 1
    BY <1>1, <1>2, <1>3
  <2> QED BY <2>1, <2>2, SeqDomain
<1>6. ASSUME NEW k \in 1..(Len(s) - 1), k < i PROVE (head \o tail)[k] = s[k]
  BY <1>1, <1>2, <1>3, <1>6
<1>7. ASSUME NEW k \in 1..(Len(s) - 1), ~(k < i) PROVE (head \o tail)[k] = s[k + 1]
  <2>1. (head \o tail)[k] = tail[k - (i - 1)]
    BY <1>1, <1>2, <1>3, <1>7
  <2>2. k - (i - 1) \in 1..(Len(s) - i) /\ i + (k - (i - 1)) = k + 1
    BY <1>1, <1>7
  <2> QED BY <1>3, <2>1, <2>2
<1> QED BY <1>4, <1>5, <1>6, <1>7

\* Taking a row out leaves the others distinct.
LEMMA RemoveDistinct ==
  ASSUME NEW s \in Seq(Rows), DistinctRows(s), NEW i \in DOMAIN s
  PROVE  DistinctRows(RemoveAt(s, i))
<1>1. Len(s) \in Nat /\ DOMAIN s = 1..Len(s) /\ i \in 1..Len(s)
  BY SeqDomain
<1> DEFINE n == Len(s) - 1
           at(k) == IF k < i THEN k ELSE k + 1
           r == RemoveAt(s, i)
<1>2. DOMAIN r = 1..n /\ \A k \in 1..n : at(k) \in DOMAIN s /\ r[k] = s[at(k)]
  BY <1>1, RemoveFacts
<1>3. \A k, l \in 1..n : at(k) = at(l) => k = l
  BY <1>1
<1> HIDE DEF at, r
<1>4. DistinctRows(r)
  BY <1>2, <1>3 DEF DistinctRows
<1> QED BY <1>4 DEF r

\* Replacing a row by one of the same uuid leaves the rows distinct.
LEMMA ReplaceFacts ==
  ASSUME NEW s \in Seq(Rows), DistinctRows(s), NEW i \in DOMAIN s, NEW e \in Rows,
         e.info.uuid = s[i].info.uuid
  PROVE  ReplaceAt(s, i, e) \in Seq(Rows) /\ DistinctRows(ReplaceAt(s, i, e))
<1>1. /\ ReplaceAt(s, i, e) \in [DOMAIN s -> Rows]
      /\ \A k \in DOMAIN s : ReplaceAt(s, i, e)[k].info.uuid = s[k].info.uuid
  BY SeqDomain DEF ReplaceAt
<1> QED BY <1>1, SeqOfDomain DEF DistinctRows

\* A row of a new uuid at the end leaves the rows distinct.
LEMMA AppendFacts ==
  ASSUME NEW s \in Seq(Rows), DistinctRows(s), NEW e \in Rows,
         \A i \in DOMAIN s : s[i].info.uuid # e.info.uuid
  PROVE  Append(s, e) \in Seq(Rows) /\ DistinctRows(Append(s, e))
<1>1. Len(s) \in Nat /\ DOMAIN s = 1..Len(s)
  BY SeqDomain
<1>2. /\ Append(s, e) \in Seq(Rows) /\ DOMAIN Append(s, e) = 1..(Len(s) + 1)
      /\ \A i \in DOMAIN s : Append(s, e)[i] = s[i]
      /\ Append(s, e)[Len(s) + 1] = e
  BY <1>1
<1>3. \A i \in 1..(Len(s) + 1) : i \in DOMAIN s \/ i = Len(s) + 1
  BY <1>1
<1> QED BY <1>1, <1>2, <1>3 DEF DistinctRows

\* In a list of distinct rows the first row of a uuid is the only one.
LEMMA FirstRowFacts ==
  ASSUME NEW s \in Seq(Rows), DistinctRows(s), NEW u
  PROVE  /\ \A i \in FirstRow(s, u) : i \in DOMAIN s /\ s[i].info.uuid = u
         /\ FirstRow(s, u) = {} => \A i \in DOMAIN s : s[i].info.uuid # u
<1>1. Len(s) \in Nat /\ DOMAIN s = 1..Len(s)
  BY SeqDomain
<1>2. ASSUME NEW i \in DOMAIN s, s[i].info.uuid = u PROVE i \in FirstRow(s, u)
  <2>1. \A j \in 1..(i - 1) : j \in DOMAIN s /\ j # i
    BY <1>1
  <2> QED BY <1>2, <2>1 DEF FirstRow, DistinctRows
<1> QED BY <1>2 DEF FirstRow

\* What is accepted in an editor leaves the rows distinct.
LEMMA AcceptedFacts ==
  ASSUME NEW s \in Seq(Rows), DistinctRows(s), NEW info \in Infos
  PROVE  AcceptedRows(s, info) \in Seq(Rows) /\ DistinctRows(AcceptedRows(s, info))
<1>1. Row(info, FALSE) \in Rows /\ Row(info, FALSE).info = info
  BY DEF Row, Rows
<1>2. CASE FirstRow(s, info.uuid) # {}
  <2> DEFINE i == CHOOSE i \in FirstRow(s, info.uuid) : TRUE
  <2>1. i \in FirstRow(s, info.uuid)
    BY <1>2
  <2>2. AcceptedRows(s, info) = ReplaceAt(s, i, Row(info, FALSE))
    BY <1>2 DEF AcceptedRows
  <2> HIDE DEF i
  <2>3. i \in DOMAIN s /\ s[i].info.uuid = info.uuid
    BY <2>1, FirstRowFacts
  <2> QED BY <1>1, <2>2, <2>3, ReplaceFacts
<1>3. CASE FirstRow(s, info.uuid) = {}
  <2>1. \A i \in DOMAIN s : s[i].info.uuid # info.uuid
    BY <1>3, FirstRowFacts
  <2>2. AcceptedRows(s, info) = Append(s, Row(info, FALSE))
    BY <1>3 DEF AcceptedRows
  <2> QED BY <1>1, <2>1, <2>2, AppendFacts
<1> QED BY <1>2, <1>3

\* What is read from the file shows what is in the file.
LEMMA LoadFacts ==
  ASSUME file \in Seq(Infos), Distinct(file)
  PROVE  /\ LoadRows \in Seq(Rows) /\ DistinctRows(LoadRows)
         /\ ListOf(LoadRows) = file
<1>1. \A i \in DOMAIN file : Row(file[i], FALSE) \in Rows /\ Row(file[i], FALSE).info = file[i]
  BY SeqDomain DEF Row, Rows
<1>2. LoadRows \in [DOMAIN file -> Rows]
  BY <1>1 DEF LoadRows
<1>3. LoadRows \in Seq(Rows)
  BY <1>2, SeqOfDomain
<1>4. DistinctRows(LoadRows)
  <2>1. /\ DOMAIN LoadRows = DOMAIN file
        /\ \A i \in DOMAIN file : LoadRows[i].info.uuid = file[i].uuid
    BY <1>1 DEF LoadRows
  <2> QED BY <2>1 DEF DistinctRows, Distinct
<1>5. ListOf(LoadRows) = [i \in DOMAIN file |-> file[i]]
  BY <1>1 DEF LoadRows, ListOf
<1>6. file = [i \in DOMAIN file |-> file[i]]
  OBVIOUS
<1> QED BY <1>3, <1>4, <1>5, <1>6

-----------------------------------------------------------------------------
(* The invariant has two parts: the lists, and the editors.                *)

ListInv ==
  /\ file \in Seq(Infos) /\ rows \in [Apps -> Seq(Rows)] /\ last \subseteq Apps
  /\ UniqueUuids /\ FileIsShown

EditorInv ==
  /\ open \in [Apps -> BOOLEAN]
  /\ editor \in [Apps -> Infos \cup {NoEditor}]
  /\ dialog \in [Apps -> {"closed", "open", "null"}]
  /\ twice \in [Apps -> BOOLEAN]
  /\ EditorIsShown /\ DialogInv

\* Together they are the invariant.
LEMMA TwoParts == IInv <=> ListInv /\ EditorInv
BY DEF IInv, ListInv, EditorInv, TypeOK

\* An application's rows are distinct.
LEMMA RowsFacts ==
  ASSUME ListInv, NEW a \in Apps
  PROVE  rows[a] \in Seq(Rows) /\ DistinctRows(rows[a])
BY DistinctListOf DEF ListInv, UniqueUuids

\* Nothing else happens to the lists.
LEMMA SameLists == ListInv /\ UNCHANGED <<file, rows, last>> => ListInv'
BY DEF ListInv, UniqueUuids, FileIsShown, Distinct, ListOf

\* onModelModified writes what the application shows, and whoever writes shows
\* what is in the file.
LEMMA EditedInv ==
  ASSUME ListInv, NEW a \in Apps, NEW s \in Seq(Rows), DistinctRows(s), Edited(a, s)
  PROVE  ListInv'
<1>1. /\ file' = ListOf(s) /\ rows' = [rows EXCEPT ![a] = s] /\ last' = {a}
      /\ rows \in [Apps -> Seq(Rows)]
  BY DEF Edited, ListInv
<1>2. file' \in Seq(Infos) /\ rows' \in [Apps -> Seq(Rows)] /\ last' \subseteq Apps
  BY <1>1, ListOfType
<1>3. rows'[a] = s /\ \A b \in Apps \ {a} : rows'[b] = rows[b]
  BY <1>1
<1>4. Distinct(file') /\ \A b \in Apps : Distinct(ListOf(rows'[b]))
  <2>1. Distinct(ListOf(s))
    BY DistinctListOf
  <2>2. \A b \in Apps : Distinct(ListOf(rows[b]))
    BY DEF ListInv, UniqueUuids
  <2> QED BY <1>1, <1>3, <2>1, <2>2
<1>5. \A b \in last' : file' = ListOf(rows'[b])
  BY <1>1, <1>3
<1> QED BY <1>2, <1>4, <1>5 DEF ListInv, UniqueUuids, FileIsShown, Distinct, ListOf

\* An application that starts shows what is in the file.
LEMMA OpenInv == ASSUME ListInv, NEW a \in Apps, Open(a) PROVE ListInv'
<1>1. /\ file' = file /\ rows' = [rows EXCEPT ![a] = LoadRows] /\ last' = last \cup {a}
      /\ rows \in [Apps -> Seq(Rows)] /\ file \in Seq(Infos) /\ last \subseteq Apps
      /\ Distinct(file)
  BY DEF Open, ListInv, UniqueUuids
<1>2. LoadRows \in Seq(Rows) /\ Distinct(ListOf(LoadRows)) /\ ListOf(LoadRows) = file
  BY <1>1, LoadFacts
<1>3. rows'[a] = LoadRows /\ \A b \in Apps \ {a} : rows'[b] = rows[b]
  BY <1>1
<1>4. Distinct(file') /\ \A b \in Apps : Distinct(ListOf(rows'[b]))
  BY <1>1, <1>2, <1>3 DEF ListInv, UniqueUuids
<1>5. \A b \in last' : file' = ListOf(rows'[b])
  BY <1>1, <1>2, <1>3 DEF ListInv, FileIsShown
<1>6. file' \in Seq(Infos) /\ rows' \in [Apps -> Seq(Rows)] /\ last' \subseteq Apps
  BY <1>1, <1>2
<1> QED BY <1>4, <1>5, <1>6 DEF ListInv, UniqueUuids, FileIsShown, Distinct, ListOf

\* An application that quits shows nothing and claims nothing.
LEMMA QuitInv == ASSUME ListInv, NEW a \in Apps, Quit(a) PROVE ListInv'
<1>1. /\ file' = file /\ rows' = [rows EXCEPT ![a] = <<>>] /\ last' = last \ {a}
      /\ rows \in [Apps -> Seq(Rows)]
  BY DEF Quit, ListInv
<1>2. rows'[a] = <<>> /\ \A b \in Apps \ {a} : rows'[b] = rows[b]
  BY <1>1
<1>3. Distinct(ListOf(<<>>))
  BY DEF Distinct, ListOf
<1>4. Distinct(file') /\ \A b \in Apps : Distinct(ListOf(rows'[b]))
  BY <1>1, <1>2, <1>3 DEF ListInv, UniqueUuids
<1>5. \A b \in last' : file' = ListOf(rows'[b])
  BY <1>1, <1>2 DEF ListInv, FileIsShown
<1>6. file' \in Seq(Infos) /\ rows' \in [Apps -> Seq(Rows)] /\ last' \subseteq Apps
  BY <1>1 DEF ListInv
<1> QED BY <1>4, <1>5, <1>6 DEF ListInv, UniqueUuids, FileIsShown, Distinct, ListOf

\* A status changes no info.
LEMMA RunningInv ==
  ASSUME ListInv, NEW a \in Apps, NEW u, NEW r \in BOOLEAN, SetRunning(a, u, r)
  PROVE  ListInv'
<1> DEFINE s == [i \in DOMAIN rows[a] |->
                   IF rows[a][i].info.uuid = u THEN Row(rows[a][i].info, r)
                   ELSE rows[a][i]]
<1>1. /\ file' = file /\ last' = last /\ rows' = [rows EXCEPT ![a] = s]
      /\ rows \in [Apps -> Seq(Rows)] /\ last \subseteq Apps
  BY DEF SetRunning, ListInv
<1>2. \A i \in DOMAIN rows[a] : rows[a][i] \in Rows
  BY <1>1, SeqDomain
<1>3. \A i \in DOMAIN rows[a] : s[i] \in Rows /\ s[i].info = rows[a][i].info
  BY <1>2 DEF Row, Rows
<1>4. s \in Seq(Rows)
  <2>1. s \in [DOMAIN rows[a] -> Rows]
    BY <1>3
  <2> HIDE DEF s
  <2> QED BY <1>1, <2>1, SeqOfDomain
<1>5. ListOf(s) = ListOf(rows[a])
  BY <1>3 DEF ListOf
<1> HIDE DEF s
<1>6. rows'[a] = s /\ \A b \in Apps \ {a} : rows'[b] = rows[b]
  BY <1>1
<1>7. \A b \in Apps : ListOf(rows'[b]) = ListOf(rows[b])
  BY <1>5, <1>6
<1>8. Distinct(file') /\ \A b \in Apps : Distinct(ListOf(rows'[b]))
  BY <1>1, <1>7 DEF ListInv, UniqueUuids
<1>9. \A b \in last' : file' = ListOf(rows'[b])
  BY <1>1, <1>7 DEF ListInv, FileIsShown
<1>10. file' \in Seq(Infos) /\ rows' \in [Apps -> Seq(Rows)] /\ last' \subseteq Apps
  BY <1>1, <1>4 DEF ListInv
<1> QED BY <1>8, <1>9, <1>10 DEF ListInv, UniqueUuids, FileIsShown, Distinct, ListOf

\* Every step keeps the lists distinct, and the file shown.
LEMMA NextLists == ListInv /\ EditorInv /\ [Next]_vars => ListInv'
<1> SUFFICES ASSUME ListInv, EditorInv, [Next]_vars PROVE ListInv'
  OBVIOUS
<1>1. ASSUME NEW a \in Apps, NEW u \in Uuids, RemoveRow(a, u) PROVE ListInv'
  <2>1. PICK i \in FirstRow(rows[a], u) : Edited(a, RemoveAt(rows[a], i))
    BY <1>1 DEF RemoveRow
  <2>2. i \in DOMAIN rows[a]
    BY RowsFacts, FirstRowFacts
  <2>3. RemoveAt(rows[a], i) \in Seq(Rows) /\ DistinctRows(RemoveAt(rows[a], i))
    BY <2>2, RowsFacts, RemoveFacts, RemoveDistinct
  <2> QED BY <2>1, <2>3, EditedInv
<1>2. ASSUME NEW a \in Apps, NEW u \in Uuids, NEW e \in BOOLEAN, SetEnabled(a, u, e)
      PROVE  ListInv'
  <2>1. PICK i \in FirstRow(rows[a], u) :
          Edited(a, ReplaceAt(rows[a], i, [rows[a][i] EXCEPT !.info.enabled = e]))
    BY <1>2 DEF SetEnabled
  <2> DEFINE r == [rows[a][i] EXCEPT !.info.enabled = e]
  <2>2. i \in DOMAIN rows[a] /\ rows[a][i] \in Rows
    BY RowsFacts, FirstRowFacts, SeqDomain
  <2>3. r \in Rows /\ r.info.uuid = rows[a][i].info.uuid
    BY <2>2 DEF Rows, Infos
  <2> HIDE DEF r
  <2>4. ReplaceAt(rows[a], i, r) \in Seq(Rows) /\ DistinctRows(ReplaceAt(rows[a], i, r))
    BY <2>2, <2>3, RowsFacts, ReplaceFacts
  <2>5. Edited(a, ReplaceAt(rows[a], i, r))
    BY <2>1 DEF r
  <2> QED BY <2>4, <2>5, EditedInv
<1>3. ASSUME NEW a \in Apps, Accept(a) PROVE ListInv'
  <2>1. CASE dialog[a] = "open"
    <3>1. editor[a] \in Infos
      BY <2>1 DEF EditorInv, DialogInv
    <3>2. /\ AcceptedRows(rows[a], editor[a]) \in Seq(Rows)
          /\ DistinctRows(AcceptedRows(rows[a], editor[a]))
      BY <3>1, RowsFacts, AcceptedFacts
    <3>3. Edited(a, AcceptedRows(rows[a], editor[a]))
      BY <1>3, <2>1 DEF Accept
    <3> QED BY <3>2, <3>3, EditedInv
  <2>2. CASE dialog[a] # "open"
    BY <1>3, <2>2, SameLists DEF Accept
  <2> QED BY <2>1, <2>2
<1>4. ASSUME NEW a \in Apps, NEW u \in Uuids, Edit(a, u) PROVE ListInv'
  BY <1>4, SameLists DEF Edit, Ask
<1>5. ASSUME NEW a \in Apps, NewMount(a) \/ ChangeEditor(a) \/ Reject(a) PROVE ListInv'
  BY <1>5, SameLists DEF NewMount, Ask, ChangeEditor, Reject
<1>6. CASE UNCHANGED vars
  BY <1>6, SameLists DEF vars
<1> QED BY <1>1, <1>2, <1>3, <1>4, <1>5, <1>6, OpenInv, QuitInv, RunningInv DEF Next

\* An editor and its dialog belong together, or were asked for twice.
Consistent(e, d, w) ==
  /\ (d = "open" <=> e # NoEditor) \/ w
  /\ d = "null" => w
  /\ d = "open" => e # NoEditor

\* Nothing else happens to the editors.
LEMMA SameEditors ==
  EditorInv /\ open' \in [Apps -> BOOLEAN] /\ UNCHANGED <<editor, dialog, twice>>
    => EditorInv'
BY DEF EditorInv, EditorIsShown, DialogInv

\* The editor and the dialog of one application change.
LEMMA EditorOfOne ==
  ASSUME EditorInv, NEW a \in Apps,
         NEW e \in Infos \cup {NoEditor}, NEW d \in {"closed", "open", "null"},
         NEW w \in BOOLEAN, Consistent(e, d, w), open' \in [Apps -> BOOLEAN],
         editor' = [editor EXCEPT ![a] = e], dialog' = [dialog EXCEPT ![a] = d],
         twice' = [twice EXCEPT ![a] = w]
  PROVE  EditorInv'
<1>1. /\ editor' \in [Apps -> Infos \cup {NoEditor}]
      /\ dialog' \in [Apps -> {"closed", "open", "null"}]
      /\ twice' \in [Apps -> BOOLEAN]
  BY DEF EditorInv
<1>2. \A b \in Apps \ {a} :
        editor'[b] = editor[b] /\ dialog'[b] = dialog[b] /\ twice'[b] = twice[b]
  BY DEF EditorInv
<1>3. editor'[a] = e /\ dialog'[a] = d /\ twice'[a] = w
  BY DEF EditorInv
<1> QED BY <1>1, <1>2, <1>3 DEF EditorInv, EditorIsShown, DialogInv, Consistent

\* Every step keeps the editors shown, except after a second request.
LEMMA NextEditors == ListInv /\ EditorInv /\ [Next]_vars => EditorInv'
<1> SUFFICES ASSUME ListInv, EditorInv, [Next]_vars PROVE EditorInv'
  OBVIOUS
<1> USE DEF EditorInv
<1>1. ASSUME NEW a \in Apps, Open(a) \/ Quit(a) PROVE EditorInv'
  <2>1. CASE Open(a)
    BY <2>1, SameEditors DEF Open
  <2>2. CASE Quit(a)
    <3>1. Consistent(NoEditor, "closed", FALSE)
      BY DEF Consistent
    <3>2. /\ editor' = [editor EXCEPT ![a] = NoEditor]
          /\ dialog' = [dialog EXCEPT ![a] = "closed"]
          /\ twice' = [twice EXCEPT ![a] = FALSE] /\ open' \in [Apps -> BOOLEAN]
      BY <2>2 DEF Quit
    <3> HIDE DEF EditorInv
    <3> QED BY <3>1, <3>2, EditorOfOne
  <2> QED BY <1>1, <2>1, <2>2
<1>2. ASSUME NEW a \in Apps, NEW info \in Infos, open' = open, Ask(a, info)
      PROVE  EditorInv'
  <2>1. info # NoEditor
    BY MountListAssumption DEF MountListAssumption
  <2>2. CASE editor[a] = NoEditor
    <3>1. Consistent(info, "open", twice[a])
      BY <2>1 DEF Consistent
    <3>2. /\ editor' = [editor EXCEPT ![a] = info]
          /\ dialog' = [dialog EXCEPT ![a] = "open"]
          /\ twice' = [twice EXCEPT ![a] = twice[a]] /\ open' \in [Apps -> BOOLEAN]
          /\ twice[a] \in BOOLEAN
      BY <1>2, <2>2 DEF Ask
    <3> HIDE DEF EditorInv
    <3> QED BY <3>1, <3>2, EditorOfOne
  <2>3. CASE editor[a] # NoEditor
    <3>1. Consistent(editor[a], "null", TRUE)
      BY DEF Consistent
    <3>2. /\ editor' = [editor EXCEPT ![a] = editor[a]]
          /\ dialog' = [dialog EXCEPT ![a] = "null"]
          /\ twice' = [twice EXCEPT ![a] = TRUE] /\ open' \in [Apps -> BOOLEAN]
          /\ editor[a] \in Infos \cup {NoEditor}
      BY <1>2, <2>3 DEF Ask
    <3> HIDE DEF EditorInv
    <3> QED BY <3>1, <3>2, EditorOfOne
  <2> QED BY <2>2, <2>3
<1>3. ASSUME NEW a \in Apps, NEW u \in Uuids, Edit(a, u)
      PROVE  EditorInv'
  <2>1. PICK i \in FirstRow(rows[a], u) : Ask(a, rows[a][i].info)
    BY <1>3 DEF Edit
  <2>2. rows[a][i] \in Rows
    BY RowsFacts, SeqDomain DEF FirstRow
  <2>3. rows[a][i].info \in Infos /\ open' = open
    BY <2>1, <2>2 DEF Rows, Ask
  <2> QED BY <1>2, <2>1, <2>3
<1>4. ASSUME NEW a \in Apps, NewMount(a) PROVE EditorInv'
  <2>1. PICK u \in Fresh : Ask(a, [uuid |-> u, enabled |-> FALSE, fields |-> Default])
    BY <1>4 DEF NewMount
  <2>2. [uuid |-> u, enabled |-> FALSE, fields |-> Default] \in Infos
    BY MountListAssumption DEF MountListAssumption, Fresh, Infos
  <2> QED BY <1>2, <2>1, <2>2 DEF Ask
<1>5. ASSUME NEW a \in Apps, ChangeEditor(a) PROVE EditorInv'
  <2>1. editor[a] \in Infos
    BY <1>5 DEF ChangeEditor, DialogInv
  <2>2. PICK e \in BOOLEAN, f \in Fields :
          editor' = [editor EXCEPT ![a] = [@ EXCEPT !.enabled = e, !.fields = f]]
    BY <1>5 DEF ChangeEditor
  <2> DEFINE info == [editor[a] EXCEPT !.enabled = e, !.fields = f]
  <2>3. info \in Infos
    BY <2>1 DEF Infos
  <2>4. editor' = [editor EXCEPT ![a] = info]
    BY <2>2
  <2> HIDE DEF info
  <2>5. Consistent(info, "open", twice[a])
    BY <2>3, MountListAssumption DEF Consistent, MountListAssumption
  <2>6. /\ dialog' = [dialog EXCEPT ![a] = "open"]
        /\ twice' = [twice EXCEPT ![a] = twice[a]] /\ open' \in [Apps -> BOOLEAN]
        /\ twice[a] \in BOOLEAN
    BY <1>5 DEF ChangeEditor
  <2> HIDE DEF EditorInv
  <2> QED BY <2>3, <2>4, <2>5, <2>6, EditorOfOne
<1>6. ASSUME NEW a \in Apps, Accept(a) \/ Reject(a) PROVE EditorInv'
  <2> DEFINE e == IF dialog[a] = "open" THEN NoEditor ELSE editor[a]
  <2>1. /\ editor' = [editor EXCEPT ![a] = e] /\ e \in Infos \cup {NoEditor}
        /\ dialog' = [dialog EXCEPT ![a] = "closed"]
        /\ twice' = [twice EXCEPT ![a] = twice[a]] /\ open' \in [Apps -> BOOLEAN]
        /\ twice[a] \in BOOLEAN
    BY <1>6 DEF Accept, Reject, CloseDialog
  <2>2. Consistent(e, "closed", twice[a])
    <3>1. dialog[a] # "open" => editor[a] = NoEditor \/ twice[a]
      BY DEF EditorIsShown
    <3>2. e = NoEditor \/ twice[a]
      BY <3>1
    <3> HIDE DEF e
    <3> QED BY <3>2 DEF Consistent
  <2> HIDE DEF e, EditorInv
  <2> QED BY <2>1, <2>2, EditorOfOne
<1>7. ASSUME NEW a \in Apps, NEW u \in Uuids, NEW b \in BOOLEAN,
             RemoveRow(a, u) \/ SetEnabled(a, u, b) \/ SetRunning(a, u, b)
      PROVE  EditorInv'
  BY <1>7, SameEditors DEF RemoveRow, SetEnabled, SetRunning
<1>8. CASE UNCHANGED vars
  BY <1>8, SameEditors DEF vars
<1> QED BY <1>1, <1>3, <1>4, <1>5, <1>6, <1>7, <1>8 DEF Next

-----------------------------------------------------------------------------
(* What a step may write.                                                  *)

\* A uuid is in a list if there is an entry of it.
LEMMA EntryOfUuid ==
  ASSUME NEW s, NEW u
  PROVE  u \in UuidsIn(s) <=> Entry(s, u) # {}
BY DEF UuidsIn, Entry

\* The entries that rows give.
LEMMA EntryOfInfos ==
  ASSUME NEW s, NEW x
  PROVE  Entry(ListOf(s), x) = {s[i].info : i \in {i \in DOMAIN s : s[i].info.uuid = x}}
<1> DEFINE l == ListOf(s)
<1>1. DOMAIN l = DOMAIN s /\ \A i \in DOMAIN s : l[i] = s[i].info
  BY DEF ListOf
<1> HIDE DEF l
<1>2. Entry(l, x) = {s[i].info : i \in {i \in DOMAIN s : s[i].info.uuid = x}}
  BY <1>1 DEF Entry
<1> QED BY <1>2 DEF l

\* Two lists have the same entries of a uuid if each has those of the other.
LEMMA SameEntries ==
  ASSUME NEW s, NEW t, NEW x,
         \A i \in DOMAIN s : s[i].info.uuid = x =>
           \E k \in DOMAIN t : t[k].info = s[i].info,
         \A k \in DOMAIN t : t[k].info.uuid = x =>
           \E i \in DOMAIN s : s[i].info = t[k].info
  PROVE  Entry(ListOf(s), x) = Entry(ListOf(t), x)
<1>1. Entry(ListOf(s), x) = {s[i].info : i \in {i \in DOMAIN s : s[i].info.uuid = x}}
  BY EntryOfInfos
<1>2. Entry(ListOf(t), x) = {t[i].info : i \in {i \in DOMAIN t : t[i].info.uuid = x}}
  BY EntryOfInfos
<1> QED BY <1>1, <1>2

\* Taking a row out changes the entries of its uuid only.
LEMMA RemoveEntry ==
  ASSUME NEW s \in Seq(Rows), NEW i \in DOMAIN s, NEW x, x # s[i].info.uuid
  PROVE  Entry(ListOf(RemoveAt(s, i)), x) = Entry(ListOf(s), x)
<1> DEFINE r == RemoveAt(s, i)
<1>1. Len(s) \in Nat /\ DOMAIN s = 1..Len(s) /\ i \in 1..Len(s)
  BY SeqDomain
<1>2. /\ DOMAIN r = 1..(Len(s) - 1)
      /\ \A k \in 1..(Len(s) - 1) : r[k] = IF k < i THEN s[k] ELSE s[k + 1]
  BY RemoveFacts
<1> HIDE DEF r
<1>3. ASSUME NEW k \in DOMAIN r PROVE \E j \in DOMAIN s : s[j] = r[k]
  BY <1>1, <1>2
<1>4. ASSUME NEW j \in DOMAIN s, j # i PROVE \E k \in DOMAIN r : r[k] = s[j]
  <2>1. CASE j < i
    BY <1>1, <1>2, <2>1
  <2>2. CASE ~(j < i)
    <3>1. j - 1 \in DOMAIN r /\ ~(j - 1 < i) /\ (j - 1) + 1 = j
      BY <1>1, <1>2, <1>4, <2>2
    <3> QED BY <1>2, <3>1
  <2> QED BY <2>1, <2>2
<1>5. Entry(ListOf(r), x) = Entry(ListOf(s), x)
  BY <1>3, <1>4, SameEntries
<1> QED BY <1>5 DEF r

\* So does replacing it by another of its uuid.
LEMMA ReplaceEntry ==
  ASSUME NEW s \in Seq(Rows), NEW i \in DOMAIN s, NEW e \in Rows,
         e.info.uuid = s[i].info.uuid, NEW x, x # s[i].info.uuid
  PROVE  Entry(ListOf(ReplaceAt(s, i, e)), x) = Entry(ListOf(s), x)
<1>1. /\ DOMAIN ReplaceAt(s, i, e) = DOMAIN s
      /\ ReplaceAt(s, i, e)[i] = e
      /\ \A k \in DOMAIN s \ {i} : ReplaceAt(s, i, e)[k] = s[k]
  BY DEF ReplaceAt
<1> DEFINE t == ReplaceAt(s, i, e)
<1> HIDE DEF t
<1>2. \A k \in DOMAIN t : t[k].info.uuid = x => k \in DOMAIN s /\ s[k].info = t[k].info
  BY <1>1 DEF t
<1>3. \A k \in DOMAIN s : s[k].info.uuid = x => k \in DOMAIN t /\ t[k].info = s[k].info
  BY <1>1 DEF t
<1>4. Entry(ListOf(t), x) = Entry(ListOf(s), x)
  BY <1>2, <1>3, SameEntries
<1> QED BY <1>4 DEF t

\* And adding a row of it.
LEMMA AppendEntry ==
  ASSUME NEW s \in Seq(Rows), NEW e \in Rows, NEW x, x # e.info.uuid
  PROVE  Entry(ListOf(Append(s, e)), x) = Entry(ListOf(s), x)
<1>1. Len(s) \in Nat /\ DOMAIN s = 1..Len(s)
  BY SeqDomain
<1>2. /\ DOMAIN Append(s, e) = 1..(Len(s) + 1)
      /\ \A i \in DOMAIN s : i \in DOMAIN Append(s, e) /\ Append(s, e)[i] = s[i]
      /\ Append(s, e)[Len(s) + 1] = e
  BY <1>1
<1>3. \A i \in DOMAIN Append(s, e) : i \in DOMAIN s \/ i = Len(s) + 1
  BY <1>1, <1>2
<1> DEFINE t == Append(s, e)
<1> HIDE DEF t
<1>4. \A k \in DOMAIN t : t[k].info.uuid = x => k \in DOMAIN s /\ s[k].info = t[k].info
  BY <1>2, <1>3 DEF t
<1>5. \A k \in DOMAIN s : k \in DOMAIN t /\ t[k].info = s[k].info
  BY <1>2 DEF t
<1>6. Entry(ListOf(t), x) = Entry(ListOf(s), x)
  BY <1>4, <1>5, SameEntries
<1> QED BY <1>6 DEF t

\* What is accepted changes the entries of its uuid only.
LEMMA AcceptedEntry ==
  ASSUME NEW s \in Seq(Rows), DistinctRows(s), NEW info \in Infos,
         NEW x, x # info.uuid
  PROVE  Entry(ListOf(AcceptedRows(s, info)), x) = Entry(ListOf(s), x)
<1>1. Row(info, FALSE) \in Rows /\ Row(info, FALSE).info = info
  BY DEF Row, Rows
<1>2. CASE FirstRow(s, info.uuid) # {}
  <2> DEFINE i == CHOOSE i \in FirstRow(s, info.uuid) : TRUE
  <2>1. i \in FirstRow(s, info.uuid)
    BY <1>2
  <2>2. AcceptedRows(s, info) = ReplaceAt(s, i, Row(info, FALSE))
    BY <1>2 DEF AcceptedRows
  <2> HIDE DEF i
  <2>3. i \in DOMAIN s /\ s[i].info.uuid = info.uuid
    BY <2>1, FirstRowFacts
  <2> DEFINE e == Row(info, FALSE)
  <2>4. e \in Rows /\ e.info.uuid = s[i].info.uuid /\ x # s[i].info.uuid
    BY <1>1, <2>3
  <2>5. AcceptedRows(s, info) = ReplaceAt(s, i, e)
    BY <2>2
  <2> HIDE DEF e
  <2>6. Entry(ListOf(ReplaceAt(s, i, e)), x) = Entry(ListOf(s), x)
    BY <2>3, <2>4, ReplaceEntry
  <2> QED BY <2>5, <2>6
<1>3. CASE FirstRow(s, info.uuid) = {}
  <2>1. AcceptedRows(s, info) = Append(s, Row(info, FALSE))
    BY <1>3 DEF AcceptedRows
  <2> QED BY <1>1, <2>1, AppendEntry
<1> QED BY <1>2, <1>3

\* What a step may do to the file.
StepWrites == StepWritesOneMount /\ StepAddsByEditor

\* An application that shows what is in the file and writes a list that differs
\* from it in the entries of one uuid, writes an edit.
LEMMA WritesOne ==
  ASSUME ListInv, NEW a \in Apps, NEW s, NEW u \in Uuids, Edited(a, s),
         \A x \in Uuids \ {u} : Entry(ListOf(s), x) = Entry(ListOf(rows[a]), x),
         UuidsIn(ListOf(s)) \subseteq Uuids,
         \/ Entry(ListOf(s), u) = {}
         \/ Entry(ListOf(rows[a]), u) # {}
         \/ dialog[a] = "open" /\ editor[a].uuid = u /\ editor'[a] = NoEditor
  PROVE  StepWrites
<1>1. file' = ListOf(s) /\ last' = {a}
  BY DEF Edited
<1>2. CASE a \notin last
  BY <1>1, <1>2 DEF StepWrites, StepWritesOneMount, StepAddsByEditor
<1>3. CASE a \in last
  <2>1. file = ListOf(rows[a])
    BY <1>3 DEF ListInv, FileIsShown
  <2>2. StepWritesOneMount
    BY <1>1, <2>1 DEF StepWritesOneMount
  <2>3. ASSUME NEW v \in UuidsIn(file') \ UuidsIn(file)
        PROVE  dialog[a] = "open" /\ editor[a].uuid = v /\ editor'[a] = NoEditor
    <3>1. Entry(file', v) # {} /\ Entry(file, v) = {} /\ v \in Uuids
      BY <1>1, <2>3, EntryOfUuid
    <3>2. v = u
      BY <1>1, <2>1, <3>1
    <3> QED BY <1>1, <2>1, <3>1, <3>2
  <2>4. StepAddsByEditor
    BY <1>1, <2>3 DEF StepAddsByEditor
  <2> QED BY <2>2, <2>4 DEF StepWrites
<1> QED BY <1>2, <1>3

\* The uuids of rows.
LEMMA UuidsOfRows ==
  ASSUME NEW s \in Seq(Rows)
  PROVE  UuidsIn(ListOf(s)) \subseteq Uuids
<1>1. \A i \in DOMAIN s : s[i].info.uuid \in Uuids
  <2>1. \A i \in DOMAIN s : s[i] \in Rows
    BY SeqDomain
  <2> QED BY <2>1 DEF Rows, Infos
<1> QED BY <1>1 DEF UuidsIn, ListOf

\* The row of a uuid is an entry of it.
LEMMA EntryOfRow ==
  ASSUME NEW s \in Seq(Rows), NEW i \in DOMAIN s
  PROVE  Entry(ListOf(s), s[i].info.uuid) # {}
BY DEF Entry, ListOf

\* A step that leaves the file alone writes nothing.
LEMMA WritesNothing == file' = file => StepWrites
BY DEF StepWrites, StepWritesOneMount, StepAddsByEditor

\* Every step writes at most an edit.
LEMMA NextWrites == ListInv /\ EditorInv /\ [Next]_vars => StepWrites
<1> SUFFICES ASSUME ListInv, EditorInv, [Next]_vars PROVE StepWrites
  OBVIOUS
<1>1. ASSUME NEW a \in Apps, NEW u \in Uuids, RemoveRow(a, u) PROVE StepWrites
  <2>1. PICK i \in FirstRow(rows[a], u) : Edited(a, RemoveAt(rows[a], i))
    BY <1>1 DEF RemoveRow
  <2>2. i \in DOMAIN rows[a] /\ rows[a][i].info.uuid = u
    BY RowsFacts, FirstRowFacts
  <2>3. \A x \in Uuids \ {u} :
          Entry(ListOf(RemoveAt(rows[a], i)), x) = Entry(ListOf(rows[a]), x)
    BY <2>2, RowsFacts, RemoveEntry
  <2>4. UuidsIn(ListOf(RemoveAt(rows[a], i))) \subseteq Uuids
    BY <2>2, RowsFacts, RemoveFacts, UuidsOfRows
  <2>5. Entry(ListOf(rows[a]), u) # {}
    BY <2>2, RowsFacts, EntryOfRow
  <2> QED BY <2>1, <2>3, <2>4, <2>5, WritesOne
<1>2. ASSUME NEW a \in Apps, NEW u \in Uuids, NEW e \in BOOLEAN, SetEnabled(a, u, e)
      PROVE  StepWrites
  <2>1. PICK i \in FirstRow(rows[a], u) :
          Edited(a, ReplaceAt(rows[a], i, [rows[a][i] EXCEPT !.info.enabled = e]))
    BY <1>2 DEF SetEnabled
  <2> DEFINE r == [rows[a][i] EXCEPT !.info.enabled = e]
             s == ReplaceAt(rows[a], i, r)
  <2>2. /\ i \in DOMAIN rows[a] /\ rows[a][i] \in Rows
        /\ rows[a][i].info.uuid = u
    BY RowsFacts, FirstRowFacts, SeqDomain
  <2>3. r \in Rows /\ r.info.uuid = rows[a][i].info.uuid
    BY <2>2 DEF Rows, Infos
  <2> HIDE DEF r
  <2>4. \A x \in Uuids \ {u} : Entry(ListOf(s), x) = Entry(ListOf(rows[a]), x)
    BY <2>2, <2>3, RowsFacts, ReplaceEntry
  <2>5. UuidsIn(ListOf(s)) \subseteq Uuids
    BY <2>2, <2>3, RowsFacts, ReplaceFacts, UuidsOfRows
  <2>6. Entry(ListOf(rows[a]), u) # {}
    BY <2>2, RowsFacts, EntryOfRow
  <2>7. Edited(a, s)
    BY <2>1 DEF r
  <2> HIDE DEF s
  <2> QED BY <2>4, <2>5, <2>6, <2>7, WritesOne
<1>3. ASSUME NEW a \in Apps, Accept(a) PROVE StepWrites
  <2>1. CASE dialog[a] = "open"
    <3> DEFINE s == AcceptedRows(rows[a], editor[a])
    <3>1. editor[a] \in Infos /\ editor[a].uuid \in Uuids
      BY <2>1 DEF EditorInv, DialogInv, Infos
    <3>2. editor' = [editor EXCEPT ![a] = NoEditor] /\ Edited(a, s)
      BY <1>3, <2>1 DEF Accept, CloseDialog
    <3>3. editor'[a] = NoEditor
      BY <3>2 DEF EditorInv
    <3>4. \A x \in Uuids \ {editor[a].uuid} :
            Entry(ListOf(s), x) = Entry(ListOf(rows[a]), x)
      BY <3>1, RowsFacts, AcceptedEntry
    <3>5. UuidsIn(ListOf(s)) \subseteq Uuids
      BY <3>1, RowsFacts, AcceptedFacts, UuidsOfRows
    <3> HIDE DEF s
    <3> QED BY <2>1, <3>1, <3>2, <3>3, <3>4, <3>5, WritesOne
  <2>2. CASE dialog[a] # "open"
    BY <1>3, <2>2, WritesNothing DEF Accept
  <2> QED BY <2>1, <2>2
<1>4. ASSUME NEW a \in Apps, NEW u \in Uuids, NEW b \in BOOLEAN,
             Edit(a, u) \/ SetRunning(a, u, b)
      PROVE  StepWrites
  BY <1>4, WritesNothing DEF Edit, Ask, SetRunning
<1>5. ASSUME NEW a \in Apps,
             Open(a) \/ Quit(a) \/ NewMount(a) \/ ChangeEditor(a) \/ Reject(a)
      PROVE  StepWrites
  BY <1>5, WritesNothing DEF Open, Quit, NewMount, Ask, ChangeEditor, Reject
<1>6. CASE UNCHANGED vars
  BY <1>6, WritesNothing DEF vars
<1> QED BY <1>1, <1>2, <1>3, <1>4, <1>5, <1>6 DEF Next

-----------------------------------------------------------------------------
(* The theorems.                                                           *)

\* The invariant holds before the first application starts.
LEMMA InitIInv == Init => IInv
<1> SUFFICES ASSUME Init PROVE IInv
  OBVIOUS
<1>1. ListInv
  BY DEF Init, ListInv, UniqueUuids, FileIsShown, Distinct, ListOf
<1>2. EditorInv
  BY DEF Init, EditorInv, EditorIsShown, DialogInv
<1> QED BY <1>1, <1>2, TwoParts

\* The invariant of the lists and the editors.
THEOREM Invariance == Spec => []IInv
<1>1. IInv /\ [Next]_vars => IInv'
  <2> SUFFICES ASSUME IInv, [Next]_vars PROVE ListInv' /\ EditorInv'
    BY DEF IInv, ListInv, EditorInv, TypeOK
  <2> QED BY TwoParts, NextLists, NextEditors
<1> QED BY <1>1, InitIInv, PTL DEF Spec

\* The values of the state are of their types.
THEOREM TypeCorrect == Spec => []TypeOK
BY Invariance, PTL DEF IInv

\* However many applications edit: no list, and not the file that Daemon reads,
\* has two mounts of one uuid.
THEOREM UuidsAreUnique == Spec => []UniqueUuids
BY Invariance, PTL DEF IInv

\* The service loads what the application that wrote last shows.
THEOREM FileShown == Spec => []FileIsShown
BY Invariance, PTL DEF IInv

\* An editor is out of reach only after a second request for one.
THEOREM EditorShown == Spec => []EditorIsShown
BY Invariance, PTL DEF IInv

\* The file changes by what a user does in an editor or to a row, one mount at a
\* time, except where an application writes that has not seen another's change.
THEOREM EditsOnly == Spec => WritesAreEdits
<1>1. IInv /\ [Next]_vars => [StepWritesOneMount /\ StepAddsByEditor]_vars
  BY TwoParts, NextWrites DEF StepWrites
<1> QED BY <1>1, Invariance, PTL DEF Spec, WritesAreEdits
=============================================================================
