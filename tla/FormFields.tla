------------------------------ MODULE FormFields ------------------------------
(***************************************************************************)
(* The two forms a request's body can be: fields and files of form data,   *)
(* and URL-encoded fields (model/request-body.ts, components/              *)
(* body-editor.tsx, key-value-editor.tsx).  Each keeps rows of its own     *)
(* while the other is shown.  A file lands in a row of its own, dropped on *)
(* the table or chosen in a row; what is sent are the rows switched on,    *)
(* and a send is refused over a row that cannot be sent.                   *)
(***************************************************************************)
EXTENDS KeyValueRows, FiniteSets

CONSTANTS
    Files,      \* files, by their names
    Names,      \* names typed for a field
    MaxEdits    \* a bound

VARIABLES
    type,           \* "form-data" or "url-encoded"
    formData, urlEncoded,
    sent,           \* the rows of the body sent last
    edits

vars == <<type, formData, urlEncoded, sent, edits>>

Shown == IF type = "form-data" THEN formData ELSE urlEncoded
HasFile(row) == row.file \notin {TextField, FileField}

-----------------------------------------------------------------------------
(* What the rows amount to.                                                *)

\* Mutant: a row with nothing but a file counts as a blank one.
ActiveTyped(rows) ==
    SelectSeq(rows, LAMBDA row : row.enabled /\ (row.key # Blank \/ row.value # Blank))

\* getActiveBodyFields
GetActiveBodyFields(rows) == SelectSeq(rows, LAMBDA row : row.enabled /\ HasContent(row))

\* getRequestBodyValidationMessage
Valid(rows) ==
    \A i \in DOMAIN GetActiveBodyFields(rows) :
        LET row == GetActiveBodyFields(rows)[i] IN
        row.key # Blank /\ (type = "form-data" => row.file # FileField)

\* serializeRequestBody: rows without a name, and without the file they are
\* for, are passed over.  A URL-encoded row is sent as text.
Serialized(rows) ==
    SelectSeq(rows, LAMBDA row :
        /\ row.enabled /\ HasContent(row) /\ row.key # Blank
        /\ type = "form-data" => row.file # FileField)

-----------------------------------------------------------------------------
(* Editing.                                                                *)

\* Mutant: each file goes to the blank row of the table as it was.
DroppedTogether(rows, files) ==
    LET blank == EmptyEntry(rows) IN
    NormalizeEntries(rows \o [i \in DOMAIN files |->
        [blank EXCEPT !.key = files[i], !.enabled = TRUE, !.file = files[i]]])

\* attachFiles: each file takes the blank row there is, or a new one.
AttachFiles(rows, files) ==
    LET Attached(next, file) ==
            LET blanks == SelectSeq(next, IsBlank)
                blank == IF blanks # <<>> THEN Head(blanks) ELSE EmptyEntry(next)
            IN Append(SelectSeq(next, LAMBDA row : row.id # blank.id),
                      [blank EXCEPT !.key = file, !.enabled = TRUE, !.file = file])
    IN NormalizeEntries(FoldLeft(Attached, rows, files))

\* The type of a field is changed: a text field gives its file up.
WithKind(row, kind) ==
    [row EXCEPT !.file = IF kind = "text" THEN TextField
                         ELSE IF @ = TextField THEN FileField ELSE @]

\* A file is chosen or given up in a row; a row without a name takes the file's.
WithFile(row, file) ==
    [row EXCEPT !.file = file,
                !.key = IF @ = Blank /\ file # FileField THEN file ELSE @]

Acts == edits < MaxEdits /\ edits' = edits + 1

Put(rows) ==
    /\ formData' = IF type = "form-data" THEN rows ELSE formData
    /\ urlEncoded' = IF type = "url-encoded" THEN rows ELSE urlEncoded
    /\ UNCHANGED <<type, sent>>

EditRows ==
    /\ Acts
    /\ \E rows \in Edits(Shown, Names \union {Blank}, {Blank, "typed"}) : Put(rows)

ChangeKind ==
    /\ Acts /\ type = "form-data"
    /\ \E i \in DOMAIN formData, kind \in {"text", "file"} :
          Put(UpdateBy(formData, formData[i].id, LAMBDA row : WithKind(row, kind), FALSE))

ChooseFile ==
    /\ Acts /\ type = "form-data"
    /\ \E i \in DOMAIN formData, file \in Files \union {FileField} :
          /\ formData[i].file # TextField
          /\ Put(UpdateBy(formData, formData[i].id, LAMBDA row : WithFile(row, file), TRUE))

DropFiles ==
    /\ Acts /\ type = "form-data"
    /\ \E first, second \in Files :
          \/ Put(AttachFiles(formData, <<first>>))
          \/ Put(AttachFiles(formData, <<first, second>>))

SelectType ==
    /\ Acts
    /\ type' = IF type = "form-data" THEN "url-encoded" ELSE "form-data"
    /\ UNCHANGED <<formData, urlEncoded, sent>>

Send ==
    /\ Valid(Shown) /\ sent' = Serialized(Shown)
    /\ UNCHANGED <<type, formData, urlEncoded, edits>>

Init ==
    /\ type = "form-data"
    /\ formData = <<EmptyEntry(<<>>)>> /\ urlEncoded = <<EmptyEntry(<<>>)>>
    /\ sent = <<>> /\ edits = 0

Next == EditRows \/ ChangeKind \/ ChooseFile \/ DropFiles \/ SelectType \/ Send

-----------------------------------------------------------------------------

Row == [id : 1..(2 * MaxEdits + 1), key : Names \union Files \union {Blank},
        value : {Blank, "typed"}, enabled : BOOLEAN, secret : {"no"},
        file : Files \union {TextField, FileField}]

\* Type invariant of FormFields; a table ends in its one blank row.
TypeOK ==
    /\ \A rows \in {formData, urlEncoded} :
          /\ \A i \in DOMAIN rows : rows[i] \in Row
          /\ \A i \in DOMAIN rows : IsBlank(rows[i]) <=> i = Len(rows)
    /\ type \in {"form-data", "url-encoded"} /\ edits \in 0..MaxEdits

\* A body that is sent says all that stands switched on in the table, in its
\* order: "a field name is required", "choose a file for each file field", and
\* what is left out without a word is only what is blank or switched off.
\* (The validation asks of getActiveBodyFields what the serializer passes over.)
SentAsShown ==
    sent' # sent => sent' = SelectSeq(Shown, LAMBDA row : row.enabled /\ ~IsBlank(row))

\* Rows are told apart by their identifiers, however files were dropped, rows
\* cleared and numbers used again, so that no edit changes two of them and a file
\* stays in the table until its row is given up.  (attachFiles, updateEntry)
Identified ==
    \A rows \in {formData, urlEncoded} :
        Cardinality({rows[i].id : i \in DOMAIN rows}) = Len(rows)
OneRowChanges ==
    \A change \in {<<formData, formData'>>, <<urlEncoded, urlEncoded'>>} :
        Cardinality({i \in DOMAIN change[1] :
            HasContent(change[1][i]) /\ ~Contains(change[2], change[1][i])}) <= 1
=============================================================================
