----------------------------- MODULE KeyValueRows -----------------------------
(***************************************************************************)
(* The rows of a request's tables and what their editor makes of them      *)
(* (components/key-value-editor.tsx): headers, parameters, form fields.     *)
(* A row is found by its identifier; the editor keeps one blank row, which *)
(* the next entry is typed into.                                           *)
(***************************************************************************)
EXTENDS Naturals, SequencesExt

\* A blank field; the identifier of the blank row of a saved request, which
\* ends in "-empty" and not in a number.
Blank == "blank"
Unnumbered == 0

\* What a row holds beside its value: nothing, or it is a row for a file, with
\* or without one.
TextField == "text"
FileField == "file"

HasContent(entry) ==
    entry.key # Blank \/ entry.value # Blank \/ entry.file \notin {TextField, FileField}
IsBlank(entry) == ~HasContent(entry)

\* createEmptyHeader and createEmptyRequestQueryParam: numbered after the rows
\* they are shown.
EmptyEntry(entries) ==
    [id |-> 1 + Max({Unnumbered} \union {entries[i].id : i \in DOMAIN entries}),
     key |-> Blank, value |-> Blank, enabled |-> FALSE, secret |-> "no",
     file |-> TextField]

\* Mutant: the blank row counts as an entry like any other.
NormalizeEntriesOnce(entries) == Append(entries, EmptyEntry(entries))

\* normalizeEntries: one blank row, at the end, an enabled one before others.
NormalizeEntries(entries) ==
    LET blanks == SelectSeq(entries, IsBlank)
        enabled == SelectSeq(blanks, LAMBDA e : e.enabled) IN
    SelectSeq(entries, HasContent) \o
        << CASE enabled # <<>> -> Head(enabled)
             [] enabled = <<>> /\ blanks # <<>> -> Head(blanks)
             [] OTHER -> EmptyEntry(entries) >>

\* The first row of an identifier; index 0 if there is none.
IndexOf(entries, id) == SelectInSeq(entries, LAMBDA e : e.id = id)

\* What typing makes of one entry: a value typed over a stored secret sets it.
Updated(entry, field, input) ==
    [entry EXCEPT ![field] = input,
                  !.secret = IF field = "value" /\ @ # "no" THEN "set" ELSE @]

\* updateEntry: every row of the identifier is changed, a row that was blank is
\* switched on, and all of them go if text was typed and leaves the first blank.
UpdateBy(entries, id, Update(_), typed) ==
    LET Next(entry) ==
            LET next == Update(entry) IN
            IF IsBlank(entry) /\ HasContent(next) THEN [next EXCEPT !.enabled = TRUE] ELSE next
        next == [i \in DOMAIN entries |->
                    IF entries[i].id = id THEN Next(entries[i]) ELSE entries[i]]
        first == IndexOf(entries, id)
        cleared == typed /\ HasContent(entries[first]) /\ IsBlank(next[first]) IN
    NormalizeEntries(IF cleared THEN SelectSeq(next, LAMBDA e : e.id # id) ELSE next)

UpdateEntry(entries, id, field, input) ==
    UpdateBy(entries, id, LAMBDA e : Updated(e, field, input), field # "enabled")

RemoveEntry(entries, id) ==
    NormalizeEntries(SelectSeq(entries, LAMBDA e : e.id # id))

\* swapEntries, once a row has been dropped on another.
SwapEntries(entries, source, target) ==
    LET i == IndexOf(entries, source)  j == IndexOf(entries, target) IN
    IF i = 0 \/ j = 0 \/ i = j THEN entries
    ELSE NormalizeEntries([entries EXCEPT ![i] = entries[j], ![j] = entries[i]])

\* What the user can make of the rows on screen.  The box of a blank row cannot
\* be ticked, nor can it be dragged or deleted; a row for a file shows no value.
Edits(entries, keys, values) ==
    LET ids == {entries[i].id : i \in DOMAIN entries}
        texts == {entries[i].id : i \in {j \in DOMAIN entries : entries[j].file = TextField}}
        full == {entries[i].id : i \in {j \in DOMAIN entries : HasContent(entries[j])}} IN
    {UpdateEntry(entries, id, "key", key) : id \in ids, key \in keys}
    \union {UpdateEntry(entries, id, "value", value) : id \in texts, value \in values}
    \union {UpdateEntry(entries, id, "enabled", ~entries[IndexOf(entries, id)].enabled) : id \in full}
    \union {RemoveEntry(entries, id) : id \in full}
    \union {SwapEntries(entries, source, target) : source, target \in full}
=============================================================================
