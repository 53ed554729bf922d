------------------------------ MODULE HeaderRows ------------------------------
(***************************************************************************)
(* The headers of a request while they are edited (components/             *)
(* headers-editor.tsx, request-section-panel.tsx; model/request.ts).       *)
(*                                                                         *)
(* The body's type owns Content-Type and the authentication in effect owns *)
(* Authorization: a row of the user with such a name, blanks around it or  *)
(* not, is hidden and stays in the draft.  Every edit gives back the rows  *)
(* on screen, and the draft is put together again from these and the       *)
(* hidden ones, which are now told by the name as it is written.  The      *)
(* stored value of a sensitive row is read when its field is focused, and  *)
(* arrives in the handler of the rendering it was asked for in.            *)
(***************************************************************************)
EXTENDS KeyValueRows

CONSTANT MaxEdits  \* a bound

Managed == {"Authorization", "Content-Type"}
Padded == "Content-Type "  \* the user may leave a blank behind a name
Keys == {Blank, "X-Token", Padded} \union Managed
Trimmed(key) == IF key = Padded THEN "Content-Type" ELSE key
Values == {Blank, "typed"}

VARIABLES
    draft,     \* headers, url, type of body and authentication of the request
    profile,   \* the workspace has an authentication of its own
    section,   \* "headers" or "elsewhere"
    pending,   \* the secret being read, or NoSecret
    edits

vars == <<draft, profile, section, pending, edits>>

NoSecret == [id |-> Unnumbered, value |-> Blank, secret |-> "no", draft |-> <<>>, rows |-> <<>>]

Header(id, key, value, secret) ==
    [id |-> id, key |-> key, value |-> value, enabled |-> key # Blank, secret |-> secret,
     file |-> TextField]

\* A new request; one that was saved with a secret token and with manual headers of
\* both names; one with a manual Content-Type that has a blank behind its name.
NewHeaders == <<Header(1, Blank, Blank, "no")>>
SavedHeaders ==
    <<Header(1, "X-Token", Blank, "unresolved"), Header(2, "Content-Type", "typed", "no"),
      Header(3, "Authorization", "typed", "no"), Header(Unnumbered, Blank, Blank, "no")>>
PaddedHeaders == <<Header(1, Padded, "typed", "no"), Header(Unnumbered, Blank, Blank, "no")>>

Init ==
    /\ draft \in [headers : {NewHeaders, SavedHeaders, PaddedHeaders}, url : {0}, body : {"none"},
                  auth : {"default"}]
    /\ profile = FALSE
    /\ section = "headers"
    /\ pending = NoSecret
    /\ edits = 0

-----------------------------------------------------------------------------
(* Effective headers.                                                      *)

\* The authentication a request resolves to; "default" is None before the user
\* has chosen it, which a profile of the workspace replaces in the effective
\* draft only.
Binds(d) == d.auth = "own" \/ (d.auth = "inherit" /\ profile)
BindsInEffect(d) == Binds(d) \/ (d.auth = "default" /\ profile)

Owned(d, binds) ==
    (IF d.body = "none" THEN {} ELSE {"Content-Type"})
    \union (IF binds THEN {"Authorization"} ELSE {})

HiddenKeys(d) == {key \in Keys : Trimmed(key) \in Owned(d, BindsInEffect(d))}

\* getRequestHeaders and localRows without the managed rows above them.
Visible(d) ==
    LET rows == SelectSeq(d.headers, LAMBDA h : h.key \notin HiddenKeys(d)) IN
    IF SelectInSeq(rows, IsBlank) # 0 THEN rows ELSE Append(rows, EmptyEntry(rows))

\* Mutant: the rows on screen are all there is.
UpdateHeadersOnly(d, rows) == [d EXCEPT !.headers = rows]

\* updateRequestHeaders: what was hidden is told by the name as it is written.
UpdateHeaders(d, rows) ==
    LET keys == Owned(d, Binds(d)) IN
    [d EXCEPT !.headers = SelectSeq(d.headers, LAMBDA h : h.key \in keys)
                          \o SelectSeq(rows, LAMBDA h : h.key \notin keys)]

-----------------------------------------------------------------------------

Edited == edits < MaxEdits /\ edits' = edits + 1

EditHeaders ==
    /\ section = "headers" /\ Edited
    /\ \E rows \in Edits(Visible(draft), Keys, Values) : draft' = UpdateHeaders(draft, rows)
    /\ UNCHANGED <<profile, section, pending>>

\* The address is above every section.
EditUrl ==
    /\ Edited
    /\ draft' = [draft EXCEPT !.url = @ + 1]
    /\ UNCHANGED <<profile, section, pending>>

EditElsewhere ==
    /\ section = "elsewhere" /\ Edited
    /\ \/ draft' \in {[draft EXCEPT !.body = b] : b \in {"none", "json"}}
       \/ draft' \in {[draft EXCEPT !.auth = a] : a \in {"none", "own", "inherit"}}
    /\ UNCHANGED <<profile, section, pending>>

ShareAuthentication ==
    /\ section = "elsewhere" /\ Edited
    /\ profile' = ~profile
    /\ UNCHANGED <<draft, section, pending>>

\* The editor goes with its section, and a read under way keeps its last rows.
Leave ==
    /\ section = "headers"
    /\ section' = "elsewhere"
    /\ pending' = IF pending # NoSecret /\ pending.rows = <<>>
                  THEN [pending EXCEPT !.rows = Visible(draft)] ELSE pending
    /\ UNCHANGED <<draft, profile, edits>>

Return ==
    /\ section = "elsewhere" /\ edits < MaxEdits
    /\ section' = "headers"
    /\ UNCHANGED <<draft, profile, pending, edits>>

\* resolveEntry up to its await; one read at a time is a bound.
Focus(id) ==
    /\ section = "headers" /\ pending = NoSecret
    /\ LET i == IndexOf(Visible(draft), id) IN
       /\ i # 0 /\ Visible(draft)[i].secret \in {"unresolved", "locked"}
       /\ pending' = [id |-> id, value |-> Visible(draft)[i].value,
                      secret |-> Visible(draft)[i].secret, draft |-> draft, rows |-> <<>>]
    /\ UNCHANGED <<draft, profile, section, edits>>

\* Mutant: the answer is taken whatever the row holds by now.
StillAskedAnyhow(rows) == IndexOf(rows, pending.id) # 0

\* The row is still the one that was focused.
StillAsked(rows) ==
    LET i == IndexOf(rows, pending.id) IN
    i # 0 /\ rows[i].secret = pending.secret /\ rows[i].value = pending.value

\* The answer: the rows are those of the editor that asked, the rest of the
\* draft is what it was when it asked.
Resolve(found) ==
    /\ pending # NoSecret
    /\ LET rows == IF pending.rows = <<>> THEN Visible(draft) ELSE pending.rows
           next == [i \in DOMAIN rows |->
                IF rows[i].id # pending.id THEN rows[i]
                ELSE [rows[i] EXCEPT !.secret = found,
                                     !.value = IF found = "kept" THEN "stored" ELSE @]] IN
       draft' = IF StillAsked(rows) THEN UpdateHeaders(pending.draft, next) ELSE draft
    /\ pending' = NoSecret
    /\ UNCHANGED <<profile, section, edits>>

Next ==
    \/ EditHeaders \/ EditUrl \/ EditElsewhere \/ ShareAuthentication \/ Leave \/ Return
    \/ \E id \in {draft.headers[i].id : i \in DOMAIN draft.headers} : Focus(id)
    \/ \E found \in {"kept", "locked"} : Resolve(found)

Spec == Init /\ [][Next]_vars

-----------------------------------------------------------------------------
(* What the rows promise.                                                  *)

Row == [id : 0..(3 + MaxEdits), key : Keys, value : Values \union {"stored"},
        enabled : BOOLEAN, secret : {"no", "unresolved", "locked", "kept", "set"}, file : {TextField}]

\* The state is of the expected shape.
TypeOK ==
    /\ \A i \in DOMAIN draft.headers : draft.headers[i] \in Row
    /\ profile \in BOOLEAN /\ section \in {"headers", "elsewhere"}
    /\ edits \in 0..MaxEdits

Kept(d, next) ==
    \A i \in DOMAIN d.headers :
        LET row == d.headers[i] IN
        row.key \in HiddenKeys(d) /\ Trimmed(row.key) = row.key =>
            Contains(next.headers, row)

\* As long as a row of the user is hidden behind one that the body or the chosen
\* authentication owns, no edit of the others changes it or drops it.
\* (updateRequestHeaders puts the hidden rows back.)  A row whose name has a blank
\* around it is hidden like the others, and is not put back: an edit of the rows
\* drops it.
HiddenRowsStay ==
    pending' = pending /\ Binds(draft) = BindsInEffect(draft) => Kept(draft, draft')

\* A stored value that arrives late changes no row that the user has changed
\* since it was asked for: while the editor stays open it fills the row it was
\* asked for, if that still has the reference and the text it had, and no other.
\* (resolveEntry compares the row with the one that was focused.)
LateSecretKeepsRows ==
    (pending # NoSecret /\ pending' = NoSecret /\ pending.rows = <<>>) =>
        \A i \in DOMAIN Visible(draft) :
            LET row == Visible(draft)[i] IN
            \/ row.id = pending.id /\ row.secret = pending.secret /\ row.value = pending.value
            \/ Contains(draft'.headers, row) \/ IsBlank(row)

\* What the user has written into a row stays, whether the row is hidden, or beside
\* one whose stored value is on its way.
RowsKept == HiddenRowsStay /\ LateSecretKeepsRows
RowsStay == [][RowsKept]_vars
=============================================================================
