-------------------------- MODULE SecretInventory --------------------------
(***************************************************************************)
(* The secrets a request needs (resolve-request-secrets.ts), those the     *)
(* inventory finds in the definitions (secret-inventory.ts), and the       *)
(* manager that shows which of them this device has (required-local-       *)
(* secrets.tsx).                                                           *)
(*                                                                         *)
(* One request, one shared profile and one shared header; a text is the    *)
(* set of the names its templates use.  What a protected field says is in  *)
(* the vault and not in the definitions.                                   *)
(***************************************************************************)
EXTENDS Naturals, FiniteSets

CONSTANTS
    Names,         \* names of variables
    MaxCommits,    \* bound: values set, removed or created in the manager
    MaxElsewhere,  \* bound: values saved by an editor meanwhile
    MaxEpoch       \* bound: inspections begun

Layers == {"global", "workspace", "environment"}
Token == <<"request", "token">>
Header == <<"request", "header">>
Profile == <<"profile", "token">>
Shared == <<"shared", "header">>
Refs == (Layers \X Names) \cup {Token, Header, Profile, Shared}

\* A field holds a text, the reference of a secret, or (a variable) the answer
\* of another request.
Gone == [kind |-> "none", on |-> FALSE, names |-> {}]

VARIABLES
    config,       \* definitions, and the request with its environment
    vault,        \* by reference: whether there is a value, what it uses, its version
    unlocked,     \* protected storage can be read
    statuses,     \* what the manager shows, and the version it was read from
    inspections,  \* inspections that are not answered
    epoch,        \* of the last inspection
    open,         \* the manager is open
    job,          \* what the manager is busy with
    revealed,     \* the value it shows
    owned,        \* history: version of the manager's last change of a value
    unsure,       \* history: values set whose inspection then failed
    commits, elsewhere

vars == <<config, vault, unlocked, statuses, inspections, epoch, open, job, revealed, owned,
          unsure, commits, elsewhere>>
stored == <<config, vault, unlocked>>

Unknown == [status |-> "unknown", version |-> 0]
Idle == [kind |-> "none", ref |-> Token, at |-> "none"]
Hidden == [ref |-> Token, version |-> 0, on |-> FALSE]

-----------------------------------------------------------------------------
(* Variables.                                                              *)

Defs(layer, n) == config.defs[layer][n]

\* getEffectiveVariables: the enabled definition of the environment, else of the
\* workspace, else the global one.
LayerOf(n, environment) ==
    IF environment /\ Defs("environment", n).on THEN "environment"
    ELSE IF Defs("workspace", n).on THEN "workspace" ELSE "global"
Effective(n, environment) ==
    LET d == Defs(LayerOf(n, environment), n) IN IF d.on THEN d ELSE Gone

\* The names a field uses, given the values that were read.
Text(field, ref, read) ==
    CASE field.kind = "text" -> field.names
      [] field.kind = "secret" -> IF ref \in read THEN vault[ref].names ELSE {}
      [] field.kind = "dynamic" -> config.source
      [] OTHER -> {}

TextOf(n, environment, read) ==
    Text(Effective(n, environment), <<LayerOf(n, environment), n>>, read)

\* resolveVariable, expression: a name, and what its value uses in turn.
Reach(names, environment, read) ==
    LET steps[i \in 0..Cardinality(Names)] ==
            IF i = 0 THEN names
            ELSE steps[i - 1] \cup UNION {TextOf(n, environment, read) : n \in steps[i - 1]}
    IN steps[Cardinality(Names)]

SecretsAmong(names, environment) ==
    {<<LayerOf(n, environment), n>> :
        n \in {m \in names : Effective(m, environment).kind = "secret"}}

-----------------------------------------------------------------------------
(* Sending the request.                                                    *)

\* The environment the request names, else the one that is active.
Used == config.own \/ config.active

\* applyWorkspaceRequestConfig: a shared header unless the request has one of its
\* name or turned it off; the shared profile for a request without its own
\* authentication, when it is enabled and applies.
SharedApplies == config.shared.on /\ config.wantsShared /\ ~config.sameName
ProfileApplies == config.wantsAuth /\ config.profile.on
AuthUsed ==
    IF config.auth = "bearer" THEN {<<Token, config.token>>}
    ELSE IF ProfileApplies THEN {<<Profile, config.profile>>} ELSE {}

\* requestExpressions: fields that are enabled and of the active mode.
Fields ==
    AuthUsed \cup (IF config.header.on THEN {<<Header, config.header>>} ELSE {})
             \cup (IF SharedApplies THEN {<<Shared, config.shared>>} ELSE {})

Available == IF unlocked THEN {r \in Refs : vault[r].value} ELSE {}

\* resolveRequestSecrets: the credentials, then the variables they and the other
\* fields use.
NamesUsed ==
    Reach(config.url \cup UNION {Text(f[2], f[1], Available) : f \in Fields}, Used, Available)
Needed ==
    {f[1] : f \in {g \in Fields : g[2].kind = "secret"}} \cup SecretsAmong(NamesUsed, Used)

\* A global name is not defined again (variables that are off included).
Ambiguous ==
    \E n \in Names :
        /\ Defs("global", n).kind # "none"
        /\ \/ Defs("workspace", n).kind # "none"
           \/ Used /\ Defs("environment", n).kind # "none"
Circular ==
    \E n \in NamesUsed : n \in Reach(TextOf(n, Used, Available), Used, Available)
NotDefined == {n \in NamesUsed : Effective(n, Used).kind = "none"}

Outcome ==
    CASE Ambiguous -> "ambiguous"
      [] ~Ambiguous /\ ~(Needed \subseteq Available) -> "unavailable"
      [] ~Ambiguous /\ Needed \subseteq Available /\ Circular -> "circular"
      [] ~Ambiguous /\ Needed \subseteq Available /\ ~Circular /\ NotDefined # {} -> "undefined"
      [] OTHER -> "sent"

-----------------------------------------------------------------------------
(* The inventory.                                                          *)

\* Mutant: everything is looked up in the environment that is active.
ScopeActive == config.active

\* The environment a request's fields are looked up in.
Scope == config.own \/ config.active

\* Mutant: an inherited profile is followed where it is defined only.
InheritedNot == {}

\* runtimeRequest: what the request inherits, in the request's environment.
Inherited ==
    AuthUsed \cup (IF config.shared.on /\ ~config.sameName THEN {<<Shared, config.shared>>}
                   ELSE {})

\* runtimeAuth: the field of the mode in use, and one that has a reference.
TokenField ==
    IF config.auth = "bearer" \/ config.token.kind = "secret" THEN config.token ELSE Gone

\* Texts that are followed, and where: those of the variables, of the profile and
\* the shared header, of the request with what it turned off.
Followed(read) ==
    {<<Text(Defs("workspace", n), <<"workspace", n>>, read), config.active>> : n \in Names}
    \cup {<<Text(Defs("environment", n), <<"environment", n>>, read), TRUE>> : n \in Names}
    \cup {<<Text(config.shared, Shared, read), config.active>>,
          <<Text(config.profile, Profile, read), config.active>>,
          <<Text(config.header, Header, read), Scope>>,
          <<Text(TokenField, Token, read), Scope>>,
          <<config.url, Scope>>}
    \cup {<<Text(f[2], f[1], read), Scope>> : f \in Inherited}

\* References the definitions themselves hold.
Declared ==
    {r \in {"workspace", "environment"} \X Names : Defs(r[1], r[2]).kind = "secret"}
    \cup {f[1] : f \in {g \in {<<Token, config.token>>, <<Header, config.header>>,
                               <<Profile, config.profile>>, <<Shared, config.shared>>} :
                            g[2].kind = "secret"}}

\* The references listed when the values in read are known: none of them by
\* buildSecretInventory, whatever can be read by resolveSecretInventory.
Listed(read) ==
    Declared \cup UNION {SecretsAmong(Reach(t[1], t[2], read), t[2]) : t \in Followed(read)}
Undeclared(read) ==
    {n \in Names : \E t \in Followed(read) :
        t[2] = Scope /\ n \in Reach(t[1], t[2], read) /\ Effective(n, t[2]).kind = "none"}

-----------------------------------------------------------------------------
(* The manager.                                                            *)

Busy == job.kind # "none"
Status(r) == [status |-> IF ~unlocked THEN "locked" ELSE IF vault[r].value THEN "available"
                         ELSE "missing",
              version |-> vault[r].version]

\* The effect: the inspection before it does not count any more.
Inspect(definitions) ==
    /\ epoch' = epoch + 1
    /\ inspections' = {[i EXCEPT !.current = FALSE] : i \in inspections} \cup
           IF definitions = {} THEN {}
           ELSE {[epoch |-> epoch + 1, current |-> TRUE, refs |-> definitions, read |-> FALSE,
                  found |-> [r \in Refs |-> Unknown]]}
NoInspection == UNCHANGED <<inspections, epoch>>

OpenManager ==
    /\ ~open /\ epoch < MaxEpoch
    /\ open' = TRUE /\ Inspect(IF unlocked THEN Listed({}) ELSE {})
    /\ UNCHANGED <<stored, statuses, job, revealed, owned, unsure, commits, elsewhere>>
CloseManager ==
    /\ open /\ ~Busy /\ epoch < MaxEpoch
    /\ open' = FALSE /\ revealed' = Hidden
    /\ Inspect(IF unlocked THEN Listed({}) ELSE {})
    /\ UNCHANGED <<stored, statuses, job, owned, unsure, commits, elsewhere>>

Inspected(i) ==
    /\ i \in inspections /\ ~i.read
    /\ \/ inspections' = (inspections \ {i}) \cup
              {[i EXCEPT !.read = TRUE, !.found = [r \in Refs |-> Status(r)]]}
       \/ inspections' = inspections \ {i}
    /\ UNCHANGED <<stored, statuses, epoch, open, job, revealed, owned, unsure, commits,
                   elsewhere>>

\* Mutant: whatever answer comes is shown.
AnyInspection(i) == i.read

IsCurrent(i) == i.current /\ i.epoch = epoch

ShowOnly(refs, found) == [r \in Refs |-> IF r \in refs THEN found[r] ELSE Unknown]
ShowInspected(i) ==
    /\ i \in inspections /\ i.read
    /\ inspections' = inspections \ {i}
    /\ IF IsCurrent(i)
       THEN statuses' = ShowOnly(i.refs, i.found) /\ unsure' = {}
       ELSE UNCHANGED <<statuses, unsure>>
    /\ UNCHANGED <<stored, epoch, open, job, revealed, owned, commits, elsewhere>>

CanEdit(r) ==
    /\ open /\ unlocked /\ ~Busy /\ r \in Listed({})
    /\ statuses[r].status \in {"unknown", "available", "missing"}
Works(kind, r) == job' = [kind |-> kind, ref |-> r, at |-> "asked"]

\* Editing, removing or revealing another value hides the one that is shown.
SetValue(r) ==
    /\ CanEdit(r) /\ commits < MaxCommits /\ epoch < MaxEpoch
    /\ Works("set", r) /\ commits' = commits + 1 /\ revealed' = Hidden
    /\ NoInspection
    /\ UNCHANGED <<stored, statuses, open, owned, unsure, elsewhere>>
Remove(r) ==
    /\ CanEdit(r) /\ statuses[r].status = "available"
    /\ commits < MaxCommits /\ epoch < MaxEpoch
    /\ Works("remove", r) /\ commits' = commits + 1 /\ revealed' = Hidden
    /\ NoInspection
    /\ UNCHANGED <<stored, statuses, open, owned, unsure, elsewhere>>
Reveal(r) ==
    /\ CanEdit(r) /\ statuses[r].status = "available"
    /\ revealed' = Hidden
    /\ IF revealed.on /\ revealed.ref = r THEN UNCHANGED job ELSE Works("reveal", r)
    /\ NoInspection
    /\ UNCHANGED <<stored, statuses, open, owned, unsure, commits, elsewhere>>

\* A new secret is a variable of the workspace, of a name no other has.
Create(n) ==
    /\ open /\ unlocked /\ ~Busy /\ Defs("workspace", n).kind = "none"
    /\ commits < MaxCommits /\ epoch < MaxEpoch
    /\ Works("create", <<"workspace", n>>) /\ commits' = commits + 1 /\ revealed' = Hidden
    /\ NoInspection
    /\ UNCHANGED <<stored, statuses, open, owned, unsure, elsewhere>>
Retry ==
    /\ open /\ ~Busy /\ epoch < MaxEpoch
    /\ ~unlocked \/ \E r \in Listed({}) : statuses[r].status = "locked"
    /\ Works("retry", Token)
    /\ NoInspection
    /\ UNCHANGED <<stored, statuses, open, revealed, owned, unsure, commits, elsewhere>>

Done == job' = Idle

\* A call of the manager fails: what it shows stays as it is.
JobFails ==
    /\ Busy /\ Done
    /\ unsure' = IF job.at = "committed" THEN unsure \cup {job.ref} ELSE unsure
    /\ UNCHANGED <<stored, statuses, inspections, epoch, open, revealed, owned, commits,
                   elsewhere>>

Written(r, value, names) ==
    vault' = [vault EXCEPT ![r] =
                 [value |-> value, names |-> names, version |-> @.version + 1]]

\* setSecretValue, saveWithConfirmation.
Commit ==
    /\ job.at = "asked" /\ job.kind \in {"set", "remove", "create"}
    /\ Written(job.ref, job.kind # "remove", {})
    /\ owned' = [owned EXCEPT ![job.ref] = vault[job.ref].version + 1]
    /\ job' = [job EXCEPT !.at = "committed"]
    /\ IF job.kind = "create"
       THEN config' = [config EXCEPT !.defs["workspace"][job.ref[2]] =
                          [kind |-> "secret", on |-> TRUE, names |-> {}]]
       ELSE UNCHANGED config
    \* A call that was under way when the value was written is out of date.
    /\ epoch' = epoch + 1
    /\ UNCHANGED <<unlocked, statuses, inspections, open, revealed, unsure, commits, elsewhere>>

\* The value is inspected for itself, and then all of them again.
Confirm ==
    /\ job.at = "committed" /\ Done
    /\ statuses' = IF job.kind = "create" THEN statuses
                   ELSE [statuses EXCEPT ![job.ref] = Status(job.ref)]
    /\ unsure' = unsure \ {job.ref}
    /\ Inspect(Listed({}))
    /\ UNCHANGED <<stored, open, revealed, owned, commits, elsewhere>>

Unlock ==
    /\ job.kind = "retry" /\ job.at = "asked"
    /\ unlocked' = TRUE
    /\ job' = [job EXCEPT !.at = "committed"]
    /\ epoch' = epoch + 1
    /\ UNCHANGED <<config, vault, statuses, inspections, open, revealed, owned, unsure, commits,
                   elsewhere>>
Retried ==
    /\ job.kind = "retry" /\ job.at = "committed" /\ Done
    /\ statuses' = ShowOnly(Listed({}), [r \in Refs |-> Status(r)])
    /\ unsure' = {}
    /\ Inspect(Listed({}))
    /\ UNCHANGED <<stored, open, revealed, owned, commits, elsewhere>>

RevealEnds ==
    /\ job.kind = "reveal" /\ Done
    /\ IF job.ref \in Available
       THEN revealed' = [ref |-> job.ref, version |-> vault[job.ref].version, on |-> TRUE]
       ELSE UNCHANGED revealed
    /\ UNCHANGED <<stored, statuses, inspections, epoch, open, owned, unsure, commits, elsewhere>>

\* An editor saves a value, which may use variables, or removes it.
SavedElsewhere(r, names) ==
    /\ unlocked /\ elsewhere < MaxElsewhere /\ r \in Listed(Available)
    /\ elsewhere' = elsewhere + 1
    /\ Written(r, TRUE, names) \/ Written(r, FALSE, {})
    /\ UNCHANGED <<config, unlocked, statuses, inspections, epoch, open, job, revealed, owned,
                   unsure, commits>>

-----------------------------------------------------------------------------

Empty(r) == [value |-> FALSE, names |-> {}, version |-> 0]
Start ==
    /\ statuses = [r \in Refs |-> Unknown]
    /\ inspections = {} /\ epoch = 0 /\ open = FALSE
    /\ job = Idle /\ revealed = Hidden
    /\ owned = [r \in Refs |-> 0] /\ unsure = {}
    /\ commits = 0 /\ elsewhere = 0

Next ==
    \/ OpenManager \/ CloseManager \/ Retry
    \/ \E i \in inspections : Inspected(i) \/ ShowInspected(i)
    \/ \E r \in Refs : SetValue(r) \/ Remove(r) \/ Reveal(r)
    \/ \E r \in Refs, names \in SUBSET Names : SavedElsewhere(r, names)
    \/ \E n \in Names : Create(n)
    \/ JobFails \/ Commit \/ Confirm \/ Unlock \/ Retried \/ RevealEnds

-----------------------------------------------------------------------------

\* Types, and that one inspection at most is current.
TypeOK ==
    /\ \A r \in Refs :
        /\ vault[r].names \subseteq Names
        /\ vault[r].value \/ vault[r].names = {}
        /\ statuses[r].status \in {"unknown", "available", "missing", "locked"}
        /\ statuses[r].version <= vault[r].version
    /\ Cardinality({i \in inspections : i.current}) <= 1
    /\ \A i \in inspections : i.epoch <= epoch
    /\ job.kind \in {"none", "set", "remove", "create", "retry", "reveal"}
    /\ revealed.on => open

\* "Discovers transitive dependencies": every secret a request needs is among
\* those resolveSecretInventory lists, and among those the manager lists unless
\* only a stored value names it; a name that stops the request for want of a
\* definition is listed as such.
NeededIsListed ==
    /\ ~Ambiguous => Needed \subseteq Listed(Available)
    /\ (\A r \in Available : vault[r].names = {}) => Needed \subseteq Listed({}) \/ Ambiguous
    /\ Outcome = "undefined" => NotDefined \subseteq Undeclared(Available)

\* Nothing the manager shows is older than what it has itself written, unless it
\* could not look: with every listed value shown as available and saved nowhere
\* else, no request is refused for want of a secret.
ShownIsWritten ==
    /\ ~Busy => \A r \in Refs :
        statuses[r].status # "unknown" /\ r \notin unsure => statuses[r].version >= owned[r]
    /\ revealed.on => revealed.version >= owned[revealed.ref]
ShownSuffices ==
    /\ elsewhere = 0 /\ ~Busy /\ unsure = {}
    /\ \A r \in Available : vault[r].names = {}
    /\ \A r \in Listed({}) : statuses[r].status = "available"
    => Outcome # "unavailable"
=============================================================================
