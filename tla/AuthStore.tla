------------------------------ MODULE AuthStore ------------------------------
(***************************************************************************)
(* The statements of the identity tables: accounts, login sessions,        *)
(* installations, router keys, provider (BYOK) keys and end users.  A      *)
(* table is a set of rows, a statement an operator from tables to tables;  *)
(* each runs atomically.  Deleted rows stay, with live = FALSE.            *)
(***************************************************************************)
EXTENDS Integers, FiniteSets

\* Generated identifiers: the next unused number of a table.
Fresh(table) == 1 + Cardinality(table)

Active(table) == { r \in table : r.live }

Kill(table, dead) == (table \ dead) \union { [r EXCEPT !.live = FALSE] : r \in dead }

\* ON CONFLICT (aiand_user_id): a returning user keeps the row, and its id.
UpsertAccount(accounts, user) ==
    IF \E a \in accounts : a.user = user
    THEN accounts
    ELSE accounts \union {[id |-> Fresh(accounts), user |-> user]}

CreateInstallationMutant(insts, owner) ==
    {[id |-> Fresh(insts), owner |-> owner, settings |-> 0, live |-> TRUE]}

\* Unique on (external_id, name) among live rows: the second insert fails.
CreateInstallation(insts, owner) ==
    IF \E i \in Active(insts) : i.owner = owner
    THEN {}
    ELSE {[id |-> Fresh(insts), owner |-> owner, settings |-> 0, live |-> TRUE]}

ListInstallations(insts, owner) == { i \in Active(insts) : i.owner = owner }

GetInstallation(insts, owner, id) == { i \in Active(insts) : i.owner = owner /\ i.id = id }

\* The Update* statements: one column of a live row of the caller's tenant.
UpdateInstallation(insts, id) ==
    { IF i.id = id /\ i.live THEN [i EXCEPT !.settings = @ + 1] ELSE i : i \in insts }

CreateAPIKey(keys, inst, scope, name) ==
    keys \union {[id |-> Fresh(keys), inst |-> inst, scope |-> scope, name |-> name, live |-> TRUE]}

GetActiveByHash(keys, insts, hash) ==
    { k \in Active(keys) : k.id = hash /\ \E i \in Active(insts) : i.id = k.inst }

ListAPIKeys(keys, inst) == { k \in Active(keys) : k.inst = inst }

\* The rows a soft delete transitions: its rows-affected count is their number.
SoftDeleted(keys, inst, id) == { k \in Active(keys) : k.id = id /\ k.inst = inst }

\* Unique on (installation_id, provider) among live rows.
CreateExternalAPIKey(ext, inst) ==
    IF \E x \in Active(ext) : x.inst = inst
    THEN {}
    ELSE {[id |-> Fresh(ext), inst |-> inst, aliases |-> 0, live |-> TRUE]}

GetForInstallation(ext, inst) == { x \in Active(ext) : x.inst = inst }

SoftDeleteByProvider(ext, inst) == Kill(ext, GetForInstallation(ext, inst))

SoftDeleteExternal(ext, inst, id) ==
    Kill(ext, { x \in GetForInstallation(ext, inst) : x.id = id })

UpdateModelAliases(ext, inst, id) ==
    { IF x \in Active(ext) /\ x.inst = inst /\ x.id = id
      THEN [x EXCEPT !.aliases = @ + 1] ELSE x : x \in ext }

InsertSession(sessions, account, inst) ==
    sessions \union {[id |-> Fresh(sessions), account |-> account, inst |-> inst]}

\* Neither expired nor revoked; nothing in the router revokes a session.
GetActiveSession(sessions, id) == { s \in sessions : s.id = id }

\* By e-mail: an e-mail-less row of the same client account is adopted unless
\* the e-mail has a row already; that row, or else a new one, is used then.
UpsertUserByEmail(users, inst, email, account) ==
    LET named == { u \in users : u.inst = inst /\ u.email = email }
        orphan == { u \in users : u.inst = inst /\ u.email = 0 /\ account # 0 /\ u.account = account }
        merged == IF named = {} THEN orphan ELSE {}
        Keep(u) == IF account = 0 THEN u.account ELSE account
    IN IF merged # {}
       THEN (users \ merged) \union { [u EXCEPT !.email = email] : u \in merged }
       ELSE IF named # {}
       THEN (users \ named) \union { [u EXCEPT !.account = Keep(u)] : u \in named }
       ELSE users \union
            {[id |-> Fresh(users), inst |-> inst, email |-> email, account |-> account]}

\* By client account alone: only e-mail-less rows conflict.
UpsertUserByAccount(users, inst, account) ==
    IF \E u \in users : u.inst = inst /\ u.email = 0 /\ u.account = account
    THEN users
    ELSE users \union
         {[id |-> Fresh(users), inst |-> inst, email |-> 0, account |-> account]}
=============================================================================
