----------------------------- MODULE AuthProofs -----------------------------
(***************************************************************************)
(* The invariants of auth.Service, for any number of callers, any mix of   *)
(* their operations, any cache capacity and any number of failing          *)
(* statements.  TypeInv says what rows the tables hold, that a cached      *)
(* entry was read in full, and what a call carries at every place of its   *)
(* path.  Then what each step does, field by field; and on these, for each *)
(* property, an invariant of its own that one action or two can disturb.   *)
(***************************************************************************)
EXTENDS Auth, FiniteSetTheorems, TLAPS

Scopes == {"routing", "analytics"}

Entries == [ key : Nat, scope : Scopes, inst : {1}, fresh : BOOLEAN, settings : Nat,
             byok : SUBSET Nat, lists : {"slim", "read", "missed"} ]

\* An entry that was read in full.
Whole(e) ==
    /\ e \in Entries
    /\ e.scope = "routing" => e.lists = "read"
    /\ e.scope = "analytics" => e.byok = {}

ArgValues == Nat \union Users \union (Nat \X Nat)

Surfaces == {"verify", "analytics"}

\* Where a Set is under way.
Setting == {"lock", "index", "add", "check", "remove"}

OpNames == { "none", "verify", "analytics", "rotate", "delete", "playground", "settings",
             "aliases", "dropByok", "byok", "login", "dashboard", "resolve", "issue" }

Pcs == { "idle", "get", "read", "byok", "lists", "lock", "index", "add", "check", "invalidate",
         "remove", "list", "softdelete", "mint", "update", "alias", "drop", "replace", "store",
         "limit", "validate", "note", "account", "find", "create", "refind", "cookie",
         "session", "identity", "done" }

Results == { "none", "ok", "error", "bad", "bad_prefix", "invalid", "accepted", "wrong_scope",
             "not_found", "conflict", "limited", "refused", "no_credits", "unavailable" }

CallType == [ op : OpNames, arg : ArgValues, pc : Pcs, inst : Nat,
              entry : Entries \union {None}, pregen : Nat, todo : SUBSET Nat, made : Nat,
              res : Results, after : SUBSET Nat ]

\* Which operations pass through a place.
OnPath(r) ==
    /\ r.pc = "idle" <=> r.op = "none"
    /\ r.pc \in {"get", "read", "lock", "index", "add", "check"} => r.op \in Surfaces
    /\ r.pc \in {"byok", "lists"} => r.op = "verify"
    /\ r.pc = "list" => r.op \in {"rotate", "delete", "playground"}
    /\ r.pc = "softdelete" => r.op \in {"rotate", "delete"}
    /\ r.pc = "mint" => r.op \in {"rotate", "playground", "issue"}
    /\ r.pc = "update" => r.op = "settings"
    /\ r.pc = "alias" => r.op = "aliases"
    /\ r.pc = "drop" => r.op = "dropByok"
    /\ r.pc \in {"replace", "store"} => r.op \in {"byok", "login"}
    /\ r.pc \in {"limit", "validate", "note", "account", "cookie"} => r.op = "login"
    /\ r.pc \in {"find", "create", "refind"} => r.op \in {"login", "dashboard"}
    /\ r.pc = "session" => r.op = "dashboard"
    /\ r.pc = "identity" => r.op = "resolve"
    /\ r.pc = "invalidate" => r.op \notin Surfaces
    /\ r.op = "resolve" => r.pc \in {"identity", "done"}

\* What a call carries, by where it is.
Local(r) ==
    /\ OnPath(r)
    /\ r.op \in Surfaces => r.arg \in Nat
    /\ r.op \in {"rotate", "delete"} => r.arg = 1
    /\ r.op = "resolve" => r.arg \in Nat \X Nat
    /\ r.op = "login" => r.arg \in Users
    /\ r.op \notin {"login", "dashboard", "none"} => r.inst = 1
    /\ r.op = "verify" /\ r.pc \in {"byok", "lists"} \union Setting =>
          r.entry \in Entries /\ r.entry.scope = "routing"
    /\ r.op = "verify" /\ r.pc \in Setting => r.entry.lists = "read"
    /\ r.op = "analytics" /\ r.pc \in Setting =>
          r.entry \in Entries /\ r.entry.scope = "analytics" /\ r.entry.byok = {}
    /\ r.op = "verify" /\ r.pc = "done" /\ r.res = "accepted" =>
          r.entry.scope = "routing" /\ r.entry.lists # "slim"
    /\ r.op = "analytics" /\ r.pc = "done" /\ r.res = "accepted" =>
          r.entry.scope = "analytics" /\ r.entry.byok = {}

AccountRows == [id : Nat, user : Users]
InstRows == [id : Nat, owner : Nat, settings : Nat, live : BOOLEAN]
KeyRows == [id : Nat, inst : {1}, scope : Scopes, name : {"own", "Playground"}, live : BOOLEAN]
ExtRows == [id : Nat, inst : Nat, aliases : Nat, live : BOOLEAN]
SessionRows == [id : Nat, account : Nat, inst : Nat]
UserRows == [id : Nat, inst : {1}, email : Nat, account : Nat]

Table(t, Rows) == t \subseteq Rows /\ IsFiniteSet(t)

DbInv ==
    /\ db = [accounts |-> db.accounts, insts |-> db.insts, keys |-> db.keys, ext |-> db.ext,
             sessions |-> db.sessions, users |-> db.users]
    /\ Table(db.accounts, AccountRows) /\ Table(db.insts, InstRows)
    /\ Table(db.keys, KeyRows) /\ \E k \in db.keys : k.id = 1
    /\ Table(db.ext, ExtRows) /\ Table(db.sessions, SessionRows) /\ Table(db.users, UserRows)

\* What is cached was read in full by the surface that cached it.
CacheOk(x) ==
    /\ x = [pos |-> x.pos, neg |-> x.neg, index |-> x.index, gen |-> x.gen]
    /\ x.pos = [h \in DOMAIN x.pos |-> x.pos[h]]
    /\ DOMAIN x.pos \subseteq Nat
    /\ \A h \in DOMAIN x.pos : Whole(x.pos[h])
    /\ x.gen \in [Insts -> Nat]
    /\ x.index \subseteq Nat \X Nat

CacheInv == CacheOk(cache)

CallInv ==
    /\ call \in [Callers -> CallType]
    /\ \A c \in Callers : Local(call[c])
    /\ failures \in Nat /\ faults \in Nat
    /\ \A e \in ids : e[2] \in Nat

TypeInv == DbInv /\ CacheInv /\ CallInv

\* The names of places and results, one by one.
LEMMA Known ==
  /\ "idle" \in Pcs /\ "get" \in Pcs /\ "read" \in Pcs /\ "byok" \in Pcs /\ "lists" \in Pcs
  /\ "lock" \in Pcs /\ "index" \in Pcs /\ "add" \in Pcs /\ "check" \in Pcs
  /\ "invalidate" \in Pcs /\ "remove" \in Pcs /\ "list" \in Pcs /\ "softdelete" \in Pcs
  /\ "mint" \in Pcs /\ "update" \in Pcs /\ "alias" \in Pcs /\ "drop" \in Pcs
  /\ "replace" \in Pcs /\ "store" \in Pcs /\ "limit" \in Pcs /\ "validate" \in Pcs
  /\ "note" \in Pcs /\ "account" \in Pcs /\ "find" \in Pcs /\ "create" \in Pcs
  /\ "refind" \in Pcs /\ "cookie" \in Pcs /\ "session" \in Pcs /\ "identity" \in Pcs
  /\ "done" \in Pcs
  /\ "none" \in Results /\ "ok" \in Results /\ "error" \in Results /\ "bad" \in Results
  /\ "bad_prefix" \in Results /\ "invalid" \in Results /\ "accepted" \in Results
  /\ "wrong_scope" \in Results /\ "not_found" \in Results /\ "conflict" \in Results
  /\ "limited" \in Results /\ "refused" \in Results /\ "no_credits" \in Results
  /\ "unavailable" \in Results
  BY DEF Pcs, Results

-----------------------------------------------------------------------------
(* What the statements leave in the tables.                                 *)

\* A generated identifier is a number.
LEMMA FreshNat ==
  ASSUME NEW t, IsFiniteSet(t)
  PROVE  Fresh(t) \in Nat
  BY FS_CardinalityType DEF Fresh

\* A soft delete leaves a table of the same rows.
LEMMA KillTable ==
  ASSUME NEW t, NEW dead \in SUBSET t, NEW Rows,
         Table(t, Rows), \A r \in Rows : [r EXCEPT !.live = FALSE] \in Rows
  PROVE  Table(Kill(t, dead), Rows)
  <1> DEFINE gone == { [r EXCEPT !.live = FALSE] : r \in dead }
  <1>1. IsFiniteSet(t \ dead) /\ IsFiniteSet(dead)
    BY FS_Subset DEF Table
  <1>2. IsFiniteSet(gone)
    <2> DEFINE f == [r \in dead |-> [r EXCEPT !.live = FALSE]]
    <2>1. f \in Surjection(dead, gone)
      BY DEF Surjection
    <2> HIDE DEF f, gone
    <2> QED BY <1>1, <2>1, FS_Surjection
  <1>3. IsFiniteSet((t \ dead) \union gone)
    BY <1>1, <1>2, FS_Union
  <1>4. (t \ dead) \union gone \subseteq Rows
    BY DEF Table
  <1> QED BY <1>3, <1>4 DEF Table, Kill

\* An insert leaves a table.
LEMMA AddRow ==
  ASSUME NEW t, NEW Rows, Table(t, Rows), NEW r \in Rows
  PROVE  Table(t \union {r}, Rows)
  BY FS_AddElement DEF Table

\* Rewriting some rows of a table leaves a table.
LEMMA MapTable ==
  ASSUME NEW Rows, NEW t, Table(t, Rows), NEW f, DOMAIN f = t, \A r \in t : f[r] \in Rows
  PROVE  Table({ f[r] : r \in t }, Rows)
  <1> DEFINE s == { f[r] : r \in t }
             g == [r \in t |-> f[r]]
  <1>1. g \in Surjection(t, s)
    BY DEF Surjection
  <1> HIDE DEF s, g
  <1>2. IsFiniteSet(s)
    BY <1>1, FS_Surjection DEF Table
  <1> QED BY <1>2 DEF s, Table

\* Replacing some rows leaves a table.
LEMMA ReplaceTable ==
  ASSUME NEW Rows, NEW t, Table(t, Rows), NEW old \in SUBSET t,
         NEW f, DOMAIN f = old, \A r \in old : f[r] \in Rows
  PROVE  Table((t \ old) \union { f[r] : r \in old }, Rows)
  <1> DEFINE new == { f[r] : r \in old }
  <1>1. Table(old, Rows) /\ Table(t \ old, Rows)
    BY FS_Subset DEF Table
  <1>2. Table(new, Rows)
    BY <1>1, MapTable
  <1> HIDE DEF new
  <1>3. Table((t \ old) \union new, Rows)
    BY <1>1, <1>2, FS_Union DEF Table
  <1> QED BY <1>3 DEF new

\* UpsertAccount returns a row of the user.
LEMMA UpsertAccountTable ==
  ASSUME NEW t, Table(t, AccountRows), NEW user \in Users
  PROVE  /\ Table(UpsertAccount(t, user), AccountRows)
         /\ (CHOOSE a \in UpsertAccount(t, user) : a.user = user).id \in Nat
  <1> DEFINE s == UpsertAccount(t, user)
             row == [id |-> Fresh(t), user |-> user]
  <1>1. row \in AccountRows
    BY FreshNat DEF Table, AccountRows
  <1>2. Table(s, AccountRows)
    BY <1>1, AddRow DEF UpsertAccount
  <1>3. \E a \in s : a.user = user
    <2>1. row.user = user
      OBVIOUS
    <2> HIDE DEF row
    <2> QED BY <2>1 DEF UpsertAccount, row
  <1> HIDE DEF s
  <1>4. (CHOOSE a \in s : a.user = user) \in AccountRows
    BY <1>2, <1>3 DEF Table
  <1> QED BY <1>2, <1>4 DEF s, AccountRows

\* UpsertUserByAccount leaves a table.
LEMMA UpsertByAccountTable ==
  ASSUME NEW t, Table(t, UserRows), NEW account \in Nat
  PROVE  Table(UpsertUserByAccount(t, 1, account), UserRows)
  <1>1. [id |-> Fresh(t), inst |-> 1, email |-> 0, account |-> account] \in UserRows
    BY FreshNat DEF Table, UserRows
  <1> QED BY <1>1, AddRow DEF UpsertUserByAccount

\* UpsertUserByEmail leaves a table, whichever row it adopts.
LEMMA UpsertByEmailTable ==
  ASSUME NEW t, Table(t, UserRows), NEW email \in Nat, NEW account \in Nat
  PROVE  Table(UpsertUserByEmail(t, 1, email, account), UserRows)
  <1> DEFINE named == { u \in t : u.inst = 1 /\ u.email = email }
             orphan == { u \in t : u.inst = 1 /\ u.email = 0 /\ account # 0 /\ u.account = account }
             merged == IF named = {} THEN orphan ELSE {}
             adopt == [u \in merged |-> [u EXCEPT !.email = email]]
             touch == [u \in named |-> [u EXCEPT !.account = IF account = 0
                 THEN u.account ELSE account]]
  <1>1. Table((t \ merged) \union { adopt[u] : u \in merged }, UserRows)
    <2>1. merged \in SUBSET t /\ DOMAIN adopt = merged
      OBVIOUS
    <2>2. \A u \in merged : adopt[u] \in UserRows
      BY <2>1 DEF Table, UserRows
    <2> HIDE DEF merged, adopt
    <2> QED BY <2>1, <2>2, ReplaceTable
  <1>2. Table((t \ named) \union { touch[u] : u \in named }, UserRows)
    <2>1. named \in SUBSET t /\ DOMAIN touch = named
      OBVIOUS
    <2>2. \A u \in named : touch[u] \in UserRows
      BY <2>1 DEF Table, UserRows
    <2> HIDE DEF named, touch
    <2> QED BY <2>1, <2>2, ReplaceTable
  <1>3. Table(t \union {[id |-> Fresh(t), inst |-> 1, email |-> email, account |-> account]},
            UserRows)
    <2>1. [id |-> Fresh(t), inst |-> 1, email |-> email, account |-> account] \in UserRows
      BY FreshNat DEF Table, UserRows
    <2> QED BY <2>1, AddRow
  <1>4. /\ { adopt[u] : u \in merged } = { [u EXCEPT !.email = email] : u \in merged }
        /\ { touch[u] : u \in named } =
             { [u EXCEPT !.account = IF account = 0 THEN u.account ELSE account] : u \in named }
    <2> HIDE DEF merged, named
    <2> QED OBVIOUS
  <1> HIDE DEF adopt, touch
  <1> QED BY <1>1, <1>2, <1>3, <1>4, Zenon DEF UpsertUserByEmail

\* A settings update leaves a table.
LEMMA UpdateInstallationTable ==
  ASSUME NEW t, Table(t, InstRows), NEW id
  PROVE  Table(UpdateInstallation(t, id), InstRows)
  <1> DEFINE f == [i \in t |-> IF i.id = id /\ i.live THEN [i EXCEPT !.settings = @ + 1] ELSE i]
  <1>1. \A i \in t : f[i] \in InstRows
    BY DEF Table, InstRows
  <1>2. UpdateInstallation(t, id) = { f[i] : i \in t }
    BY DEF UpdateInstallation
  <1>3. DOMAIN f = t
    OBVIOUS
  <1> HIDE DEF f
  <1> QED BY <1>1, <1>2, <1>3, MapTable

\* An alias update leaves a table.
LEMMA UpdateAliasesTable ==
  ASSUME NEW t, Table(t, ExtRows), NEW inst, NEW id
  PROVE  Table(UpdateModelAliases(t, inst, id), ExtRows)
  <1> DEFINE f == [x \in t |-> IF x \in Active(t) /\ x.inst = inst /\ x.id = id
                               THEN [x EXCEPT !.aliases = @ + 1] ELSE x]
  <1>1. \A x \in t : f[x] \in ExtRows
    BY DEF Table, ExtRows
  <1>2. UpdateModelAliases(t, inst, id) = { f[x] : x \in t }
    BY DEF UpdateModelAliases
  <1>3. DOMAIN f = t
    OBVIOUS
  <1> HIDE DEF f
  <1> QED BY <1>1, <1>2, <1>3, MapTable

\* The new rows, if there are any, are rows of their tables.
LEMMA NewRows ==
  ASSUME TypeInv, NEW inst \in Nat, NEW owner \in Nat
  PROVE  /\ Table(db.insts \union CreateInstallation(db.insts, owner), InstRows)
         /\ Table(db.ext \union CreateExternalAPIKey(db.ext, inst), ExtRows)
         /\ Table(InsertSession(db.sessions, owner, inst), SessionRows)
  <1>1. [id |-> Fresh(db.insts), owner |-> owner, settings |-> 0, live |-> TRUE] \in InstRows
    BY FreshNat DEF TypeInv, DbInv, Table, InstRows
  <1>2. [id |-> Fresh(db.ext), inst |-> inst, aliases |-> 0, live |-> TRUE] \in ExtRows
    BY FreshNat DEF TypeInv, DbInv, Table, ExtRows
  <1>3. [id |-> Fresh(db.sessions), account |-> owner, inst |-> inst] \in SessionRows
    BY FreshNat DEF TypeInv, DbInv, Table, SessionRows
  <1>4. Table(db.insts, InstRows) /\ Table(db.ext, ExtRows) /\ Table(db.sessions, SessionRows)
    BY DEF TypeInv, DbInv
  <1>5. db.insts \union {} = db.insts /\ db.ext \union {} = db.ext
    OBVIOUS
  <1>6. Table(db.insts \union CreateInstallation(db.insts, owner), InstRows)
    BY <1>1, <1>4, <1>5, AddRow DEF CreateInstallation
  <1>7. Table(db.ext \union CreateExternalAPIKey(db.ext, inst), ExtRows)
    BY <1>2, <1>4, <1>5, AddRow DEF CreateExternalAPIKey
  <1>8. Table(InsertSession(db.sessions, owner, inst), SessionRows)
    BY <1>3, <1>4, AddRow DEF InsertSession
  <1> QED BY <1>6, <1>7, <1>8

\* A step that changes the record of its own call only.
LEMMA Moved ==
  ASSUME TypeInv, NEW c \in Callers, NEW r \in CallType, Local(r), call' = [call EXCEPT ![c] = r]
  PROVE  /\ call' \in [Callers -> CallType]
         /\ \A d \in Callers : Local(call'[d])
  BY DEF TypeInv, CallInv

\* After LookUp every call is typed.
LEMMA LookUpCall ==
  ASSUME TypeInv, NEW c \in Callers, LookUp(c)
  PROVE  call' \in [Callers -> CallType] /\ \A d \in Callers : Local(call'[d])
  <1> DEFINE r == call[c]
             hash == r.arg
  <1>0. r \in CallType /\ Local(r) /\ r.pc = "get" /\ r.op \in Surfaces
    BY DEF TypeInv, CallInv, LookUp, At, Local, OnPath
  <1>1. CASE call' = [call EXCEPT ![c] = [r EXCEPT !.pc = "done", !.res = "bad_prefix"]]
    <2> DEFINE q == [r EXCEPT !.pc = "done", !.res = "bad_prefix"]
    <2>1. q \in CallType /\ Local(q)
      BY <1>0, Known DEF CallType, Local, OnPath, Surfaces, Setting
    <2> QED BY <1>1, <2>1, Moved
  <1>2. CASE /\ Cache!Get(cache, hash) = "hit"
             /\ call' = [call EXCEPT ![c] = [r EXCEPT !.pc = "done", !.entry = cache.pos[hash],
                                                      !.res = FromCache(c, cache.pos[hash])]]
    <2> DEFINE e == cache.pos[hash]
               q == [r EXCEPT !.pc = "done", !.entry = e, !.res = FromCache(c, e)]
    <2>1. e \in Entries /\ (e.scope = "routing" => e.lists = "read")
          /\ (e.scope = "analytics" => e.byok = {})
      BY <1>2 DEF TypeInv, CacheInv, CacheOk, Whole, Cache!Get
    <2>2. FromCache(c, e) \in Results /\ (FromCache(c, e) = "accepted" => e.scope = Scope(r.op))
      BY Known DEF FromCache
    <2> HIDE DEF e
    <2>3. q \in CallType
      BY <1>0, <2>1, <2>2, Known DEF CallType
    <2>4. q.op = r.op /\ q.pc = "done" /\ q.entry = e /\ q.arg = r.arg /\ q.inst = r.inst
          /\ q.res = FromCache(c, e)
      BY <1>0 DEF CallType
    <2>5. Local(q)
      <3> HIDE DEF q
      <3> QED BY <1>0, <2>1, <2>2, <2>4 DEF Local, OnPath, Surfaces, Setting, Scope
    <2> QED BY <1>2, <2>3, <2>5, Moved DEF e
  <1>3. CASE call' = [call EXCEPT ![c] = [r EXCEPT !.pc = "done", !.res = "invalid"]]
    <2> DEFINE q == [r EXCEPT !.pc = "done", !.res = "invalid"]
    <2>1. q \in CallType /\ Local(q)
      BY <1>0, Known DEF CallType, Local, OnPath, Surfaces, Setting
    <2> QED BY <1>3, <2>1, Moved
  <1>4. CASE call' = [call EXCEPT ![c] = [r EXCEPT !.pc = "read"]]
    <2> DEFINE q == [r EXCEPT !.pc = "read"]
    <2>1. q \in CallType /\ Local(q)
      BY <1>0, Known DEF CallType, Local, OnPath, Surfaces, Setting
    <2> QED BY <1>4, <2>1, Moved
  <1> QED BY <1>1, <1>2, <1>3, <1>4 DEF LookUp

\* After ReadKey every call is typed.
LEMMA ReadKeyCall ==
  ASSUME TypeInv, NEW c \in Callers, ReadKey(c)
  PROVE  call' \in [Callers -> CallType] /\ \A d \in Callers : Local(call'[d])
  <1> DEFINE r == call[c]
             rows == GetActiveByHash(db.keys, db.insts, r.arg)
             k == CHOOSE k \in rows : TRUE
             e == [ key |-> k.id, scope |-> k.scope, inst |-> k.inst, fresh |-> TRUE,
                    settings |-> (CHOOSE i \in db.insts : i.id = k.inst).settings,
                    byok |-> {}, lists |-> "slim" ]
             q1 == [r EXCEPT !.pc = "done", !.res = "invalid"]
             q2 == [r EXCEPT !.pc = "done", !.res = "wrong_scope"]
             p == IF r.op = "verify" THEN "byok" ELSE "lock"
             q3 == [r EXCEPT !.inst = k.inst, !.entry = e, !.pc = p]
  <1>0. r \in CallType /\ Local(r) /\ r.pc = "read" /\ r.op \in Surfaces
    BY DEF TypeInv, CallInv, ReadKey, At, Local, OnPath
  <1>1. call' = [call EXCEPT ![c] = IF rows = {} THEN q1 ELSE IF k.scope # Scope(r.op)
            THEN q2 ELSE q3]
    BY Zenon DEF ReadKey
  <1>2. q1 \in CallType /\ Local(q1) /\ q2 \in CallType /\ Local(q2)
    BY <1>0, Known DEF CallType, Local, OnPath, Surfaces, Setting
  <1>3. ASSUME rows # {}, k.scope = Scope(r.op)
        PROVE  q3 \in CallType /\ Local(q3)
    <2>1. k \in rows
      BY <1>3
    <2>2. k \in KeyRows /\ \E i \in db.insts : i.id = k.inst
      BY <2>1 DEF GetActiveByHash, Active, TypeInv, DbInv, Table
    <2>3. (CHOOSE i \in db.insts : i.id = k.inst) \in InstRows
      BY <2>2 DEF TypeInv, DbInv, Table
    <2>4. (CHOOSE i \in db.insts : i.id = k.inst).settings \in Nat
      BY <2>3 DEF InstRows
    <2>5. k.id \in Nat /\ k.inst = 1 /\ k.scope \in Scopes
      BY <2>2 DEF KeyRows
    <2> HIDE DEF k, rows
    <2>6. e \in Entries /\ e.scope = Scope(r.op) /\ e.byok = {}
      BY <1>3, <2>4, <2>5 DEF Entries
    <2>a. p \in Pcs /\ e \in Entries \union {None}
      BY <2>6, Known
    <2>b. k.inst \in Nat
      BY <2>5
    <2> HIDE DEF e, p
    <2>7. q3 \in CallType
      BY <1>0, <2>a, <2>b DEF CallType
    <2>8. q3.op = r.op /\ q3.entry = e /\ q3.arg = r.arg /\ q3.inst = 1
          /\ q3.pc = p
      BY <1>0, <2>5 DEF CallType
    <2> HIDE DEF q3
    <2>9. Local(q3)
      BY <1>0, <2>6, <2>8 DEF Local, OnPath, Surfaces, Setting, Scope, p
    <2> QED BY <2>7, <2>9
  <1> HIDE DEF q1, q2, q3, k, rows
  <1> QED BY <1>1, <1>2, <1>3, Moved

\* After ReadByok every call is typed.
LEMMA ReadByokCall ==
  ASSUME TypeInv, NEW c \in Callers, ReadByok(c)
  PROVE  call' \in [Callers -> CallType] /\ \A d \in Callers : Local(call'[d])
  <1> DEFINE r == call[c]
  <1>0. r \in CallType /\ Local(r)
    BY DEF TypeInv, CallInv
  <1>a. PICK rows \in {GetForInstallation(db.ext, r.inst), {}} :
           call' = [call EXCEPT ![c].entry.byok = { x.id : x \in rows }, ![c].pc = "lists"]
    BY DEF ReadByok
  <1>b. { x.id : x \in rows } \in SUBSET Nat
    <2>1. \A x \in rows : x \in ExtRows
      BY <1>a DEF GetForInstallation, Active, TypeInv, DbInv, Table
    <2> QED BY <2>1 DEF ExtRows
  <1> DEFINE e == [r.entry EXCEPT !.byok = { x.id : x \in rows }]
  <1>c. r.op = "verify" /\ r.entry \in Entries /\ r.entry.scope = "routing"
    BY <1>0 DEF ReadByok, At, Local, OnPath
  <1>d. e \in Entries /\ e.scope = "routing" /\ e \in Entries \union {None}
    BY <1>b, <1>c DEF Entries
  <1> DEFINE q == [r EXCEPT !.entry = e, !.pc = "lists"]
  <1>1. q \in CallType
    BY <1>0, <1>d, Known DEF CallType
  <1>2. Local(q)
    BY <1>0, <1>c, <1>d DEF CallType, Local, OnPath, Surfaces, Setting
  <1>3. call' = [call EXCEPT ![c] = q]
    BY <1>a
  <1> HIDE DEF q
  <1> QED BY <1>1, <1>2, <1>3, Moved

\* After RemoveOne every call is typed.
LEMMA RemoveOneCall ==
  ASSUME TypeInv, NEW c \in Callers, RemoveOne(c)
  PROVE  call' \in [Callers -> CallType] /\ \A d \in Callers : Local(call'[d])
  <1> DEFINE r == call[c]
  <1>0. r \in CallType /\ Local(r)
    BY DEF TypeInv, CallInv
  <1>a. PICK hash \in r.todo :
           call' = [call EXCEPT ![c].todo = @ \ {hash},
                        ![c].pc = IF r.todo = {hash} THEN AfterInvalidate(c) ELSE "remove"]
    BY DEF RemoveOne
  <1> DEFINE p == IF r.todo = {hash} THEN AfterInvalidate(c) ELSE "remove"
             t == r.todo \ {hash}
  <1>b. p \in Pcs /\ p \in {"cookie", "done", "remove"} /\ (p = "cookie" => r.op = "login")
        /\ (p = "done" => r.op # "login")
    BY Known DEF AfterInvalidate
  <1>d. r.pc = "remove" /\ t \in SUBSET Nat
    BY <1>0 DEF RemoveOne, At, CallType
  <1> DEFINE q == [r EXCEPT !.todo = t, !.pc = p]
  <1>1. q \in CallType
    BY <1>0, <1>b, <1>d DEF CallType
  <1>2. Local(q)
    BY <1>0, <1>b, <1>d DEF CallType, Local, OnPath, Surfaces, Setting
  <1>3. call' = [call EXCEPT ![c] = q]
    BY <1>a
  <1> HIDE DEF q
  <1> QED BY <1>1, <1>2, <1>3, Moved

\* After SoftDeleteAPIKey every call is typed.
LEMMA SoftDeleteAPIKeyCall ==
  ASSUME TypeInv, NEW c \in Callers, SoftDeleteAPIKey(c)
  PROVE  call' \in [Callers -> CallType] /\ \A d \in Callers : Local(call'[d])
  <1> DEFINE r == call[c]
  <1>0. r \in CallType /\ Local(r)
    BY DEF TypeInv, CallInv
  <1> DEFINE p == AfterSoftDelete(r.op, SoftDeleted(db.keys, r.inst, r.arg))
             x == IF p = "done" THEN "not_found" ELSE "ok"
  <1>a. call' = [call EXCEPT ![c].pc = p, ![c].todo = {}, ![c].res = x]
    BY DEF SoftDeleteAPIKey
  <1>b. p \in Pcs /\ p \in {"invalidate", "done", "mint"} /\ (p = "mint" => r.op # "delete")
    BY Known DEF AfterSoftDelete
  <1>c. x \in Results /\ r.op \in {"rotate", "delete"} /\ {} \in SUBSET Nat
    BY <1>0, Known DEF SoftDeleteAPIKey, At, Local, OnPath
  <1> HIDE DEF p, x
  <1> DEFINE q == [r EXCEPT !.pc = p, !.todo = {}, !.res = x]
  <1>1. q \in CallType
    BY <1>0, <1>b, <1>c DEF CallType
  <1>2. Local(q)
    BY <1>0, <1>b, <1>c DEF CallType, Local, OnPath, Surfaces, Setting
  <1>3. call' = [call EXCEPT ![c] = q]
    BY <1>a
  <1> HIDE DEF q
  <1> QED BY <1>1, <1>2, <1>3, Moved

\* After ResolveUser every call is typed.
LEMMA ResolveUserCall ==
  ASSUME TypeInv, NEW c \in Callers, ResolveUser(c)
  PROVE  call' \in [Callers -> CallType] /\ \A d \in Callers : Local(call'[d])
  <1> DEFINE r == call[c]
  <1>0. r \in CallType /\ Local(r)
    BY DEF TypeInv, CallInv
  <1>z. r.op = "resolve" /\ r.arg \in Nat \X Nat /\ r.inst = 1
    BY <1>0 DEF ResolveUser, At, Local, OnPath
  <1>a. PICK n \in Nat : call' = [call EXCEPT ![c].made = n, ![c].pc = "done", ![c].res = "ok"]
    <2>1. \A e \in ids : e[2] \in Nat
      BY DEF TypeInv, CallInv
    <2>2. \A u \in UpsertUserByEmail(db.users, 1, r.arg[1], r.arg[2]) : u.id \in Nat
      BY <1>z, UpsertByEmailTable DEF TypeInv, DbInv, Table, UserRows
    <2>3. \A u \in UpsertUserByAccount(db.users, 1, r.arg[2]) : u.id \in Nat
      BY <1>z, UpsertByAccountTable DEF TypeInv, DbInv, Table, UserRows
    <2> QED BY <1>z, <2>1, <2>2, <2>3 DEF ResolveUser
  <1> DEFINE q == [r EXCEPT !.made = n, !.pc = "done", !.res = "ok"]
  <1>1. q \in CallType
    BY <1>0, <1>a, Known DEF CallType
  <1>2. Local(q)
    BY <1>0, <1>z, <1>a DEF CallType, Local, OnPath, Surfaces, Setting
  <1>3. call' = [call EXCEPT ![c] = q]
    BY <1>a
  <1> HIDE DEF q
  <1> QED BY <1>1, <1>2, <1>3, Moved

\* After ListKeys every call is typed.
LEMMA ListKeysCall ==
  ASSUME TypeInv, NEW c \in Callers, ListKeys(c)
  PROVE  call' \in [Callers -> CallType] /\ \A d \in Callers : Local(call'[d])
  <1> DEFINE r == call[c]
  <1>0. r \in CallType /\ Local(r)
    BY DEF TypeInv, CallInv
  <1>a. r.op \in {"rotate", "delete", "playground"} /\ r.inst = 1 /\ r.pc = "list"
    BY <1>0 DEF ListKeys, At, Local, OnPath
  <1>b. \A k \in db.keys : k.id \in Nat
    BY DEF TypeInv, DbInv, Table, KeyRows
  <1>1. CASE \E n \in Nat : call' = [call EXCEPT ![c].made = n, ![c].pc = "done", ![c].res = "ok"]
    <2>0. PICK n \in Nat : call' = [call EXCEPT ![c].made = n, ![c].pc = "done", ![c].res = "ok"]
      BY <1>1
    <2> DEFINE q == [r EXCEPT !.made = n, !.pc = "done", !.res = "ok"]
    <2>1. q \in CallType
      BY <1>0, <2>0, Known DEF CallType
    <2>2. Local(q)
      BY <1>0, <1>a, <2>0 DEF CallType, Local, OnPath, Surfaces, Setting
    <2>3. call' = [call EXCEPT ![c] = q]
      BY <2>0 DEF Goto, Return
    <2> HIDE DEF q
    <2> QED BY <2>1, <2>2, <2>3, Moved
  <1>2. CASE Return(c, "not_found")
    <2> DEFINE q == [r EXCEPT !.pc = "done", !.res = "not_found"]
    <2>1. q \in CallType
      BY <1>0, <1>2, Known DEF CallType
    <2>2. Local(q)
      BY <1>0, <1>a, <1>2 DEF CallType, Local, OnPath, Surfaces, Setting
    <2>3. call' = [call EXCEPT ![c] = q]
      BY <1>2 DEF Goto, Return
    <2> HIDE DEF q
    <2> QED BY <2>1, <2>2, <2>3, Moved
  <1>3. CASE Goto(c, "mint") /\ r.op = "playground"
    <2> DEFINE q == [r EXCEPT !.pc = "mint"]
    <2>1. q \in CallType
      BY <1>0, <1>3, Known DEF CallType
    <2>2. Local(q)
      BY <1>0, <1>a, <1>3 DEF CallType, Local, OnPath, Surfaces, Setting
    <2>3. call' = [call EXCEPT ![c] = q]
      BY <1>3 DEF Goto, Return
    <2> HIDE DEF q
    <2> QED BY <2>1, <2>2, <2>3, Moved
  <1>4. CASE Goto(c, "softdelete") /\ r.op # "playground"
    <2> DEFINE q == [r EXCEPT !.pc = "softdelete"]
    <2>1. q \in CallType
      BY <1>0, <1>4, Known DEF CallType
    <2>2. Local(q)
      BY <1>0, <1>a, <1>4 DEF CallType, Local, OnPath, Surfaces, Setting
    <2>3. call' = [call EXCEPT ![c] = q]
      BY <1>4 DEF Goto, Return
    <2> HIDE DEF q
    <2> QED BY <2>1, <2>2, <2>3, Moved
  <1> QED BY <1>1, <1>2, <1>3, <1>4, <1>b DEF ListKeys, ListAPIKeys, Active

\* After FindInstallation every call is typed.
LEMMA FindInstallationCall ==
  ASSUME TypeInv, NEW c \in Callers, FindInstallation(c)
  PROVE  call' \in [Callers -> CallType] /\ \A d \in Callers : Local(call'[d])
  <1> DEFINE r == call[c]
  <1>0. r \in CallType /\ Local(r)
    BY DEF TypeInv, CallInv
  <1>a. r.op \in {"login", "dashboard"} /\ AfterEnsure(c) \in Pcs
        /\ AfterEnsure(c) = IF r.op = "login" THEN "replace" ELSE "done"
    BY <1>0, Known DEF FindInstallation, At, Local, OnPath, AfterEnsure
  <1>b. \A i \in db.insts : i.id \in Nat
    BY DEF TypeInv, DbInv, Table, InstRows
  <1>1. CASE \E n \in Nat : call' = [call EXCEPT ![c].inst = n, ![c].pc = AfterEnsure(c)]
    <2>0. PICK n \in Nat : call' = [call EXCEPT ![c].inst = n, ![c].pc = AfterEnsure(c)]
      BY <1>1
    <2> DEFINE q == [r EXCEPT !.inst = n, !.pc = AfterEnsure(c)]
    <2>1. q \in CallType
      BY <1>0, <2>0, <1>a DEF CallType
    <2>2. Local(q)
      BY <1>0, <1>a, <2>0 DEF CallType, Local, OnPath, Surfaces, Setting
    <2>3. call' = [call EXCEPT ![c] = q]
      BY <2>0 DEF Goto, Return
    <2> HIDE DEF q
    <2> QED BY <2>1, <2>2, <2>3, Moved
  <1>2. CASE Goto(c, "create")
    <2> DEFINE q == [r EXCEPT !.pc = "create"]
    <2>1. q \in CallType
      BY <1>0, <1>2, Known DEF CallType
    <2>2. Local(q)
      BY <1>0, <1>a, <1>2 DEF CallType, Local, OnPath, Surfaces, Setting
    <2>3. call' = [call EXCEPT ![c] = q]
      BY <1>2 DEF Goto, Return
    <2> HIDE DEF q
    <2> QED BY <2>1, <2>2, <2>3, Moved
  <1>3. CASE Return(c, "error")
    <2> DEFINE q == [r EXCEPT !.pc = "done", !.res = "error"]
    <2>1. q \in CallType
      BY <1>0, <1>3, Known DEF CallType
    <2>2. Local(q)
      BY <1>0, <1>a, <1>3 DEF CallType, Local, OnPath, Surfaces, Setting
    <2>3. call' = [call EXCEPT ![c] = q]
      BY <1>3 DEF Goto, Return
    <2> HIDE DEF q
    <2> QED BY <2>1, <2>2, <2>3, Moved
  <1> QED BY <1>1, <1>2, <1>3, <1>b DEF FindInstallation, ListInstallations, Active

\* After EnsureInstallation every call is typed.
LEMMA EnsureInstallationCall ==
  ASSUME TypeInv, NEW c \in Callers, EnsureInstallation(c)
  PROVE  call' \in [Callers -> CallType] /\ \A d \in Callers : Local(call'[d])
  <1> DEFINE r == call[c]
  <1>0. r \in CallType /\ Local(r)
    BY DEF TypeInv, CallInv
  <1>a. r.op \in {"login", "dashboard"} /\ AfterEnsure(c) \in Pcs
        /\ AfterEnsure(c) = IF r.op = "login" THEN "replace" ELSE "done"
    BY <1>0, Known DEF EnsureInstallation, At, Local, OnPath, AfterEnsure
  <1> DEFINE new == CreateInstallation(db.insts, r.made)
  <1>b. \A i \in new : i.id \in Nat
    BY FreshNat DEF CreateInstallation, TypeInv, DbInv, Table
  <1>c. \/ Goto(c, "refind")
        \/ \E i \in new : call' = [call EXCEPT ![c].inst = i.id, ![c].pc = AfterEnsure(c)]
    BY DEF EnsureInstallation
  <1> HIDE DEF new
  <1>1. CASE \E n \in Nat : call' = [call EXCEPT ![c].inst = n, ![c].pc = AfterEnsure(c)]
    <2>0. PICK n \in Nat : call' = [call EXCEPT ![c].inst = n, ![c].pc = AfterEnsure(c)]
      BY <1>1
    <2> DEFINE q == [r EXCEPT !.inst = n, !.pc = AfterEnsure(c)]
    <2>1. q \in CallType
      BY <1>0, <2>0, <1>a DEF CallType
    <2>2. Local(q)
      BY <1>0, <1>a, <2>0 DEF CallType, Local, OnPath, Surfaces, Setting
    <2>3. call' = [call EXCEPT ![c] = q]
      BY <2>0 DEF Goto, Return
    <2> HIDE DEF q
    <2> QED BY <2>1, <2>2, <2>3, Moved
  <1>2. CASE Goto(c, "refind")
    <2> DEFINE q == [r EXCEPT !.pc = "refind"]
    <2>1. q \in CallType
      BY <1>0, <1>2, Known DEF CallType
    <2>2. Local(q)
      BY <1>0, <1>a, <1>2 DEF CallType, Local, OnPath, Surfaces, Setting
    <2>3. call' = [call EXCEPT ![c] = q]
      BY <1>2 DEF Goto, Return
    <2> HIDE DEF q
    <2> QED BY <2>1, <2>2, <2>3, Moved
  <1> QED BY <1>1, <1>2, <1>b, <1>c

\* After OpenDashboard every call is typed.
LEMMA OpenDashboardCall ==
  ASSUME TypeInv, NEW c \in Callers, OpenDashboard(c)
  PROVE  call' \in [Callers -> CallType] /\ \A d \in Callers : Local(call'[d])
  <1> DEFINE r == call[c]
  <1>0. r \in CallType /\ Local(r)
    BY DEF TypeInv, CallInv
  <1>a. r.op = "dashboard"
    BY <1>0 DEF OpenDashboard, At, Local, OnPath
  <1>b. \A s \in db.sessions : s.account \in Nat /\ s.inst \in Nat
    BY DEF TypeInv, DbInv, Table, SessionRows
  <1>c. ASSUME NEW s \in db.sessions, NEW row,
               call' = [call EXCEPT ![c] =
                           [r EXCEPT !.made = s.account, !.inst = IF row = {} THEN None ELSE s.inst,
                                     !.pc = IF row = {} THEN "find" ELSE "done", !.res = "ok"]]
        PROVE  \E m \in Nat, n \in Nat, p \in {"find", "done"} :
              call' = [call EXCEPT ![c] = [r EXCEPT !.made = m, !.inst = n, !.pc = p, !.res = "ok"]]
    <2> DEFINE n == IF row = {} THEN None ELSE s.inst
               p == IF row = {} THEN "find" ELSE "done"
    <2>1. n \in Nat /\ s.account \in Nat
      BY <1>b DEF None
    <2>2. p \in {"find", "done"} /\ call' = [call EXCEPT ![c] = [r EXCEPT !.made = s.account,
              !.inst = n,
                                                            !.pc = p, !.res = "ok"]]
      BY <1>c
    <2> HIDE DEF n, p
    <2> QED BY <2>1, <2>2
  <1>1. CASE Return(c, "invalid")
    <2> DEFINE q == [r EXCEPT !.pc = "done", !.res = "invalid"]
    <2>1. q \in CallType
      BY <1>0, <1>1, Known DEF CallType
    <2>2. Local(q)
      BY <1>0, <1>a, <1>1 DEF CallType, Local, OnPath, Surfaces, Setting
    <2>3. call' = [call EXCEPT ![c] = q]
      BY <1>1 DEF Goto, Return
    <2> HIDE DEF q
    <2> QED BY <2>1, <2>2, <2>3, Moved
  <1>2. CASE \E m \in Nat, n \in Nat, p \in {"find", "done"} :
              call' = [call EXCEPT ![c] = [r EXCEPT !.made = m, !.inst = n, !.pc = p, !.res = "ok"]]
    <2>0. PICK m \in Nat, n \in Nat, p \in {"find", "done"} :
              call' = [call EXCEPT ![c] = [r EXCEPT !.made = m, !.inst = n, !.pc = p, !.res = "ok"]]
      BY <1>2
    <2> DEFINE q == [r EXCEPT !.made = m, !.inst = n, !.pc = p, !.res = "ok"]
    <2>1. q \in CallType
      BY <1>0, <2>0, Known DEF CallType
    <2>2. Local(q)
      BY <1>0, <1>a, <2>0 DEF CallType, Local, OnPath, Surfaces, Setting
    <2>3. call' = [call EXCEPT ![c] = q]
      BY <2>0 DEF Goto, Return
    <2> HIDE DEF q
    <2> QED BY <2>1, <2>2, <2>3, Moved
  <1>3. CASE ~Return(c, "invalid")
    <2>1. PICK s \in UNION { GetActiveSession(db.sessions, t.id) : t \in db.sessions } :
           \E row :
             call' = [call EXCEPT ![c] =
                        [@ EXCEPT !.made = s.account, !.inst = IF row = {} THEN None ELSE s.inst,
                                  !.pc = IF row = {} THEN "find" ELSE "done", !.res = "ok"]]
      BY <1>3, Zenon DEF OpenDashboard
    <2>2. s \in db.sessions
      BY DEF GetActiveSession
    <2> QED BY <1>2, <1>c, <2>1, <2>2
  <1> QED BY <1>1, <1>3

\* After Invalidate every call is typed.
LEMMA InvalidateCall ==
  ASSUME TypeInv, NEW c \in Callers, Invalidate(c)
  PROVE  call' \in [Callers -> CallType] /\ \A d \in Callers : Local(call'[d])
  <1>0. call \in [Callers -> CallType] /\ Local(call[c])
    BY DEF TypeInv, CallInv
  <1> DEFINE found == Cache!Tracked(cache, call[c].inst)
             p == IF found = {} THEN AfterInvalidate(c) ELSE "remove"
  <1>a. found \in SUBSET Nat
    BY DEF Cache!Tracked, TypeInv, CacheInv, CacheOk
  <1>b. p \in Pcs /\ p \in {"cookie", "done", "remove"} /\ (p = "cookie" => call[c].op = "login")
    BY Known DEF AfterInvalidate
  <1>c. call' = [call EXCEPT ![c].todo = found, ![c].pc = p]
    BY DEF Invalidate
  <1> HIDE DEF found, p
  <1>1. call' \in [Callers -> CallType]
    BY <1>0, <1>a, <1>b, <1>c DEF CallType
  <1>2. Local(call'[c])
    BY <1>0, <1>a, <1>b, <1>c DEF Invalidate, At, CallType, Local, OnPath, Surfaces, Setting
  <1>3. \A d \in Callers \ {c} : call'[d] = call[d]
    BY <1>0 DEF Invalidate
  <1> QED BY <1>1, <1>2, <1>3 DEF TypeInv, CallInv

\* After DropByok every call is typed.
LEMMA DropByokCall ==
  ASSUME TypeInv, NEW c \in Callers, DropByok(c)
  PROVE  call' \in [Callers -> CallType] /\ \A d \in Callers : Local(call'[d])
  <1>0. call \in [Callers -> CallType] /\ Local(call[c])
    BY DEF TypeInv, CallInv
  <1>a. call' = [call EXCEPT ![c].pc = "invalidate", ![c].res = "ok"]
    BY DEF DropByok
  <1>1. call' \in [Callers -> CallType]
    BY <1>0, <1>a, Known DEF CallType
  <1>2. Local(call'[c])
    BY <1>0, <1>a DEF DropByok, At, CallType, Local, OnPath, Surfaces, Setting
  <1>3. \A d \in Callers \ {c} : call'[d] = call[d]
    BY <1>0 DEF DropByok
  <1> QED BY <1>1, <1>2, <1>3 DEF TypeInv, CallInv

\* After Refuse every call is typed.
LEMMA RefuseCall ==
  ASSUME TypeInv, NEW c \in Callers, Refuse(c)
  PROVE  call' \in [Callers -> CallType] /\ \A d \in Callers : Local(call'[d])
  <1>0. call \in [Callers -> CallType] /\ Local(call[c])
    BY DEF TypeInv, CallInv
  <1>a. call[c].op \in {"settings", "aliases", "byok"}
    BY <1>0 DEF Refuse, At, Ops, Local, OnPath
  <1>1. call' \in [Callers -> CallType]
    BY <1>0, Known DEF Refuse, Return, CallType
  <1>2. Local(call'[c])
    BY <1>0, <1>a DEF Refuse, Return, CallType, Local, OnPath, Surfaces, Setting
  <1>3. \A d \in Callers \ {c} : call'[d] = call[d]
    BY <1>0 DEF Refuse, Return
  <1> QED BY <1>1, <1>2, <1>3 DEF TypeInv, CallInv

\* After Fail every call is typed.
LEMMA FailCall ==
  ASSUME TypeInv, NEW c \in Callers, Fail(c)
  PROVE  call' \in [Callers -> CallType] /\ \A d \in Callers : Local(call'[d])
  <1>0. call \in [Callers -> CallType] /\ Local(call[c])
    BY DEF TypeInv, CallInv
  <1>a. call[c].op # "none"
    BY <1>0 DEF Fail, Fallible, Local, OnPath
  <1>1. call' \in [Callers -> CallType]
    BY <1>0, Known DEF Fail, Fails, Return, CallType
  <1>2. Local(call'[c])
    BY <1>0, <1>a DEF Fail, Fails, Return, CallType, Local, OnPath, Surfaces, Setting
  <1>3. \A d \in Callers \ {c} : call'[d] = call[d]
    BY <1>0 DEF Fail, Fails, Return
  <1> QED BY <1>1, <1>2, <1>3 DEF TypeInv, CallInv

\* After UpsertByAiandUser every call is typed.
LEMMA UpsertByAiandUserCall ==
  ASSUME TypeInv, NEW c \in Callers, UpsertByAiandUser(c)
  PROVE  call' \in [Callers -> CallType] /\ \A d \in Callers : Local(call'[d])
  <1>0. call \in [Callers -> CallType] /\ Local(call[c])
    BY DEF TypeInv, CallInv
  <1>a. PICK n \in Nat : call' = [call EXCEPT ![c].made = n, ![c].pc = "find"]
    <2> DEFINE accounts == UpsertAccount(db.accounts, call[c].arg)
    <2>1. db'.accounts = accounts
      BY DEF UpsertByAiandUser, TypeInv, DbInv
    <2>2. call[c].arg \in Users
      BY <1>0 DEF UpsertByAiandUser, At, Local, OnPath
    <2>3. (CHOOSE a \in accounts : a.user = call[c].arg).id \in Nat
      BY <2>2, UpsertAccountTable DEF TypeInv, DbInv
    <2> QED BY <2>1, <2>3 DEF UpsertByAiandUser
  <1>1. call' \in [Callers -> CallType]
    BY <1>0, <1>a, Known DEF CallType
  <1>2. Local(call'[c])
    BY <1>0, <1>a DEF UpsertByAiandUser, At, CallType, Local, OnPath, Surfaces, Setting
  <1>3. \A d \in Callers \ {c} : call'[d] = call[d]
    BY <1>0 DEF UpsertByAiandUser
  <1> QED BY <1>1, <1>2, <1>3 DEF TypeInv, CallInv

\* After ReadLists every call is typed.
LEMMA ReadListsCall ==
  ASSUME TypeInv, NEW c \in Callers, ReadLists(c)
  PROVE  call' \in [Callers -> CallType] /\ \A d \in Callers : Local(call'[d])
  <1>0. call \in [Callers -> CallType] /\ Local(call[c])
    BY DEF TypeInv, CallInv
  <1>1. call' \in [Callers -> CallType]
    BY <1>0, Known DEF ReadLists, AfterLists, At, CallType
  <1>2. Local(call'[c])
    BY <1>0 DEF ReadLists, AfterLists, At, CallType, Local, OnPath, Surfaces, Setting
  <1>3. \A d \in Callers \ {c} : call'[d] = call[d]
    BY <1>0 DEF ReadLists, AfterLists
  <1> QED BY <1>1, <1>2, <1>3 DEF TypeInv, CallInv

\* After SetLock every call is typed.
LEMMA SetLockCall ==
  ASSUME TypeInv, NEW c \in Callers, SetLock(c)
  PROVE  call' \in [Callers -> CallType] /\ \A d \in Callers : Local(call'[d])
  <1>0. call \in [Callers -> CallType] /\ Local(call[c])
    BY DEF TypeInv, CallInv
  <1>1. call' \in [Callers -> CallType]
    BY <1>0, Known DEF SetLock, Goto, At, CallType
  <1>2. Local(call'[c])
    BY <1>0 DEF SetLock, Goto, At, CallType, Local, OnPath, Surfaces, Setting
  <1>3. \A d \in Callers \ {c} : call'[d] = call[d]
    BY <1>0 DEF SetLock, Goto
  <1> QED BY <1>1, <1>2, <1>3 DEF TypeInv, CallInv

\* After SetIndex every call is typed.
LEMMA SetIndexCall ==
  ASSUME TypeInv, NEW c \in Callers, SetIndex(c)
  PROVE  call' \in [Callers -> CallType] /\ \A d \in Callers : Local(call'[d])
  <1>0. call \in [Callers -> CallType] /\ Local(call[c])
    BY DEF TypeInv, CallInv
  <1>1. call' \in [Callers -> CallType]
    BY <1>0, Known DEF SetIndex, At, CallType
  <1>2. Local(call'[c])
    BY <1>0 DEF SetIndex, At, CallType, Local, OnPath, Surfaces, Setting
  <1>3. \A d \in Callers \ {c} : call'[d] = call[d]
    BY <1>0 DEF SetIndex
  <1> QED BY <1>1, <1>2, <1>3 DEF TypeInv, CallInv

\* After SetAdd every call is typed.
LEMMA SetAddCall ==
  ASSUME TypeInv, NEW c \in Callers, SetAdd(c)
  PROVE  call' \in [Callers -> CallType] /\ \A d \in Callers : Local(call'[d])
  <1>0. call \in [Callers -> CallType] /\ Local(call[c])
    BY DEF TypeInv, CallInv
  <1>1. call' \in [Callers -> CallType]
    BY <1>0, Known DEF SetAdd, Goto, At, CallType
  <1>2. Local(call'[c])
    BY <1>0 DEF SetAdd, Goto, At, CallType, Local, OnPath, Surfaces, Setting
  <1>3. \A d \in Callers \ {c} : call'[d] = call[d]
    BY <1>0 DEF SetAdd, Goto
  <1> QED BY <1>1, <1>2, <1>3 DEF TypeInv, CallInv

\* After SetCheck every call is typed.
LEMMA SetCheckCall ==
  ASSUME TypeInv, NEW c \in Callers, SetCheck(c)
  PROVE  call' \in [Callers -> CallType] /\ \A d \in Callers : Local(call'[d])
  <1>0. call \in [Callers -> CallType] /\ Local(call[c])
    BY DEF TypeInv, CallInv
  <1>1. call' \in [Callers -> CallType]
    BY <1>0, Known DEF SetCheck, Return, At, CallType
  <1>2. Local(call'[c])
    BY <1>0 DEF SetCheck, Return, At, CallType, Local, OnPath, Surfaces, Setting
  <1>3. \A d \in Callers \ {c} : call'[d] = call[d]
    BY <1>0 DEF SetCheck, Return
  <1> QED BY <1>1, <1>2, <1>3 DEF TypeInv, CallInv

\* After MintKey every call is typed.
LEMMA MintKeyCall ==
  ASSUME TypeInv, NEW c \in Callers, MintKey(c)
  PROVE  call' \in [Callers -> CallType] /\ \A d \in Callers : Local(call'[d])
  <1>0. call \in [Callers -> CallType] /\ Local(call[c])
    BY DEF TypeInv, CallInv
  <1>1. call' \in [Callers -> CallType]
    BY <1>0, Known DEF MintKey, At, CallType
  <1>2. Local(call'[c])
    BY <1>0 DEF MintKey, At, CallType, Local, OnPath, Surfaces, Setting
  <1>3. \A d \in Callers \ {c} : call'[d] = call[d]
    BY <1>0 DEF MintKey
  <1> QED BY <1>1, <1>2, <1>3 DEF TypeInv, CallInv

\* After UpdateSettings every call is typed.
LEMMA UpdateSettingsCall ==
  ASSUME TypeInv, NEW c \in Callers, UpdateSettings(c)
  PROVE  call' \in [Callers -> CallType] /\ \A d \in Callers : Local(call'[d])
  <1>0. call \in [Callers -> CallType] /\ Local(call[c])
    BY DEF TypeInv, CallInv
  <1>1. call' \in [Callers -> CallType]
    BY <1>0, Known DEF UpdateSettings, At, CallType
  <1>2. Local(call'[c])
    BY <1>0 DEF UpdateSettings, At, CallType, Local, OnPath, Surfaces, Setting
  <1>3. \A d \in Callers \ {c} : call'[d] = call[d]
    BY <1>0 DEF UpdateSettings
  <1> QED BY <1>1, <1>2, <1>3 DEF TypeInv, CallInv

\* After ReplaceByok every call is typed.
LEMMA ReplaceByokCall ==
  ASSUME TypeInv, NEW c \in Callers, ReplaceByok(c)
  PROVE  call' \in [Callers -> CallType] /\ \A d \in Callers : Local(call'[d])
  <1>0. call \in [Callers -> CallType] /\ Local(call[c])
    BY DEF TypeInv, CallInv
  <1>1. call' \in [Callers -> CallType]
    BY <1>0, Known DEF ReplaceByok, Goto, At, CallType
  <1>2. Local(call'[c])
    BY <1>0 DEF ReplaceByok, Goto, At, CallType, Local, OnPath, Surfaces, Setting
  <1>3. \A d \in Callers \ {c} : call'[d] = call[d]
    BY <1>0 DEF ReplaceByok, Goto
  <1> QED BY <1>1, <1>2, <1>3 DEF TypeInv, CallInv

\* After StoreByok every call is typed.
LEMMA StoreByokCall ==
  ASSUME TypeInv, NEW c \in Callers, StoreByok(c)
  PROVE  call' \in [Callers -> CallType] /\ \A d \in Callers : Local(call'[d])
  <1>0. call \in [Callers -> CallType] /\ Local(call[c])
    BY DEF TypeInv, CallInv
  <1>1. call' \in [Callers -> CallType]
    BY <1>0, Known DEF StoreByok, Return, At, CallType
  <1>2. Local(call'[c])
    BY <1>0 DEF StoreByok, Return, At, CallType, Local, OnPath, Surfaces, Setting
  <1>3. \A d \in Callers \ {c} : call'[d] = call[d]
    BY <1>0 DEF StoreByok, Return
  <1> QED BY <1>1, <1>2, <1>3 DEF TypeInv, CallInv

\* After SetAliases every call is typed.
LEMMA SetAliasesCall ==
  ASSUME TypeInv, NEW c \in Callers, SetAliases(c)
  PROVE  call' \in [Callers -> CallType] /\ \A d \in Callers : Local(call'[d])
  <1>0. call \in [Callers -> CallType] /\ Local(call[c])
    BY DEF TypeInv, CallInv
  <1>1. call' \in [Callers -> CallType]
    BY <1>0, Known DEF SetAliases, Return, At, CallType
  <1>2. Local(call'[c])
    BY <1>0 DEF SetAliases, Return, At, CallType, Local, OnPath, Surfaces, Setting
  <1>3. \A d \in Callers \ {c} : call'[d] = call[d]
    BY <1>0 DEF SetAliases, Return
  <1> QED BY <1>1, <1>2, <1>3 DEF TypeInv, CallInv

\* After CheckLimit every call is typed.
LEMMA CheckLimitCall ==
  ASSUME TypeInv, NEW c \in Callers, CheckLimit(c)
  PROVE  call' \in [Callers -> CallType] /\ \A d \in Callers : Local(call'[d])
  <1>0. call \in [Callers -> CallType] /\ Local(call[c])
    BY DEF TypeInv, CallInv
  <1>1. call' \in [Callers -> CallType]
    BY <1>0, Known DEF CheckLimit, Return, Goto, At, CallType
  <1>2. Local(call'[c])
    BY <1>0 DEF CheckLimit, Return, Goto, At, CallType, Local, OnPath, Surfaces, Setting
  <1>3. \A d \in Callers \ {c} : call'[d] = call[d]
    BY <1>0 DEF CheckLimit, Return, Goto
  <1> QED BY <1>1, <1>2, <1>3 DEF TypeInv, CallInv

\* After ValidateKey every call is typed.
LEMMA ValidateKeyCall ==
  ASSUME TypeInv, NEW c \in Callers, ValidateKey(c)
  PROVE  call' \in [Callers -> CallType] /\ \A d \in Callers : Local(call'[d])
  <1>0. call \in [Callers -> CallType] /\ Local(call[c])
    BY DEF TypeInv, CallInv
  <1>1. call' \in [Callers -> CallType]
    BY <1>0, Known DEF ValidateKey, Goto, CountsAsFailure, At, CallType
  <1>2. Local(call'[c])
    BY <1>0 DEF ValidateKey, Goto, CountsAsFailure, At, CallType, Local, OnPath, Surfaces, Setting
  <1>3. \A d \in Callers \ {c} : call'[d] = call[d]
    BY <1>0 DEF ValidateKey, Goto, CountsAsFailure
  <1> QED BY <1>1, <1>2, <1>3 DEF TypeInv, CallInv

\* After NoteFailure every call is typed.
LEMMA NoteFailureCall ==
  ASSUME TypeInv, NEW c \in Callers, NoteFailure(c)
  PROVE  call' \in [Callers -> CallType] /\ \A d \in Callers : Local(call'[d])
  <1>0. call \in [Callers -> CallType] /\ Local(call[c])
    BY DEF TypeInv, CallInv
  <1>1. call' \in [Callers -> CallType]
    BY <1>0, Known DEF NoteFailure, Goto, At, CallType
  <1>2. Local(call'[c])
    BY <1>0 DEF NoteFailure, Goto, At, CallType, Local, OnPath, Surfaces, Setting
  <1>3. \A d \in Callers \ {c} : call'[d] = call[d]
    BY <1>0 DEF NoteFailure, Goto
  <1> QED BY <1>1, <1>2, <1>3 DEF TypeInv, CallInv

\* After IssueLoginSession every call is typed.
LEMMA IssueLoginSessionCall ==
  ASSUME TypeInv, NEW c \in Callers, IssueLoginSession(c)
  PROVE  call' \in [Callers -> CallType] /\ \A d \in Callers : Local(call'[d])
  <1>0. call \in [Callers -> CallType] /\ Local(call[c])
    BY DEF TypeInv, CallInv
  <1>1. call' \in [Callers -> CallType]
    BY <1>0, Known DEF IssueLoginSession, Return, At, CallType
  <1>2. Local(call'[c])
    BY <1>0 DEF IssueLoginSession, Return, At, CallType, Local, OnPath, Surfaces, Setting
  <1>3. \A d \in Callers \ {c} : call'[d] = call[d]
    BY <1>0 DEF IssueLoginSession, Return
  <1> QED BY <1>1, <1>2, <1>3 DEF TypeInv, CallInv

-----------------------------------------------------------------------------
(* What the critical sections leave in the cache.                           *)

\* A cache put together from parts that are in order is in order.
LEMMA MakeCache ==
  ASSUME NEW p, NEW n, NEW i, NEW g,
         p = [h \in DOMAIN p |-> p[h]], DOMAIN p \subseteq Nat, \A h \in DOMAIN p : Whole(p[h]),
         i \subseteq Nat \X Nat, g \in [Insts -> Nat]
  PROVE  CacheOk([pos |-> p, neg |-> n, index |-> i, gen |-> g])
  BY DEF CacheOk

\* Removing an entry takes its pair out of the index with it.
LEMMA RemoveOk ==
  ASSUME NEW x, CacheOk(x), NEW h
  PROVE  /\ CacheOk(Cache!Remove(x, h))
         /\ DOMAIN Cache!Remove(x, h).pos = DOMAIN x.pos \ {h}
         /\ \A g \in DOMAIN x.pos \ {h} : Cache!Remove(x, h).pos[g] = x.pos[g]
         /\ Cache!Remove(x, h).gen = x.gen /\ Cache!Remove(x, h).neg = x.neg
         /\ Cache!Remove(x, h).index =
              IF h \in DOMAIN x.pos THEN x.index \ {<<x.pos[h].inst, h>>} ELSE x.index
  <1> DEFINE y == Cache!Remove(x, h)
             i == x.index \ {<<x.pos[h].inst, h>>}
             p == [g \in DOMAIN x.pos \ {h} |-> x.pos[g]]
  <1>1. CASE h \notin DOMAIN x.pos
    <2>1. y = x
      BY <1>1 DEF Cache!Remove
    <2> QED BY <1>1, <2>1
  <1>2. CASE h \in DOMAIN x.pos
    <2>0. x = [pos |-> x.pos, neg |-> x.neg, index |-> x.index, gen |-> x.gen]
      BY DEF CacheOk
    <2>1. y = [pos |-> p, neg |-> x.neg, index |-> i, gen |-> x.gen]
      <3> DEFINE z == [x EXCEPT !.index = i]
      <3>1. z = [pos |-> x.pos, neg |-> x.neg, index |-> i, gen |-> x.gen]
        <4> HIDE DEF i
        <4> QED BY <2>0
      <3>2. y = [z EXCEPT !.pos = Cache!Restrict(z.pos, DOMAIN z.pos \ {h})]
        BY <1>2 DEF Cache!Remove, Cache!onPositiveEvict
      <3>3. Cache!Restrict(z.pos, DOMAIN z.pos \ {h}) = p
        BY <3>1 DEF Cache!Restrict
      <3> HIDE DEF p, i, z
      <3> QED BY <3>1, <3>2, <3>3
    <2>2. p = [g \in DOMAIN p |-> p[g]] /\ DOMAIN p \subseteq Nat
          /\ \A g \in DOMAIN p : Whole(p[g])
      BY DEF CacheOk
    <2>3. i \subseteq Nat \X Nat /\ x.gen \in [Insts -> Nat]
      BY DEF CacheOk
    <2>4. DOMAIN p = DOMAIN x.pos \ {h} /\ \A g \in DOMAIN x.pos \ {h} : p[g] = x.pos[g]
      OBVIOUS
    <2> HIDE DEF y, p, i
    <2>5. CacheOk(y)
      BY <2>1, <2>2, <2>3, MakeCache
    <2>6. y.pos = p /\ y.neg = x.neg /\ y.index = i /\ y.gen = x.gen
      BY <2>1
    <2> QED BY <1>2, <2>4, <2>5, <2>6 DEF y, i
  <1> QED BY <1>1, <1>2

\* Adding an entry that was read in full.
LEMMA AddOk ==
  ASSUME NEW x, CacheOk(x), NEW h \in Nat, NEW e, Whole(e)
  PROVE  /\ CacheOk(Cache!Add(x, h, e))
         /\ DOMAIN Cache!Add(x, h, e).pos = DOMAIN x.pos \union {h}
         /\ \A g \in DOMAIN x.pos : g # h => Cache!Add(x, h, e).pos[g] = x.pos[g]
         /\ Cache!Add(x, h, e).pos[h] = e
         /\ Cache!Add(x, h, e).gen = x.gen /\ Cache!Add(x, h, e).neg = x.neg
         /\ Cache!Add(x, h, e).index = x.index
  <1> DEFINE y == Cache!Add(x, h, e)
             p == [g \in DOMAIN x.pos \union {h} |-> IF g = h THEN e ELSE x.pos[g]]
  <1>1. y = [pos |-> p, neg |-> x.neg, index |-> x.index, gen |-> x.gen]
    <2>1. y = [x EXCEPT !.pos = p]
      BY DEF Cache!Add
    <2> HIDE DEF p, y
    <2> QED BY <2>1 DEF CacheOk
  <1>2. p = [g \in DOMAIN p |-> p[g]] /\ DOMAIN p \subseteq Nat
        /\ \A g \in DOMAIN p : Whole(p[g])
    BY DEF CacheOk
  <1>3. DOMAIN p = DOMAIN x.pos \union {h} /\ p[h] = e
        /\ \A g \in DOMAIN x.pos : g # h => p[g] = x.pos[g]
    OBVIOUS
  <1>4. x.index \subseteq Nat \X Nat /\ x.gen \in [Insts -> Nat]
    BY DEF CacheOk
  <1> HIDE DEF y, p
  <1>5. CacheOk(y)
    BY <1>1, <1>2, <1>4, MakeCache
  <1>6. y.pos = p /\ y.neg = x.neg /\ y.index = x.index /\ y.gen = x.gen
    BY <1>1
  <1> QED BY <1>3, <1>5, <1>6 DEF y

\* Indexing, unindexing and the negative entries touch no positive entry.
LEMMA IndexOk ==
  ASSUME NEW x, CacheOk(x), NEW i \in Nat, NEW h \in Nat
  PROVE  /\ CacheOk(Cache!SetIndex(x, i, h)) /\ CacheOk(Cache!Unindex(x, i, h))
         /\ CacheOk(Cache!SetNegative(x, h)) /\ CacheOk(Cache!ExpireNegative(x, h))
         /\ Cache!SetIndex(x, i, h).pos = x.pos /\ Cache!SetIndex(x, i, h).gen = x.gen
         /\ Cache!SetIndex(x, i, h).index = x.index \union {<<i, h>>}
         /\ Cache!Unindex(x, i, h).pos = x.pos /\ Cache!Unindex(x, i, h).gen = x.gen
         /\ Cache!Unindex(x, i, h).index = x.index \ {<<i, h>>}
         /\ Cache!SetNegative(x, h).pos = x.pos /\ Cache!SetNegative(x, h).gen = x.gen
         /\ Cache!SetNegative(x, h).index = x.index
         /\ Cache!ExpireNegative(x, h).pos = x.pos /\ Cache!ExpireNegative(x, h).gen = x.gen
         /\ Cache!ExpireNegative(x, h).index = x.index
  <1> DEFINE S(n, j) == [pos |-> x.pos, neg |-> n, index |-> j, gen |-> x.gen]
             add == x.index \union {<<i, h>>}
             sub == x.index \ {<<i, h>>}
  <1>0. x = S(x.neg, x.index)
    BY DEF CacheOk
  <1>1. /\ Cache!SetIndex(x, i, h) = S(x.neg, add)
        /\ Cache!Unindex(x, i, h) = S(x.neg, sub)
        /\ Cache!SetNegative(x, h) = S(x.neg \union {h}, x.index)
        /\ Cache!ExpireNegative(x, h) = S(x.neg \ {h}, x.index)
    <2> HIDE DEF add, sub
    <2>1. /\ Cache!SetIndex(x, i, h) = [x EXCEPT !.index = add]
          /\ Cache!Unindex(x, i, h) = [x EXCEPT !.index = sub]
      BY DEF Cache!SetIndex, Cache!Unindex, add, sub
    <2> QED BY <1>0, <2>1 DEF Cache!SetNegative, Cache!ExpireNegative
  <1>2. add \subseteq Nat \X Nat /\ sub \subseteq Nat \X Nat
    BY DEF CacheOk
  <1>3. ASSUME NEW n, NEW j, j \subseteq Nat \X Nat PROVE CacheOk(S(n, j))
    <2>1. x.pos = [g \in DOMAIN x.pos |-> x.pos[g]] /\ DOMAIN x.pos \subseteq Nat
          /\ (\A g \in DOMAIN x.pos : Whole(x.pos[g])) /\ x.gen \in [Insts -> Nat]
      BY DEF CacheOk
    <2> QED BY <1>3, <2>1, MakeCache
  <1>4. x.index \subseteq Nat \X Nat
    BY DEF CacheOk
  <1>5. /\ CacheOk(S(x.neg, add)) /\ CacheOk(S(x.neg, sub))
        /\ CacheOk(S(x.neg \union {h}, x.index)) /\ CacheOk(S(x.neg \ {h}, x.index))
    <2> HIDE DEF S, add, sub
    <2> QED BY <1>2, <1>3, <1>4
  <1>6. \A n, j : S(n, j).pos = x.pos /\ S(n, j).gen = x.gen /\ S(n, j).index = j
    OBVIOUS
  <1> HIDE DEF S
  <1> QED BY <1>1, <1>5, <1>6

\* Draining an installation advances its generation, and only its.
LEMMA DrainOk ==
  ASSUME NEW x, CacheOk(x), NEW i
  PROVE  /\ CacheOk(Cache!Drain(x, i))
         /\ Cache!Drain(x, i).pos = x.pos
         /\ \A h : <<1, h>> \in x.index /\ i # 1 => <<1, h>> \in Cache!Drain(x, i).index
         /\ Cache!Drain(x, i).gen[1] = IF i = 1 THEN x.gen[1] + 1 ELSE x.gen[1]
  <1> DEFINE y == Cache!Drain(x, i)
             g == [x.gen EXCEPT ![i] = x.gen[i] + 1]
             j == { p \in x.index : p[1] # i }
  <1>1. y = [pos |-> x.pos, neg |-> x.neg, index |-> j, gen |-> g]
    <2> DEFINE z == [x EXCEPT !.index = j]
    <2>1. z = [pos |-> x.pos, neg |-> x.neg, index |-> j, gen |-> x.gen]
      <3> HIDE DEF j
      <3> QED BY DEF CacheOk
    <2>2. y = [z EXCEPT !.gen = [z.gen EXCEPT ![i] = z.gen[i] + 1]]
      BY DEF Cache!Drain
    <2>3. z.gen = x.gen
      BY <2>1
    <2>4. y = [z EXCEPT !.gen = g]
      BY <2>2, <2>3
    <2> HIDE DEF y, g, j, z
    <2> QED BY <2>1, <2>4
  <1>2. g \in [Insts -> Nat] /\ j \subseteq Nat \X Nat
    <2>1. x.gen \in [Insts -> Nat] /\ j \subseteq Nat \X Nat
      BY DEF CacheOk
    <2>2. CASE i \in Insts
      BY <2>1, <2>2
    <2>3. CASE i \notin Insts
      BY <2>1, <2>3
    <2> QED BY <2>1, <2>2, <2>3
  <1>3. x.pos = [h \in DOMAIN x.pos |-> x.pos[h]] /\ DOMAIN x.pos \subseteq Nat
        /\ \A h \in DOMAIN x.pos : Whole(x.pos[h])
    BY DEF CacheOk
  <1> HIDE DEF y, g, j
  <1>4. CacheOk(y)
    BY <1>1, <1>2, <1>3, MakeCache
  <1>5. y.pos = x.pos /\ y.index = j /\ y.gen = g
    BY <1>1
  <1>6. g[1] = IF i = 1 THEN x.gen[1] + 1 ELSE x.gen[1]
    BY AuthConstants DEF g, CacheOk
  <1>7. \A h : <<1, h>> \in x.index /\ i # 1 => <<1, h>> \in j
    BY DEF j
  <1> QED BY <1>4, <1>5, <1>6, <1>7 DEF y

\* An entry that expires keeps its key and its index.
LEMMA ExpireOk ==
  ASSUME NEW x, CacheOk(x), NEW h \in DOMAIN x.pos
  PROVE  /\ CacheOk(Cache!Expire(x, h))
         /\ DOMAIN Cache!Expire(x, h).pos = DOMAIN x.pos
         /\ Cache!Expire(x, h).index = x.index /\ Cache!Expire(x, h).gen = x.gen
  <1> DEFINE y == Cache!Expire(x, h)
             p == [x.pos EXCEPT ![h] = [x.pos[h] EXCEPT !.fresh = FALSE]]
  <1>1. y = [pos |-> p, neg |-> x.neg, index |-> x.index, gen |-> x.gen]
    <2>1. y = [x EXCEPT !.pos = p]
      BY DEF Cache!Expire
    <2> HIDE DEF p, y
    <2> QED BY <2>1 DEF CacheOk
  <1>2. DOMAIN p = DOMAIN x.pos /\ p = [g \in DOMAIN p |-> p[g]]
    BY DEF CacheOk
  <1>3. ASSUME NEW g \in DOMAIN x.pos PROVE Whole(p[g])
    <2>1. Whole(x.pos[g]) /\ Whole(x.pos[h])
      BY DEF CacheOk
    <2>2. Whole([x.pos[h] EXCEPT !.fresh = FALSE])
      BY <2>1 DEF Whole, Entries
    <2> QED BY <2>1, <2>2 DEF CacheOk
  <1>4. DOMAIN x.pos \subseteq Nat /\ x.index \subseteq Nat \X Nat /\ x.gen \in [Insts -> Nat]
    BY DEF CacheOk
  <1> HIDE DEF y, p
  <1>5. CacheOk(y)
    BY <1>1, <1>2, <1>3, <1>4, MakeCache
  <1>6. y.pos = p /\ y.index = x.index /\ y.gen = x.gen
    BY <1>1
  <1> QED BY <1>2, <1>5, <1>6 DEF y

-----------------------------------------------------------------------------
(* Every step keeps the types.                                              *)

\* Only the key with id 1 is ever deleted by name.
LEMMA DeletedIsOne ==
  ASSUME TypeInv
  PROVE  Deleted \subseteq {1}
  BY DEF Deleted, TypeInv, CallInv, Local

\* After Begin every call is typed.
LEMMA BeginCall ==
  ASSUME TypeInv, NEW c \in Callers, Begin(c)
  PROVE  call' \in [Callers -> CallType] /\ \A d \in Callers : Local(call'[d])
  <1>1. PICK mix \in Mixes : \E op \in mix : \E arg \in Args(op) :
           call' = [call EXCEPT ![c] = [Idle EXCEPT !.op = op, !.arg = arg, !.pc = Ops[op],
                                                    !.inst = 1, !.after = Deleted]]
    BY DEF Begin
  <1>b. PICK op \in mix : \E arg \in Args(op) :
           call' = [call EXCEPT ![c] = [Idle EXCEPT !.op = op, !.arg = arg, !.pc = Ops[op],
                                                    !.inst = 1, !.after = Deleted]]
    BY <1>1
  <1>c. PICK arg \in Args(op) :
           call' = [call EXCEPT ![c] = [Idle EXCEPT !.op = op, !.arg = arg, !.pc = Ops[op],
                                                    !.inst = 1, !.after = Deleted]]
    BY <1>b
  <1>2. op \in DOMAIN Ops
    BY MixesAssumption
  <1> DEFINE p == Ops[op]
             gone == Deleted
             q == [Idle EXCEPT !.op = op, !.arg = arg, !.pc = p, !.inst = 1, !.after = gone]
  <1>3. call' = [call EXCEPT ![c] = q]
    BY <1>c
  <1>4. /\ op \in {"verify", "analytics", "rotate", "delete", "playground", "settings", "aliases",
                   "dropByok", "byok", "login", "dashboard", "resolve", "issue"}
        /\ op \in {"verify", "analytics"} => p = "get"
        /\ op \in {"rotate", "delete", "playground"} => p = "list"
        /\ op = "settings" => p = "update"
        /\ op = "aliases" => p = "alias"
        /\ op = "dropByok" => p = "drop"
        /\ op = "byok" => p = "replace"
        /\ op = "login" => p = "limit"
        /\ op = "dashboard" => p = "session"
        /\ op = "resolve" => p = "identity"
        /\ op = "issue" => p = "mint"
    BY <1>2 DEF Ops
  <1>5. /\ arg \in ArgValues
        /\ op \in Surfaces => arg \in Nat
        /\ op \in {"rotate", "delete"} => arg = 1
        /\ op = "resolve" => arg \in Nat \X Nat
        /\ op = "login" => arg \in Users
    <2>1. \A k \in db.keys : k.id \in Nat
      BY DEF TypeInv, DbInv, Table, KeyRows
    <2> QED BY <1>4, <2>1 DEF Args, ArgValues, Surfaces, Unknown, None
  <1>6. op \in OpNames /\ p \in Pcs
    <2> HIDE DEF p
    <2> QED BY <1>4, Known DEF OpNames
  <1>a. gone \in SUBSET Nat
    BY DeletedIsOne
  <1>7. Idle \in CallType
    BY Known DEF Idle, CallType, OpNames, None, ArgValues
  <1> HIDE DEF p, gone
  <1>8. q \in CallType
    BY <1>5, <1>6, <1>7, <1>a DEF CallType
  <1>9. q.op = op /\ q.arg = arg /\ q.pc = p /\ q.inst = 1 /\ q.res = "none"
    <2>1. q.op = op /\ q.arg = arg /\ q.pc = p /\ q.inst = 1 /\ q.res = Idle.res
      BY <1>7 DEF CallType
    <2> QED BY <2>1 DEF Idle
  <1> HIDE DEF q
  <1>d. Local(q)
    BY <1>4, <1>5, <1>9 DEF Local, OnPath, Surfaces, Setting
  <1> HIDE DEF q
  <1> QED BY <1>3, <1>8, <1>d, Moved

\* The caller's own record is the only one a step of it touches.
LEMMA OthersKept ==
  ASSUME TypeInv, NEW c \in Callers, Begin(c) \/ Refuse(c) \/ Step(c) \/ Fail(c),
         NEW d \in Callers \ {c}
  PROVE  call'[d] = call[d]
  <1>0. call \in [Callers -> CallType]
    BY DEF TypeInv, CallInv
  <1>1. CASE Begin(c) \/ Refuse(c) \/ Fail(c)
    BY <1>0, <1>1 DEF Begin, Refuse, Fail, Fails, Return
  <1>2. CASE LookUp(c) \/ ReadKey(c) \/ ReadByok(c) \/ ReadLists(c)
    BY <1>0, <1>2 DEF LookUp, ReadKey, ReadByok, ReadLists
  <1>3. CASE SetLock(c) \/ SetIndex(c) \/ SetAdd(c) \/ SetCheck(c)
    BY <1>0, <1>3 DEF SetLock, SetIndex, SetAdd, SetCheck, Goto, Return
  <1>4. CASE Invalidate(c) \/ RemoveOne(c)
    BY <1>0, <1>4 DEF Invalidate, RemoveOne
  <1>5. CASE ListKeys(c) \/ SoftDeleteAPIKey(c) \/ MintKey(c)
    BY <1>0, <1>5 DEF ListKeys, SoftDeleteAPIKey, MintKey, Goto, Return
  <1>6. CASE UpdateSettings(c) \/ ReplaceByok(c) \/ StoreByok(c) \/ DropByok(c) \/ SetAliases(c)
    BY <1>0, <1>6 DEF UpdateSettings, ReplaceByok, StoreByok, DropByok, SetAliases, Goto, Return
  <1>7. CASE CheckLimit(c) \/ ValidateKey(c) \/ NoteFailure(c) \/ UpsertByAiandUser(c)
    BY <1>0, <1>7 DEF CheckLimit, ValidateKey, NoteFailure, UpsertByAiandUser, Goto, Return
  <1>8. CASE FindInstallation(c) \/ EnsureInstallation(c) \/ IssueLoginSession(c)
             \/ OpenDashboard(c) \/ ResolveUser(c)
    BY <1>0, <1>8 DEF FindInstallation, EnsureInstallation, IssueLoginSession, OpenDashboard,
       ResolveUser, Goto, Return
  <1> QED BY <1>1, <1>2, <1>3, <1>4, <1>5, <1>6, <1>7, <1>8 DEF Step

\* Every step leaves every call typed.
LEMMA CallNext ==
  ASSUME TypeInv, [Next]_vars
  PROVE  call' \in [Callers -> CallType] /\ \A d \in Callers : Local(call'[d])
  <1>0. call \in [Callers -> CallType] /\ \A d \in Callers : Local(call[d])
    BY DEF TypeInv, CallInv
  <1>1. ASSUME NEW c \in Callers, Step(c)
        PROVE  call' \in [Callers -> CallType] /\ \A d \in Callers : Local(call'[d])
    BY <1>1, LookUpCall, ReadKeyCall, ReadByokCall, RemoveOneCall, SoftDeleteAPIKeyCall,
       ResolveUserCall, ListKeysCall, FindInstallationCall, EnsureInstallationCall,
       OpenDashboardCall, InvalidateCall, DropByokCall, UpsertByAiandUserCall, ReadListsCall,
       SetLockCall, SetIndexCall, SetAddCall, SetCheckCall, MintKeyCall, UpdateSettingsCall,
       ReplaceByokCall, StoreByokCall, SetAliasesCall, CheckLimitCall, ValidateKeyCall,
       NoteFailureCall, IssueLoginSessionCall, Zenon DEF Step
  <1>2. CASE call' = call
    BY <1>0, <1>2
  <1>3. CASE \E c \in Callers : Begin(c) \/ Refuse(c) \/ Step(c) \/ Fail(c)
    BY <1>1, <1>3, BeginCall, RefuseCall, FailCall
  <1> QED BY <1>2, <1>3 DEF Next, vars, Age, AgeNegative, FailuresExpire, ForgetIdentity

\* A soft delete of keys: the key with id 1 keeps its row.
LEMMA KeysKilled ==
  ASSUME TypeInv, NEW dead \in SUBSET db.keys
  PROVE  Table(Kill(db.keys, dead), KeyRows) /\ \E k \in Kill(db.keys, dead) : k.id = 1
  <1>1. \A r \in KeyRows : [r EXCEPT !.live = FALSE] \in KeyRows
                           /\ [r EXCEPT !.live = FALSE].id = r.id
    BY DEF KeyRows
  <1>2. Table(Kill(db.keys, dead), KeyRows)
    BY <1>1, KillTable DEF TypeInv, DbInv
  <1>3. PICK k \in db.keys : k.id = 1
    BY DEF TypeInv, DbInv
  <1>4. CASE k \in dead
    <2>1. [k EXCEPT !.live = FALSE] \in Kill(db.keys, dead)
      BY <1>4, Zenon DEF Kill
    <2>2. k \in KeyRows
      BY DEF TypeInv, DbInv, Table
    <2> QED BY <1>1, <1>2, <1>3, <2>1, <2>2
  <1>5. CASE k \notin dead
    BY <1>2, <1>3, <1>5 DEF Kill
  <1> QED BY <1>4, <1>5

\* A soft delete of provider keys.
LEMMA ExtKilled ==
  ASSUME TypeInv, NEW dead \in SUBSET db.ext
  PROVE  Table(Kill(db.ext, dead), ExtRows)
  <1>1. \A r \in ExtRows : [r EXCEPT !.live = FALSE] \in ExtRows
    BY DEF ExtRows
  <1> QED BY <1>1, KillTable DEF TypeInv, DbInv

\* Every step leaves the tables typed.
LEMMA DbStep ==
  ASSUME TypeInv, NEW c \in Callers, Step(c), db' # db
  PROVE  DbInv'
  <1>0. call[c] \in CallType /\ Local(call[c]) /\ DbInv
    BY DEF TypeInv, CallInv
  <1>a. call[c].inst \in Nat /\ call[c].made \in Nat
    BY <1>0 DEF CallType
  <1>1. CASE SoftDeleteAPIKey(c)
    <2> DEFINE t == Kill(db.keys, SoftDeleted(db.keys, call[c].inst, call[c].arg))
    <2>1. db' = [db EXCEPT !.keys = t]
      BY <1>1 DEF SoftDeleteAPIKey
    <2>2. Table(t, KeyRows) /\ \E k \in t : k.id = 1
      BY KeysKilled DEF SoftDeleted, Active
    <2> HIDE DEF t
    <2> QED BY <1>0, <2>1, <2>2 DEF DbInv
  <1>2. CASE MintKey(c)
    <2>0. call[c].inst = 1 /\ call[c].op \in {"rotate", "playground", "issue"}
      BY <1>0, <1>2 DEF MintKey, At, Local, OnPath
    <2> DEFINE old == CHOOSE k \in db.keys : k.id = call[c].arg
    <2>1. ASSUME NEW scope \in Scopes, NEW name \in {"own", "Playground"},
                 db' = [db EXCEPT !.keys = CreateAPIKey(@, call[c].inst, scope, name)]
          PROVE  DbInv'
      <3> DEFINE row == [id |-> Fresh(db.keys), inst |-> 1, scope |-> scope, name |-> name,
          live |-> TRUE]
      <3>1. row \in KeyRows
        BY <1>0, FreshNat DEF KeyRows, DbInv, Table
      <3> DEFINE t == db.keys \union {row}
      <3>2. Table(t, KeyRows) /\ \E k \in t : k.id = 1
        BY <1>0, <3>1, AddRow DEF DbInv
      <3>3. db' = [db EXCEPT !.keys = t]
        BY <2>0, <2>1 DEF CreateAPIKey
      <3> HIDE DEF t
      <3> QED BY <1>0, <3>2, <3>3 DEF DbInv
    <2>2. CASE call[c].op = "rotate"
      <3>1. \E k \in db.keys : k.id = call[c].arg
        BY <1>0, <2>2 DEF DbInv, Local
      <3>2. old \in KeyRows
        BY <1>0, <3>1 DEF DbInv, Table
      <3>3. old.scope \in Scopes /\ old.name \in {"own", "Playground"}
        BY <3>2 DEF KeyRows
      <3>4. db' = [db EXCEPT !.keys = CreateAPIKey(@, call[c].inst, old.scope, old.name)]
        BY <1>2, <2>2 DEF MintKey
      <3> HIDE DEF old
      <3> QED BY <2>1, <3>3, <3>4
    <2>3. CASE call[c].op = "playground"
      <3>1. db' = [db EXCEPT !.keys = CreateAPIKey(@, call[c].inst, "routing", "Playground")]
        BY <1>2, <2>3 DEF MintKey
      <3> QED BY <2>1, <3>1 DEF Scopes
    <2>4. CASE call[c].op = "issue"
      <3>1. PICK scope \in Scopes : db' = [db EXCEPT !.keys = CreateAPIKey(@, call[c].inst,
                scope, "own")]
        BY <1>2, <2>4 DEF MintKey, Scopes
      <3> QED BY <2>1, <3>1
    <2> QED BY <2>0, <2>2, <2>3, <2>4
  <1>3. CASE UpdateSettings(c)
    <2> DEFINE t == UpdateInstallation(db.insts, call[c].inst)
    <2>1. db' = [db EXCEPT !.insts = t]
      BY <1>3 DEF UpdateSettings
    <2>2. Table(t, InstRows)
      BY <1>0, UpdateInstallationTable DEF DbInv
    <2> HIDE DEF t
    <2> QED BY <1>0, <2>1, <2>2 DEF DbInv
  <1>4. ASSUME NEW t, Table(t, ExtRows), db' = [db EXCEPT !.ext = t]
        PROVE  DbInv'
    BY <1>0, <1>4 DEF DbInv
  <1>5. CASE ReplaceByok(c)
    <2>1. Table(SoftDeleteByProvider(db.ext, call[c].inst), ExtRows)
      BY ExtKilled DEF SoftDeleteByProvider, GetForInstallation, Active
    <2> QED BY <1>4, <1>5, <2>1 DEF ReplaceByok
  <1>6. CASE StoreByok(c)
    BY <1>4, <1>6, <1>a, NewRows DEF StoreByok
  <1>7. CASE DropByok(c)
    <2>1. \A id : Table(SoftDeleteExternal(db.ext, call[c].inst, id), ExtRows)
      BY ExtKilled DEF SoftDeleteExternal, GetForInstallation, Active
    <2> QED BY <1>4, <1>7, <2>1 DEF DropByok
  <1>8. CASE SetAliases(c)
    <2>1. \A id : Table(UpdateModelAliases(db.ext, call[c].inst, id), ExtRows)
      BY <1>0, UpdateAliasesTable DEF DbInv
    <2> QED BY <1>4, <1>8, <2>1 DEF SetAliases
  <1>9. CASE UpsertByAiandUser(c)
    <2> DEFINE t == UpsertAccount(db.accounts, call[c].arg)
    <2>1. db' = [db EXCEPT !.accounts = t]
      BY <1>9 DEF UpsertByAiandUser
    <2>2. call[c].arg \in Users
      BY <1>0, <1>9 DEF UpsertByAiandUser, At, Local, OnPath
    <2>3. Table(t, AccountRows)
      BY <1>0, <2>2, UpsertAccountTable DEF DbInv
    <2> HIDE DEF t
    <2> QED BY <1>0, <2>1, <2>3 DEF DbInv
  <1>10. CASE EnsureInstallation(c)
    <2> DEFINE t == db.insts \union CreateInstallation(db.insts, call[c].made)
    <2>1. db' = [db EXCEPT !.insts = t] \/ db' = [db EXCEPT !.insts = @ \union {}]
      BY <1>10 DEF EnsureInstallation
    <2>2. Table(t, InstRows) /\ Table(db.insts \union {}, InstRows)
      BY <1>0, <1>a, NewRows DEF DbInv
    <2> HIDE DEF t
    <2> QED BY <1>0, <2>1, <2>2 DEF DbInv
  <1>11. CASE IssueLoginSession(c)
    <2> DEFINE t == InsertSession(db.sessions, call[c].made, call[c].inst)
    <2>1. db' = [db EXCEPT !.sessions = t]
      BY <1>11 DEF IssueLoginSession
    <2>2. Table(t, SessionRows)
      BY <1>a, NewRows
    <2> HIDE DEF t
    <2> QED BY <1>0, <2>1, <2>2 DEF DbInv
  <1>12. CASE ResolveUser(c)
    <2> DEFINE byEmail == UpsertUserByEmail(db.users, call[c].inst, call[c].arg[1], call[c].arg[2])
               byAccount == UpsertUserByAccount(db.users, call[c].inst, call[c].arg[2])
    <2>1. db' = [db EXCEPT !.users = byEmail] \/ db' = [db EXCEPT !.users = byAccount]
      BY <1>12 DEF ResolveUser
    <2>2. call[c].arg \in Nat \X Nat /\ call[c].inst = 1
      BY <1>0, <1>12 DEF ResolveUser, At, Local, OnPath
    <2>3. Table(byEmail, UserRows) /\ Table(byAccount, UserRows)
      BY <1>0, <2>2, UpsertByEmailTable, UpsertByAccountTable DEF DbInv
    <2> HIDE DEF byEmail, byAccount
    <2> QED BY <1>0, <2>1, <2>3 DEF DbInv
  <1> QED
    BY <1>1, <1>2, <1>3, <1>5, <1>6, <1>7, <1>8, <1>9, <1>10, <1>11, <1>12
    DEF Step, LookUp, ReadKey, ReadByok, ReadLists, SetLock, SetIndex, SetAdd, SetCheck,
        Invalidate, RemoveOne, ListKeys, CheckLimit, ValidateKey, NoteFailure, FindInstallation,
        OpenDashboard

\* Every step leaves in the cache only what was read in full.
LEMMA CacheStep ==
  ASSUME TypeInv, NEW c \in Callers, Step(c), cache' # cache
  PROVE  CacheOk(cache)'
  <1>0. call[c] \in CallType /\ Local(call[c]) /\ CacheOk(cache)
    BY DEF TypeInv, CallInv, CacheInv
  <1>1. CASE ReadKey(c)
    <2>1. call[c].arg \in Nat /\ call[c].inst \in Nat
      BY <1>0, <1>1 DEF ReadKey, At, Local, OnPath, CallType
    <2> QED BY <1>0, <1>1, <2>1, IndexOk DEF ReadKey
  <1>2. CASE SetIndex(c)
    <2>1. call[c].arg \in Nat /\ call[c].inst \in Nat
      BY <1>0, <1>2 DEF SetIndex, At, Local, OnPath, CallType
    <2> QED BY <1>0, <1>2, <2>1, IndexOk DEF SetIndex
  <1>3. CASE SetAdd(c)
    <2>1. call[c].arg \in Nat
      BY <1>0, <1>3 DEF SetAdd, At, Local, OnPath
    <2>2. Whole(call[c].entry)
      BY <1>0, <1>3 DEF SetAdd, At, Local, OnPath, Surfaces, Setting, Whole
    <2>3. \/ cache' = Cache!Add(cache, call[c].arg, call[c].entry)
          \/ \E v : cache' = Cache!Add(Cache!Remove(cache, v), call[c].arg, call[c].entry)
      BY <1>3 DEF SetAdd
    <2>4. \A v : CacheOk(Cache!Remove(cache, v))
      BY <1>0, RemoveOk
    <2>5. \A x : CacheOk(x) => CacheOk(Cache!Add(x, call[c].arg, call[c].entry))
      BY <2>1, <2>2, AddOk
    <2> QED BY <1>0, <2>3, <2>4, <2>5
  <1>4. CASE SetCheck(c)
    <2>1. call[c].arg \in Nat /\ call[c].inst \in Nat
      BY <1>0, <1>4 DEF SetCheck, At, Local, OnPath, CallType
    <2>2. cache' = Cache!Unindex(cache, call[c].inst, call[c].arg)
      BY <1>4 DEF SetCheck
    <2> QED BY <1>0, <2>1, <2>2, IndexOk
  <1>5. CASE Invalidate(c)
    BY <1>0, <1>5, DrainOk DEF Invalidate
  <1>6. CASE RemoveOne(c)
    <2>1. PICK h : cache' = Cache!Remove(cache, h)
      BY <1>6 DEF RemoveOne
    <2> QED BY <1>0, <2>1, RemoveOk
  <1> QED
    BY <1>1, <1>2, <1>3, <1>4, <1>5, <1>6
    DEF Step, LookUp, ReadByok, ReadLists, SetLock, ListKeys, SoftDeleteAPIKey, MintKey,
        UpdateSettings, ReplaceByok, StoreByok, DropByok, SetAliases, CheckLimit, ValidateKey,
        NoteFailure, UpsertByAiandUser, FindInstallation, EnsureInstallation, IssueLoginSession,
        OpenDashboard, ResolveUser

\* Every step leaves the counters and the identity cache typed.
LEMMA CountersStep ==
  ASSUME TypeInv, NEW c \in Callers, Step(c)
  PROVE  failures' \in Nat /\ faults' \in Nat /\ \A e \in ids' : e[2] \in Nat
  <1>0. failures \in Nat /\ faults \in Nat /\ \A e \in ids : e[2] \in Nat
    BY DEF TypeInv, CallInv
  <1>1. CASE NoteFailure(c)
    <2>1. call[c].pregen \in Nat
      BY DEF TypeInv, CallInv, CallType
    <2> QED BY <1>0, <1>1, <2>1 DEF NoteFailure
  <1>2. CASE IssueLoginSession(c)
    BY <1>0, <1>2 DEF IssueLoginSession
  <1>3. CASE ReadByok(c) \/ ReadLists(c) \/ EnsureInstallation(c) \/ OpenDashboard(c)
    <2>1. UNCHANGED <<failures, ids>> /\ faults' \in {faults, faults + 1}
      <3>1. CASE ReadByok(c)
        BY <3>1, Zenon DEF ReadByok, Answers
      <3>2. CASE ReadLists(c)
        BY <3>2, Zenon DEF ReadLists
      <3>3. CASE EnsureInstallation(c)
        BY <3>3, Zenon DEF EnsureInstallation, Answers
      <3>4. CASE OpenDashboard(c)
        BY <3>4, Zenon DEF OpenDashboard, Answers
      <3> QED BY <1>3, <3>1, <3>2, <3>3, <3>4
    <2> QED BY <1>0, <2>1
  <1>4. CASE ResolveUser(c)
    <2>1. call[c].arg \in Nat \X Nat /\ call[c].inst = 1
      BY <1>4 DEF ResolveUser, At, TypeInv, CallInv, Local, OnPath
    <2>2. \A u \in UpsertUserByEmail(db.users, 1, call[c].arg[1], call[c].arg[2]) : u.id \in Nat
      BY <2>1, UpsertByEmailTable DEF TypeInv, DbInv, Table, UserRows
    <2>3. \A u \in UpsertUserByAccount(db.users, 1, call[c].arg[2]) : u.id \in Nat
      BY <2>1, UpsertByAccountTable DEF TypeInv, DbInv, Table, UserRows
    <2>4. \A e \in ids' : e[2] \in Nat
      <3>1. CASE ids' = ids
        BY <1>0, <3>1
      <3>2. CASE \E id : \E n \in Nat : ids' = ids \union {<<id, n>>}
        BY <1>0, <3>2
      <3> QED BY <1>4, <2>1, <2>2, <2>3, <3>1, <3>2 DEF ResolveUser
    <2> QED BY <1>0, <1>4, <2>4 DEF ResolveUser
  <1> QED
    BY <1>0, <1>1, <1>2, <1>3, <1>4
    DEF Step, LookUp, ReadKey, SetLock, SetIndex, SetAdd, SetCheck, Invalidate, RemoveOne,
        ListKeys, SoftDeleteAPIKey, MintKey, UpdateSettings, ReplaceByok, StoreByok, DropByok,
        SetAliases, CheckLimit, ValidateKey, UpsertByAiandUser, FindInstallation

\* The first state is typed.
LEMMA TypeInit ==
  ASSUME Init
  PROVE  TypeInv
  <1>1. DbInv
    <2> DEFINE one == [id |-> 1, inst |-> 1, scope |-> "routing", name |-> "own", live |-> TRUE]
               two == [id |-> 2, inst |-> 1, scope |-> "analytics", name |-> "own", live |-> TRUE]
               acc == [id |-> 1, user |-> CHOOSE u \in Users : TRUE]
               ins == [id |-> 1, owner |-> 1, settings |-> 0, live |-> TRUE]
    <2>1. one \in KeyRows /\ two \in KeyRows /\ one.id = 1
      BY DEF KeyRows, Scopes
    <2>2. acc \in AccountRows /\ ins \in InstRows
      BY AuthConstants DEF AccountRows, InstRows
    <2>3. db = [accounts |-> {acc}, insts |-> {ins}, keys |-> {one, two}, ext |-> {},
                sessions |-> {}, users |-> {}]
      BY DEF Init
    <2> HIDE DEF one, two, acc, ins
    <2>4. /\ Table({acc}, AccountRows) /\ Table({ins}, InstRows) /\ Table({one, two}, KeyRows)
          /\ Table({}, ExtRows) /\ Table({}, SessionRows) /\ Table({}, UserRows)
      <3>1. {one, two} = {one} \union {two}
        OBVIOUS
      <3>2. IsFiniteSet({}) /\ IsFiniteSet({one}) /\ IsFiniteSet({acc}) /\ IsFiniteSet({ins})
        BY FS_EmptySet, FS_Singleton
      <3>3. IsFiniteSet({one, two})
        BY <3>1, <3>2, FS_AddElement
      <3> QED BY <2>1, <2>2, <3>2, <3>3 DEF Table
    <2> QED BY <2>1, <2>3, <2>4 DEF DbInv
  <1>2. CacheInv
    <2>1. <<>> = [h \in {} |-> <<>>[h]] /\ DOMAIN <<>> = {}
      OBVIOUS
    <2>2. [i \in Insts |-> 0] \in [Insts -> Nat]
      OBVIOUS
    <2> DEFINE g == [i \in Insts |-> 0]
               p == <<>>
    <2>3. cache = [pos |-> p, neg |-> {}, index |-> {}, gen |-> g]
      BY DEF Init
    <2>4. p = [h \in DOMAIN p |-> p[h]] /\ DOMAIN p = {}
      BY <2>1
    <2> HIDE DEF g, p
    <2> QED BY <2>2, <2>3, <2>4, MakeCache DEF CacheInv, g
  <1>3. CallInv
    <2>1. Idle \in CallType
      BY Known DEF Idle, CallType, OpNames, None, ArgValues
    <2>2. Idle.op = "none" /\ Idle.pc = "idle"
      BY DEF Idle
    <2>3. Local(Idle)
      BY <2>2 DEF Local, OnPath, Surfaces, Setting
    <2> QED BY <2>1, <2>3 DEF Init, CallInv
  <1> QED BY <1>1, <1>2, <1>3 DEF TypeInv

\* TypeInv is inductive.
LEMMA TypeNext ==
  ASSUME TypeInv, [Next]_vars
  PROVE  TypeInv'
  <1>1. CallInv'
    <2>1. call' \in [Callers -> CallType] /\ \A d \in Callers : Local(call'[d])
      BY CallNext
    <2>2. failures \in Nat /\ faults \in Nat /\ \A e \in ids : e[2] \in Nat
      BY DEF TypeInv, CallInv
    <2>3. failures' \in Nat /\ faults' \in Nat /\ \A e \in ids' : e[2] \in Nat
      <3>1. CASE UNCHANGED <<failures, faults, ids>>
        BY <2>2, <3>1
      <3>2. CASE \E c \in Callers : Step(c)
        BY <2>2, <3>2, CountersStep
      <3>3. CASE FailuresExpire \/ ForgetIdentity \/ \E c \in Callers : Fail(c)
        BY <2>2, <3>3 DEF FailuresExpire, ForgetIdentity, Fail, Fails
      <3> QED BY <3>1, <3>2, <3>3 DEF Next, vars, Begin, Refuse, Age, AgeNegative
    <2> QED BY <2>1, <2>3 DEF CallInv
  <1>2. DbInv'
    <2>1. CASE db' = db
      BY <2>1 DEF TypeInv, DbInv
    <2>2. CASE db' # db
      <3>1. \E c \in Callers : Step(c)
        BY <2>2 DEF Next, vars, Begin, Refuse, Fail, Fails, Age, AgeNegative, FailuresExpire,
               ForgetIdentity
      <3> QED BY <2>2, <3>1, DbStep
    <2> QED BY <2>1, <2>2
  <1>3. CacheInv'
    <2>1. CASE cache' = cache
      BY <2>1 DEF TypeInv, CacheInv, CacheOk
    <2>2. CASE \E c \in Callers : Step(c) /\ cache' # cache
      BY <2>2, CacheStep DEF CacheInv
    <2>3. ASSUME NEW h, Age(h)
          PROVE  CacheOk(cache)'
      <3>1. CacheOk(cache) /\ h \in DOMAIN cache.pos
        BY <2>3 DEF Age, TypeInv, CacheInv
      <3>2. CacheOk(Cache!Expire(cache, h)) /\ CacheOk(Cache!Remove(cache, h))
        BY <3>1, ExpireOk, RemoveOk
      <3>3. cache' = Cache!Expire(cache, h) \/ cache' = Cache!Remove(cache, h)
        BY <2>3 DEF Age
      <3> QED BY <3>2, <3>3
    <2>4. ASSUME NEW h, AgeNegative(h)
          PROVE  CacheOk(cache)'
      BY <2>4 DEF AgeNegative, TypeInv, CacheInv, CacheOk, Cache!ExpireNegative
    <2> QED BY <2>1, <2>2, <2>3, <2>4
        DEF Next, vars, Begin, Refuse, Fail, Fails, FailuresExpire, ForgetIdentity, CacheInv
  <1> QED BY <1>1, <1>2, <1>3 DEF TypeInv

\* Every reachable state is typed: tables, cache and calls.
THEOREM AuthTyped == Spec => []TypeInv
  <1>1. Init => TypeInv
    BY TypeInit
  <1>2. TypeInv /\ [Next]_vars => TypeInv'
    BY TypeNext
  <1> QED BY <1>1, <1>2, PTL DEF Spec

-----------------------------------------------------------------------------
(* What each step does, field by field.                                     *)

PutPcRes(c, x, y) == call' = [call EXCEPT ![c].pc = x, ![c].res = y]

\* The fields after such an update.
LEMMA SetPcRes ==
  ASSUME call \in [Callers -> CallType], NEW c \in Callers, NEW x, NEW y,
         PutPcRes(c, x, y)
  PROVE  /\ call'[c].op = call[c].op /\ call'[c].arg = call[c].arg /\ call'[c].inst = call[c].inst
         /\ call'[c].entry = call[c].entry /\ call'[c].pregen = call[c].pregen
         /\ call'[c].todo = call[c].todo
         /\ call'[c].made = call[c].made /\ call'[c].after = call[c].after
         /\ call'[c].pc = x /\ call'[c].res = y
  <1> DEFINE q == [call[c] EXCEPT !.pc = x, !.res = y]
  <1>1. call' = [call EXCEPT ![c] = q]
    BY DEF PutPcRes
  <1>2. /\ q.op = call[c].op /\ q.arg = call[c].arg /\ q.inst = call[c].inst
        /\ q.entry = call[c].entry /\ q.pregen = call[c].pregen /\ q.todo = call[c].todo
        /\ q.made = call[c].made /\ q.after = call[c].after /\ q.pc = x
        /\ q.res = y
    BY DEF CallType
  <1>3. call'[c] = q
    BY <1>1
  <1> HIDE DEF q
  <1> QED BY <1>2, <1>3

PutPc(c, x) == call' = [call EXCEPT ![c].pc = x]

\* The fields after such an update.
LEMMA SetPc ==
  ASSUME call \in [Callers -> CallType], NEW c \in Callers, NEW x,
         PutPc(c, x)
  PROVE  /\ call'[c].op = call[c].op /\ call'[c].arg = call[c].arg /\ call'[c].inst = call[c].inst
         /\ call'[c].entry = call[c].entry /\ call'[c].pregen = call[c].pregen
         /\ call'[c].todo = call[c].todo
         /\ call'[c].made = call[c].made /\ call'[c].res = call[c].res
         /\ call'[c].after = call[c].after
         /\ call'[c].pc = x
  <1> DEFINE q == [call[c] EXCEPT !.pc = x]
  <1>1. call' = [call EXCEPT ![c] = q]
    BY DEF PutPc
  <1>2. /\ q.op = call[c].op /\ q.arg = call[c].arg /\ q.inst = call[c].inst
        /\ q.entry = call[c].entry /\ q.pregen = call[c].pregen /\ q.todo = call[c].todo
        /\ q.made = call[c].made /\ q.res = call[c].res /\ q.after = call[c].after
        /\ q.pc = x
    BY DEF CallType
  <1>3. call'[c] = q
    BY <1>1
  <1> HIDE DEF q
  <1> QED BY <1>2, <1>3

PutPregenPc(c, x, y) == call' = [call EXCEPT ![c].pregen = x, ![c].pc = y]

\* The fields after such an update.
LEMMA SetPregenPc ==
  ASSUME call \in [Callers -> CallType], NEW c \in Callers, NEW x, NEW y,
         PutPregenPc(c, x, y)
  PROVE  /\ call'[c].op = call[c].op /\ call'[c].arg = call[c].arg /\ call'[c].inst = call[c].inst
         /\ call'[c].entry = call[c].entry /\ call'[c].todo = call[c].todo
         /\ call'[c].made = call[c].made
         /\ call'[c].res = call[c].res /\ call'[c].after = call[c].after
         /\ call'[c].pregen = x /\ call'[c].pc = y
  <1> DEFINE q == [call[c] EXCEPT !.pregen = x, !.pc = y]
  <1>1. call' = [call EXCEPT ![c] = q]
    BY DEF PutPregenPc
  <1>2. /\ q.op = call[c].op /\ q.arg = call[c].arg /\ q.inst = call[c].inst
        /\ q.entry = call[c].entry /\ q.todo = call[c].todo /\ q.made = call[c].made
        /\ q.res = call[c].res /\ q.after = call[c].after /\ q.pregen = x
        /\ q.pc = y
    BY DEF CallType
  <1>3. call'[c] = q
    BY <1>1
  <1> HIDE DEF q
  <1> QED BY <1>2, <1>3

PutTodoPc(c, x, y) == call' = [call EXCEPT ![c].todo = x, ![c].pc = y]

\* The fields after such an update.
LEMMA SetTodoPc ==
  ASSUME call \in [Callers -> CallType], NEW c \in Callers, NEW x, NEW y,
         PutTodoPc(c, x, y)
  PROVE  /\ call'[c].op = call[c].op /\ call'[c].arg = call[c].arg /\ call'[c].inst = call[c].inst
         /\ call'[c].entry = call[c].entry /\ call'[c].pregen = call[c].pregen
         /\ call'[c].made = call[c].made
         /\ call'[c].res = call[c].res /\ call'[c].after = call[c].after
         /\ call'[c].todo = x /\ call'[c].pc = y
  <1> DEFINE q == [call[c] EXCEPT !.todo = x, !.pc = y]
  <1>1. call' = [call EXCEPT ![c] = q]
    BY DEF PutTodoPc
  <1>2. /\ q.op = call[c].op /\ q.arg = call[c].arg /\ q.inst = call[c].inst
        /\ q.entry = call[c].entry /\ q.pregen = call[c].pregen /\ q.made = call[c].made
        /\ q.res = call[c].res /\ q.after = call[c].after /\ q.todo = x
        /\ q.pc = y
    BY DEF CallType
  <1>3. call'[c] = q
    BY <1>1
  <1> HIDE DEF q
  <1> QED BY <1>2, <1>3

PutMadePcRes(c, x, y, z) == call' = [call EXCEPT ![c].made = x, ![c].pc = y, ![c].res = z]

\* The fields after such an update.
LEMMA SetMadePcRes ==
  ASSUME call \in [Callers -> CallType], NEW c \in Callers, NEW x, NEW y, NEW z,
         PutMadePcRes(c, x, y, z)
  PROVE  /\ call'[c].op = call[c].op /\ call'[c].arg = call[c].arg /\ call'[c].inst = call[c].inst
         /\ call'[c].entry = call[c].entry /\ call'[c].pregen = call[c].pregen
         /\ call'[c].todo = call[c].todo
         /\ call'[c].after = call[c].after
         /\ call'[c].made = x /\ call'[c].pc = y /\ call'[c].res = z
  <1> DEFINE q == [call[c] EXCEPT !.made = x, !.pc = y, !.res = z]
  <1>1. call' = [call EXCEPT ![c] = q]
    BY DEF PutMadePcRes
  <1>2. /\ q.op = call[c].op /\ q.arg = call[c].arg /\ q.inst = call[c].inst
        /\ q.entry = call[c].entry /\ q.pregen = call[c].pregen /\ q.todo = call[c].todo
        /\ q.after = call[c].after /\ q.made = x /\ q.pc = y
        /\ q.res = z
    BY DEF CallType
  <1>3. call'[c] = q
    BY <1>1
  <1> HIDE DEF q
  <1> QED BY <1>2, <1>3

PutPcTodoRes(c, x, y, z) == call' = [call EXCEPT ![c].pc = x, ![c].todo = y, ![c].res = z]

\* The fields after such an update.
LEMMA SetPcTodoRes ==
  ASSUME call \in [Callers -> CallType], NEW c \in Callers, NEW x, NEW y, NEW z,
         PutPcTodoRes(c, x, y, z)
  PROVE  /\ call'[c].op = call[c].op /\ call'[c].arg = call[c].arg /\ call'[c].inst = call[c].inst
         /\ call'[c].entry = call[c].entry /\ call'[c].pregen = call[c].pregen
         /\ call'[c].made = call[c].made
         /\ call'[c].after = call[c].after
         /\ call'[c].pc = x /\ call'[c].todo = y /\ call'[c].res = z
  <1> DEFINE q == [call[c] EXCEPT !.pc = x, !.todo = y, !.res = z]
  <1>1. call' = [call EXCEPT ![c] = q]
    BY DEF PutPcTodoRes
  <1>2. /\ q.op = call[c].op /\ q.arg = call[c].arg /\ q.inst = call[c].inst
        /\ q.entry = call[c].entry /\ q.pregen = call[c].pregen /\ q.made = call[c].made
        /\ q.after = call[c].after /\ q.pc = x /\ q.todo = y
        /\ q.res = z
    BY DEF CallType
  <1>3. call'[c] = q
    BY <1>1
  <1> HIDE DEF q
  <1> QED BY <1>2, <1>3

PutMadeResPc(c, x, y, z) == call' = [call EXCEPT ![c].made = x, ![c].res = y, ![c].pc = z]

\* The fields after such an update.
LEMMA SetMadeResPc ==
  ASSUME call \in [Callers -> CallType], NEW c \in Callers, NEW x, NEW y, NEW z,
         PutMadeResPc(c, x, y, z)
  PROVE  /\ call'[c].op = call[c].op /\ call'[c].arg = call[c].arg /\ call'[c].inst = call[c].inst
         /\ call'[c].entry = call[c].entry /\ call'[c].pregen = call[c].pregen
         /\ call'[c].todo = call[c].todo
         /\ call'[c].after = call[c].after
         /\ call'[c].made = x /\ call'[c].res = y /\ call'[c].pc = z
  <1> DEFINE q == [call[c] EXCEPT !.made = x, !.res = y, !.pc = z]
  <1>1. call' = [call EXCEPT ![c] = q]
    BY DEF PutMadeResPc
  <1>2. /\ q.op = call[c].op /\ q.arg = call[c].arg /\ q.inst = call[c].inst
        /\ q.entry = call[c].entry /\ q.pregen = call[c].pregen /\ q.todo = call[c].todo
        /\ q.after = call[c].after /\ q.made = x /\ q.res = y
        /\ q.pc = z
    BY DEF CallType
  <1>3. call'[c] = q
    BY <1>1
  <1> HIDE DEF q
  <1> QED BY <1>2, <1>3

PutResPregenPc(c, x, y, z) == call' = [call EXCEPT ![c].res = x, ![c].pregen = y, ![c].pc = z]

\* The fields after such an update.
LEMMA SetResPregenPc ==
  ASSUME call \in [Callers -> CallType], NEW c \in Callers, NEW x, NEW y, NEW z,
         PutResPregenPc(c, x, y, z)
  PROVE  /\ call'[c].op = call[c].op /\ call'[c].arg = call[c].arg /\ call'[c].inst = call[c].inst
         /\ call'[c].entry = call[c].entry /\ call'[c].todo = call[c].todo
         /\ call'[c].made = call[c].made
         /\ call'[c].after = call[c].after
         /\ call'[c].res = x /\ call'[c].pregen = y /\ call'[c].pc = z
  <1> DEFINE q == [call[c] EXCEPT !.res = x, !.pregen = y, !.pc = z]
  <1>1. call' = [call EXCEPT ![c] = q]
    BY DEF PutResPregenPc
  <1>2. /\ q.op = call[c].op /\ q.arg = call[c].arg /\ q.inst = call[c].inst
        /\ q.entry = call[c].entry /\ q.todo = call[c].todo /\ q.made = call[c].made
        /\ q.after = call[c].after /\ q.res = x /\ q.pregen = y
        /\ q.pc = z
    BY DEF CallType
  <1>3. call'[c] = q
    BY <1>1
  <1> HIDE DEF q
  <1> QED BY <1>2, <1>3

PutMadePc(c, x, y) == call' = [call EXCEPT ![c].made = x, ![c].pc = y]

\* The fields after such an update.
LEMMA SetMadePc ==
  ASSUME call \in [Callers -> CallType], NEW c \in Callers, NEW x, NEW y,
         PutMadePc(c, x, y)
  PROVE  /\ call'[c].op = call[c].op /\ call'[c].arg = call[c].arg /\ call'[c].inst = call[c].inst
         /\ call'[c].entry = call[c].entry /\ call'[c].pregen = call[c].pregen
         /\ call'[c].todo = call[c].todo
         /\ call'[c].res = call[c].res /\ call'[c].after = call[c].after
         /\ call'[c].made = x /\ call'[c].pc = y
  <1> DEFINE q == [call[c] EXCEPT !.made = x, !.pc = y]
  <1>1. call' = [call EXCEPT ![c] = q]
    BY DEF PutMadePc
  <1>2. /\ q.op = call[c].op /\ q.arg = call[c].arg /\ q.inst = call[c].inst
        /\ q.entry = call[c].entry /\ q.pregen = call[c].pregen /\ q.todo = call[c].todo
        /\ q.res = call[c].res /\ q.after = call[c].after /\ q.made = x
        /\ q.pc = y
    BY DEF CallType
  <1>3. call'[c] = q
    BY <1>1
  <1> HIDE DEF q
  <1> QED BY <1>2, <1>3

PutInstPc(c, x, y) == call' = [call EXCEPT ![c].inst = x, ![c].pc = y]

\* The fields after such an update.
LEMMA SetInstPc ==
  ASSUME call \in [Callers -> CallType], NEW c \in Callers, NEW x, NEW y,
         PutInstPc(c, x, y)
  PROVE  /\ call'[c].op = call[c].op /\ call'[c].arg = call[c].arg /\ call'[c].entry = call[c].entry
         /\ call'[c].pregen = call[c].pregen /\ call'[c].todo = call[c].todo
         /\ call'[c].made = call[c].made
         /\ call'[c].res = call[c].res /\ call'[c].after = call[c].after
         /\ call'[c].inst = x /\ call'[c].pc = y
  <1> DEFINE q == [call[c] EXCEPT !.inst = x, !.pc = y]
  <1>1. call' = [call EXCEPT ![c] = q]
    BY DEF PutInstPc
  <1>2. /\ q.op = call[c].op /\ q.arg = call[c].arg /\ q.entry = call[c].entry
        /\ q.pregen = call[c].pregen /\ q.todo = call[c].todo /\ q.made = call[c].made
        /\ q.res = call[c].res /\ q.after = call[c].after /\ q.inst = x
        /\ q.pc = y
    BY DEF CallType
  <1>3. call'[c] = q
    BY <1>1
  <1> HIDE DEF q
  <1> QED BY <1>2, <1>3

\* What Refuse does.
LEMMA RefuseIs ==
  ASSUME TypeInv, NEW c \in Callers, Refuse(c)
  PROVE  /\ call'[c].op = call[c].op /\ call'[c].arg = call[c].arg /\ call'[c].inst = call[c].inst
         /\ call'[c].entry = call[c].entry /\ call'[c].pregen = call[c].pregen
         /\ call'[c].todo = call[c].todo
         /\ call'[c].made = call[c].made /\ call'[c].after = call[c].after
         /\ call'[c].pc = "done"
         /\ call'[c].res = "bad"
         /\ UNCHANGED <<db, cache, mu, ids, failures, faults, overlap, raced>>
  <1>0. call \in [Callers -> CallType]
    BY DEF TypeInv, CallInv
  <1>e0. UNCHANGED <<db, cache, mu, ids, failures, faults, overlap, raced>>
    BY DEF Refuse, Return
  <1>1. PutPcRes(c, "done", "bad")
    BY DEF Refuse, Return, PutPcRes
  <1> QED BY <1>0, <1>e0, <1>1, SetPcRes

\* What Fail does.
LEMMA FailIs ==
  ASSUME TypeInv, NEW c \in Callers, Fail(c)
  PROVE  /\ call'[c].op = call[c].op /\ call'[c].arg = call[c].arg /\ call'[c].inst = call[c].inst
         /\ call'[c].entry = call[c].entry /\ call'[c].pregen = call[c].pregen
         /\ call'[c].todo = call[c].todo
         /\ call'[c].made = call[c].made /\ call'[c].after = call[c].after
         /\ call'[c].pc = "done"
         /\ call'[c].res = "error"
         /\ UNCHANGED <<db, cache, mu, ids, failures, overlap, raced>>
         /\ faults' = faults + 1
  <1>0. call \in [Callers -> CallType]
    BY DEF TypeInv, CallInv
  <1>e0. UNCHANGED <<db, cache, mu, ids, failures, overlap, raced>>
    BY DEF Fail, Fails, Return
  <1>e1. faults' = faults + 1
    BY DEF Fail, Fails, Return
  <1>1. PutPcRes(c, "done", "error")
    BY DEF Fail, Fails, Return, PutPcRes
  <1> QED BY <1>0, <1>e0, <1>e1, <1>1, SetPcRes

\* What LookUp does.
LEMMA LookUpIs ==
  ASSUME TypeInv, NEW c \in Callers, LookUp(c)
  PROVE  /\ call'[c].op = call[c].op /\ call'[c].arg = call[c].arg /\ call'[c].inst = call[c].inst
         /\ call'[c].pregen = call[c].pregen /\ call'[c].todo = call[c].todo
         /\ call'[c].made = call[c].made
         /\ call'[c].after = call[c].after
         /\ \/ /\ call'[c].pc = "done"
               /\ call'[c].res = "bad_prefix"
               /\ call'[c].entry = call[c].entry
            \/ /\ Cache!Get(cache, call[c].arg) = "hit"
               /\ call'[c].pc = "done"
               /\ call'[c].entry = cache.pos[call[c].arg]
               /\ call'[c].res = FromCache(c, cache.pos[call[c].arg])
            \/ /\ call'[c].pc = "done"
               /\ call'[c].res = "invalid"
               /\ call'[c].entry = call[c].entry
            \/ /\ call'[c].pc = "read"
               /\ call'[c].res = call[c].res
               /\ call'[c].entry = call[c].entry
         /\ UNCHANGED <<db, cache, mu, ids, failures, faults, overlap, raced>>
  <1>0. call \in [Callers -> CallType]
    BY DEF TypeInv, CallInv
  <1>e0. UNCHANGED <<db, cache, mu, ids, failures, faults, overlap, raced>>
    BY DEF LookUp
  <1>1. \/ call' = [call EXCEPT ![c] = [call[c] EXCEPT !.pc = "done", !.res = "bad_prefix"]]
        \/ /\ Cache!Get(cache, call[c].arg) = "hit"
           /\ call' = [call EXCEPT ![c] = [call[c] EXCEPT !.pc = "done",
                  !.entry = cache.pos[call[c].arg], !.res = FromCache(c, cache.pos[call[c].arg])]]
        \/ call' = [call EXCEPT ![c] = [call[c] EXCEPT !.pc = "done", !.res = "invalid"]]
        \/ call' = [call EXCEPT ![c] = [call[c] EXCEPT !.pc = "read"]]
    BY DEF LookUp
  <1>2. ASSUME call' = [call EXCEPT ![c] = [call[c] EXCEPT !.pc = "done", !.res = "bad_prefix"]]
        PROVE  /\ call'[c].op = call[c].op /\ call'[c].arg = call[c].arg
               /\ call'[c].inst = call[c].inst
               /\ call'[c].entry = call[c].entry /\ call'[c].pregen = call[c].pregen
               /\ call'[c].todo = call[c].todo
               /\ call'[c].made = call[c].made /\ call'[c].after = call[c].after
               /\ call'[c].pc = "done"
               /\ call'[c].res = "bad_prefix"
    <2> DEFINE q == [call[c] EXCEPT !.pc = "done", !.res = "bad_prefix"]
    <2>1. call' = [call EXCEPT ![c] = q]
      BY <1>0, <1>2
    <2>2. /\ q.op = call[c].op /\ q.arg = call[c].arg /\ q.inst = call[c].inst
          /\ q.entry = call[c].entry /\ q.pregen = call[c].pregen /\ q.todo = call[c].todo
          /\ q.made = call[c].made /\ q.after = call[c].after /\ q.pc = "done"
          /\ q.res = "bad_prefix"
      BY <1>0 DEF CallType
    <2>3. call'[c] = q
      BY <1>0, <2>1
    <2> HIDE DEF q
    <2> QED BY <2>2, <2>3
  <1>3. ASSUME call' = [call EXCEPT ![c] = [call[c] EXCEPT !.pc = "done",
            !.entry = cache.pos[call[c].arg], !.res = FromCache(c, cache.pos[call[c].arg])]]
        PROVE  /\ call'[c].op = call[c].op /\ call'[c].arg = call[c].arg
               /\ call'[c].inst = call[c].inst
               /\ call'[c].pregen = call[c].pregen /\ call'[c].todo = call[c].todo
               /\ call'[c].made = call[c].made
               /\ call'[c].after = call[c].after
               /\ call'[c].pc = "done"
               /\ call'[c].entry = cache.pos[call[c].arg]
               /\ call'[c].res = FromCache(c, cache.pos[call[c].arg])
    <2> DEFINE v0 == cache.pos[call[c].arg]
               v1 == FromCache(c, cache.pos[call[c].arg])
    <2>0. call' = [call EXCEPT ![c] = [call[c] EXCEPT !.pc = "done", !.entry = v0, !.res = v1]]
      BY <1>3
    <2> HIDE DEF v0, v1
    <2> DEFINE q == [call[c] EXCEPT !.pc = "done", !.entry = v0, !.res = v1]
    <2>1. call' = [call EXCEPT ![c] = q]
      BY <1>0, <2>0
    <2>2. /\ q.op = call[c].op /\ q.arg = call[c].arg /\ q.inst = call[c].inst
          /\ q.pregen = call[c].pregen /\ q.todo = call[c].todo /\ q.made = call[c].made
          /\ q.after = call[c].after /\ q.pc = "done" /\ q.entry = v0
          /\ q.res = v1
      BY <1>0 DEF CallType
    <2>3. call'[c] = q
      BY <1>0, <2>1
    <2> HIDE DEF q
    <2> QED BY <2>2, <2>3 DEF v0, v1
  <1>4. ASSUME call' = [call EXCEPT ![c] = [call[c] EXCEPT !.pc = "done", !.res = "invalid"]]
        PROVE  /\ call'[c].op = call[c].op /\ call'[c].arg = call[c].arg
               /\ call'[c].inst = call[c].inst
               /\ call'[c].entry = call[c].entry /\ call'[c].pregen = call[c].pregen
               /\ call'[c].todo = call[c].todo
               /\ call'[c].made = call[c].made /\ call'[c].after = call[c].after
               /\ call'[c].pc = "done"
               /\ call'[c].res = "invalid"
    <2> DEFINE q == [call[c] EXCEPT !.pc = "done", !.res = "invalid"]
    <2>1. call' = [call EXCEPT ![c] = q]
      BY <1>0, <1>4
    <2>2. /\ q.op = call[c].op /\ q.arg = call[c].arg /\ q.inst = call[c].inst
          /\ q.entry = call[c].entry /\ q.pregen = call[c].pregen /\ q.todo = call[c].todo
          /\ q.made = call[c].made /\ q.after = call[c].after /\ q.pc = "done"
          /\ q.res = "invalid"
      BY <1>0 DEF CallType
    <2>3. call'[c] = q
      BY <1>0, <2>1
    <2> HIDE DEF q
    <2> QED BY <2>2, <2>3
  <1>5. ASSUME call' = [call EXCEPT ![c] = [call[c] EXCEPT !.pc = "read"]]
        PROVE  /\ call'[c].op = call[c].op /\ call'[c].arg = call[c].arg
               /\ call'[c].inst = call[c].inst
               /\ call'[c].entry = call[c].entry /\ call'[c].pregen = call[c].pregen
               /\ call'[c].todo = call[c].todo
               /\ call'[c].made = call[c].made /\ call'[c].res = call[c].res
               /\ call'[c].after = call[c].after
               /\ call'[c].pc = "read"
    <2> DEFINE q == [call[c] EXCEPT !.pc = "read"]
    <2>1. call' = [call EXCEPT ![c] = q]
      BY <1>0, <1>5
    <2>2. /\ q.op = call[c].op /\ q.arg = call[c].arg /\ q.inst = call[c].inst
          /\ q.entry = call[c].entry /\ q.pregen = call[c].pregen /\ q.todo = call[c].todo
          /\ q.made = call[c].made /\ q.res = call[c].res /\ q.after = call[c].after
          /\ q.pc = "read"
      BY <1>0 DEF CallType
    <2>3. call'[c] = q
      BY <1>0, <2>1
    <2> HIDE DEF q
    <2> QED BY <2>2, <2>3
  <1> QED BY <1>e0, <1>1, <1>2, <1>3, <1>4, <1>5

\* What ReadByok does.
LEMMA ReadByokIs ==
  ASSUME TypeInv, NEW c \in Callers, ReadByok(c)
  PROVE  /\ call'[c].op = call[c].op /\ call'[c].arg = call[c].arg /\ call'[c].inst = call[c].inst
         /\ call'[c].pregen = call[c].pregen /\ call'[c].todo = call[c].todo
         /\ call'[c].made = call[c].made
         /\ call'[c].res = call[c].res /\ call'[c].after = call[c].after
         /\ \E e :
               /\ call'[c].entry = e
               /\ call'[c].pc = "lists"
         /\ UNCHANGED <<db, cache, mu, ids, failures, overlap, raced>>
         /\ faults' # faults => faults' = faults + 1
  <1>0. call \in [Callers -> CallType]
    BY DEF TypeInv, CallInv
  <1>e0. UNCHANGED <<db, cache, mu, ids, failures, overlap, raced>>
    BY DEF ReadByok
  <1>e1. faults' # faults => faults' = faults + 1
    BY DEF ReadByok, Answers
  <1>1. \E e : call' = [call EXCEPT ![c] = [call[c] EXCEPT !.entry = e, !.pc = "lists"]]
    BY DEF ReadByok
  <1>2. ASSUME NEW e, call' = [call EXCEPT ![c] = [call[c] EXCEPT !.entry = e, !.pc = "lists"]]
        PROVE  /\ call'[c].op = call[c].op /\ call'[c].arg = call[c].arg
               /\ call'[c].inst = call[c].inst
               /\ call'[c].pregen = call[c].pregen /\ call'[c].todo = call[c].todo
               /\ call'[c].made = call[c].made
               /\ call'[c].res = call[c].res /\ call'[c].after = call[c].after
               /\ call'[c].entry = e
               /\ call'[c].pc = "lists"
    <2> DEFINE q == [call[c] EXCEPT !.entry = e, !.pc = "lists"]
    <2>1. call' = [call EXCEPT ![c] = q]
      BY <1>0, <1>2
    <2>2. /\ q.op = call[c].op /\ q.arg = call[c].arg /\ q.inst = call[c].inst
          /\ q.pregen = call[c].pregen /\ q.todo = call[c].todo /\ q.made = call[c].made
          /\ q.res = call[c].res /\ q.after = call[c].after /\ q.entry = e
          /\ q.pc = "lists"
      BY <1>0 DEF CallType
    <2>3. call'[c] = q
      BY <1>0, <2>1
    <2> HIDE DEF q
    <2> QED BY <2>2, <2>3
  <1> QED BY <1>e0, <1>e1, <1>1, <1>2

\* What ReadLists does.
LEMMA ReadListsIs ==
  ASSUME TypeInv, NEW c \in Callers, ReadLists(c)
  PROVE  /\ call'[c].op = call[c].op /\ call'[c].arg = call[c].arg /\ call'[c].inst = call[c].inst
         /\ call'[c].pregen = call[c].pregen /\ call'[c].todo = call[c].todo
         /\ call'[c].made = call[c].made /\ call'[c].after = call[c].after
         /\ call'[c].pc \in {"lock", "done"} /\ call'[c].res = "accepted"
         /\ UNCHANGED <<db, cache, mu, ids, failures, overlap, raced>>
         /\ faults' # faults => faults' = faults + 1
  <1>0. call \in [Callers -> CallType]
    BY DEF TypeInv, CallInv
  <1>1. /\ call'[c].op = call[c].op /\ call'[c].arg = call[c].arg /\ call'[c].inst = call[c].inst
        /\ call'[c].pregen = call[c].pregen /\ call'[c].todo = call[c].todo
        /\ call'[c].made = call[c].made /\ call'[c].after = call[c].after
    BY <1>0 DEF ReadLists, CallType
  <1>2. call'[c].pc \in {"lock", "done"} /\ call'[c].res = "accepted"
    BY <1>0 DEF ReadLists, AfterLists, CallType
  <1> QED BY <1>1, <1>2 DEF ReadLists

\* What SetLock does.
LEMMA SetLockIs ==
  ASSUME TypeInv, NEW c \in Callers, SetLock(c)
  PROVE  /\ call'[c].op = call[c].op /\ call'[c].arg = call[c].arg /\ call'[c].inst = call[c].inst
         /\ call'[c].entry = call[c].entry /\ call'[c].pregen = call[c].pregen
         /\ call'[c].todo = call[c].todo
         /\ call'[c].made = call[c].made /\ call'[c].res = call[c].res
         /\ call'[c].after = call[c].after
         /\ call'[c].pc = "index"
         /\ UNCHANGED <<db, cache, ids, failures, faults, overlap, raced>>
         /\ mu' = c
  <1>0. call \in [Callers -> CallType]
    BY DEF TypeInv, CallInv
  <1>e0. UNCHANGED <<db, cache, ids, failures, faults, overlap, raced>>
    BY DEF SetLock, Goto
  <1>e1. mu' = c
    BY DEF SetLock, Goto
  <1>1. PutPc(c, "index")
    BY DEF SetLock, Goto, PutPc
  <1> QED BY <1>0, <1>e0, <1>e1, <1>1, SetPc

\* What SetIndex does.
LEMMA SetIndexIs ==
  ASSUME TypeInv, NEW c \in Callers, SetIndex(c)
  PROVE  /\ call'[c].op = call[c].op /\ call'[c].arg = call[c].arg /\ call'[c].inst = call[c].inst
         /\ call'[c].entry = call[c].entry /\ call'[c].todo = call[c].todo
         /\ call'[c].made = call[c].made
         /\ call'[c].res = call[c].res /\ call'[c].after = call[c].after
         /\ call'[c].pregen = cache.gen[call[c].inst]
         /\ call'[c].pc = "add"
         /\ UNCHANGED <<db, ids, failures, faults, overlap, raced>>
         /\ cache' = Cache!SetIndex(cache, call[c].inst, call[c].arg) /\ mu' = None
  <1>0. call \in [Callers -> CallType]
    BY DEF TypeInv, CallInv
  <1>e0. UNCHANGED <<db, ids, failures, faults, overlap, raced>>
    BY DEF SetIndex
  <1>e1. cache' = Cache!SetIndex(cache, call[c].inst, call[c].arg) /\ mu' = None
    BY DEF SetIndex
  <1>1. PutPregenPc(c, cache.gen[call[c].inst], "add")
    BY DEF SetIndex, PutPregenPc
  <1> QED BY <1>0, <1>e0, <1>e1, <1>1, SetPregenPc

\* What SetAdd does.
LEMMA SetAddIs ==
  ASSUME TypeInv, NEW c \in Callers, SetAdd(c)
  PROVE  /\ call'[c].op = call[c].op /\ call'[c].arg = call[c].arg /\ call'[c].inst = call[c].inst
         /\ call'[c].entry = call[c].entry /\ call'[c].pregen = call[c].pregen
         /\ call'[c].todo = call[c].todo
         /\ call'[c].made = call[c].made /\ call'[c].res = call[c].res
         /\ call'[c].after = call[c].after
         /\ call'[c].pc = "check"
         /\ UNCHANGED <<db, mu, ids, failures, faults, overlap>>
         /\ raced \subseteq raced'
  <1>0. call \in [Callers -> CallType]
    BY DEF TypeInv, CallInv
  <1>e0. UNCHANGED <<db, mu, ids, failures, faults, overlap>>
    BY DEF SetAdd, Goto
  <1>e1. raced \subseteq raced'
    BY DEF SetAdd, Goto
  <1>1. PutPc(c, "check")
    BY DEF SetAdd, Goto, PutPc
  <1> QED BY <1>0, <1>e0, <1>e1, <1>1, SetPc

\* What SetCheck does.
LEMMA SetCheckIs ==
  ASSUME TypeInv, NEW c \in Callers, SetCheck(c)
  PROVE  /\ call'[c].op = call[c].op /\ call'[c].arg = call[c].arg /\ call'[c].inst = call[c].inst
         /\ call'[c].entry = call[c].entry /\ call'[c].pregen = call[c].pregen
         /\ call'[c].made = call[c].made
         /\ call'[c].after = call[c].after
         /\ \/ /\ Cache!Orphaned(cache, call[c].inst, call[c].pregen)
               /\ cache' = Cache!Unindex(cache, call[c].inst, call[c].arg)
               /\ raced' = raced \union Raced(call[c].arg, c)
               /\ call'[c].todo = {call[c].arg}
               /\ call'[c].pc = "remove"
               /\ call'[c].res = call[c].res
            \/ /\ ~Cache!Orphaned(cache, call[c].inst, call[c].pregen)
               /\ UNCHANGED <<cache, raced>>
               /\ call'[c].pc = "done"
               /\ call'[c].res = "accepted"
               /\ call'[c].todo = call[c].todo
         /\ UNCHANGED <<db, mu, ids, failures, faults, overlap>>
  <1>0. call \in [Callers -> CallType]
    BY DEF TypeInv, CallInv
  <1>e0. UNCHANGED <<db, mu, ids, failures, faults, overlap>>
    BY DEF SetCheck, Return
  <1>1. \/ /\ Cache!Orphaned(cache, call[c].inst, call[c].pregen)
           /\ cache' = Cache!Unindex(cache, call[c].inst, call[c].arg)
           /\ raced' = raced \union Raced(call[c].arg, c)
           /\ PutTodoPc(c, {call[c].arg}, "remove")
        \/ /\ ~Cache!Orphaned(cache, call[c].inst, call[c].pregen)
           /\ UNCHANGED <<cache, raced>>
           /\ PutPcRes(c, "done", "accepted")
    BY DEF SetCheck, Return, PutTodoPc, PutPcRes
  <1> QED BY <1>0, <1>e0, <1>1, SetTodoPc, SetPcRes

\* What Invalidate does.
LEMMA InvalidateIs ==
  ASSUME TypeInv, NEW c \in Callers, Invalidate(c)
  PROVE  /\ call'[c].op = call[c].op /\ call'[c].arg = call[c].arg /\ call'[c].inst = call[c].inst
         /\ call'[c].entry = call[c].entry /\ call'[c].pregen = call[c].pregen
         /\ call'[c].made = call[c].made
         /\ call'[c].res = call[c].res /\ call'[c].after = call[c].after
         /\ call'[c].todo = Cache!Tracked(cache, call[c].inst)
         /\ call'[c].pc = IF Cache!Tracked(cache,
                call[c].inst) = {} THEN AfterInvalidate(c) ELSE "remove"
         /\ UNCHANGED <<db, mu, ids, failures, faults, overlap, raced>>
         /\ cache' = Cache!Drain(cache, call[c].inst)
  <1>0. call \in [Callers -> CallType]
    BY DEF TypeInv, CallInv
  <1>e0. UNCHANGED <<db, mu, ids, failures, faults, overlap, raced>>
    BY DEF Invalidate
  <1>e1. cache' = Cache!Drain(cache, call[c].inst)
    BY DEF Invalidate
  <1>1. PutTodoPc(c, Cache!Tracked(cache, call[c].inst), IF Cache!Tracked(cache,
            call[c].inst) = {} THEN AfterInvalidate(c) ELSE "remove")
    BY DEF Invalidate, PutTodoPc
  <1> QED BY <1>0, <1>e0, <1>e1, <1>1, SetTodoPc

\* What RemoveOne does.
LEMMA RemoveOneIs ==
  ASSUME TypeInv, NEW c \in Callers, RemoveOne(c)
  PROVE  /\ call'[c].op = call[c].op /\ call'[c].arg = call[c].arg /\ call'[c].inst = call[c].inst
         /\ call'[c].entry = call[c].entry /\ call'[c].pregen = call[c].pregen
         /\ call'[c].made = call[c].made
         /\ call'[c].res = call[c].res /\ call'[c].after = call[c].after
         /\ \E h :
               /\ h \in call[c].todo
               /\ cache' = Cache!Remove(cache, h)
               /\ raced' = IF h \in DOMAIN cache.pos THEN raced \union Raced(h, c) ELSE raced
               /\ call'[c].todo = call[c].todo \ {h}
               /\ call'[c].pc = IF call[c].todo = {h} THEN AfterInvalidate(c) ELSE "remove"
         /\ UNCHANGED <<db, mu, ids, failures, faults, overlap>>
  <1>0. call \in [Callers -> CallType]
    BY DEF TypeInv, CallInv
  <1>e0. UNCHANGED <<db, mu, ids, failures, faults, overlap>>
    BY DEF RemoveOne
  <1>1. \E h :
                 /\ h \in call[c].todo
                 /\ cache' = Cache!Remove(cache, h)
                 /\ raced' = IF h \in DOMAIN cache.pos THEN raced \union Raced(h, c) ELSE raced
                 /\ PutTodoPc(c, call[c].todo \ {h},
                        IF call[c].todo = {h} THEN AfterInvalidate(c) ELSE "remove")
    BY DEF RemoveOne, PutTodoPc
  <1>2. PICK h \in call[c].todo :
          /\ cache' = Cache!Remove(cache, h)
          /\ raced' = IF h \in DOMAIN cache.pos THEN raced \union Raced(h, c) ELSE raced
          /\ PutTodoPc(c, call[c].todo \ {h},
                 IF call[c].todo = {h} THEN AfterInvalidate(c) ELSE "remove")
    BY <1>1
  <1> DEFINE left == call[c].todo \ {h}
             p == IF call[c].todo = {h} THEN AfterInvalidate(c) ELSE "remove"
  <1>3. PutTodoPc(c, left, p)
    BY <1>2
  <1> HIDE DEF left, p
  <1>4. /\ call'[c].op = call[c].op /\ call'[c].arg = call[c].arg /\ call'[c].inst = call[c].inst
        /\ call'[c].entry = call[c].entry /\ call'[c].pregen = call[c].pregen
        /\ call'[c].made = call[c].made /\ call'[c].res = call[c].res
        /\ call'[c].after = call[c].after
        /\ call'[c].todo = left /\ call'[c].pc = p
    BY <1>0, <1>3, SetTodoPc
  <1> QED BY <1>e0, <1>2, <1>4 DEF left, p

\* What ListKeys does.
LEMMA ListKeysIs ==
  ASSUME TypeInv, NEW c \in Callers, ListKeys(c)
  PROVE  /\ call'[c].op = call[c].op /\ call'[c].arg = call[c].arg /\ call'[c].inst = call[c].inst
         /\ call'[c].entry = call[c].entry /\ call'[c].pregen = call[c].pregen
         /\ call'[c].todo = call[c].todo
         /\ call'[c].after = call[c].after
         /\ \/ \E m :
                     /\ call[c].op = "playground"
                     /\ call'[c].made = m
                     /\ call'[c].pc = "done"
                     /\ call'[c].res = "ok"
            \/ /\ call[c].op = "playground"
               /\ call'[c].pc = "mint"
               /\ call'[c].made = call[c].made
               /\ call'[c].res = call[c].res
            \/ /\ call[c].op # "playground"
               /\ call'[c].pc = "softdelete"
               /\ call'[c].made = call[c].made
               /\ call'[c].res = call[c].res
            \/ /\ call[c].op # "playground"
               /\ call'[c].pc = "done"
               /\ call'[c].res = "not_found"
               /\ call'[c].made = call[c].made
         /\ UNCHANGED <<db, cache, mu, ids, failures, faults, overlap, raced>>
  <1>0. call \in [Callers -> CallType]
    BY DEF TypeInv, CallInv
  <1>e0. UNCHANGED <<db, cache, mu, ids, failures, faults, overlap, raced>>
    BY DEF ListKeys, Goto, Return
  <1>1. \/ \E m :
                 /\ call[c].op = "playground"
                 /\ PutMadePcRes(c, m, "done", "ok")
        \/ /\ call[c].op = "playground"
           /\ PutPc(c, "mint")
        \/ /\ call[c].op # "playground"
           /\ PutPc(c, "softdelete")
        \/ /\ call[c].op # "playground"
           /\ PutPcRes(c, "done", "not_found")
    BY DEF ListKeys, Goto, Return, PutMadePcRes, PutPc, PutPcRes
  <1> QED BY <1>0, <1>e0, <1>1, SetMadePcRes, SetPc, SetPcRes

\* What SoftDeleteAPIKey does.
LEMMA SoftDeleteAPIKeyIs ==
  ASSUME TypeInv, NEW c \in Callers, SoftDeleteAPIKey(c)
  PROVE  /\ call'[c].op = call[c].op /\ call'[c].arg = call[c].arg /\ call'[c].inst = call[c].inst
         /\ call'[c].entry = call[c].entry /\ call'[c].pregen = call[c].pregen
         /\ call'[c].made = call[c].made
         /\ call'[c].after = call[c].after
         /\ call'[c].pc = AfterSoftDelete(call[c].op, SoftDeleted(db.keys, call[c].inst,
                call[c].arg))
         /\ call'[c].todo = {}
         /\ call'[c].res = IF AfterSoftDelete(call[c].op, SoftDeleted(db.keys, call[c].inst,
                call[c].arg)) = "done" THEN "not_found" ELSE "ok"
         /\ UNCHANGED <<cache, mu, ids, failures, faults, overlap, raced>>
         /\ db'.accounts = db.accounts /\ db'.insts = db.insts
         /\ db'.keys = Kill(db.keys, SoftDeleted(db.keys, call[c].inst, call[c].arg))
         /\ db'.ext = db.ext /\ db'.sessions = db.sessions /\ db'.users = db.users
  <1>0. call \in [Callers -> CallType]
    BY DEF TypeInv, CallInv
  <1>e0. UNCHANGED <<cache, mu, ids, failures, faults, overlap, raced>>
    BY DEF SoftDeleteAPIKey
  <1>e1. db'.accounts = db.accounts /\ db'.insts = db.insts /\ db'.keys = Kill(db.keys,
             SoftDeleted(db.keys, call[c].inst, call[c].arg))
    BY DEF SoftDeleteAPIKey, TypeInv, DbInv
  <1>e2. db'.ext = db.ext /\ db'.sessions = db.sessions /\ db'.users = db.users
    BY DEF SoftDeleteAPIKey, TypeInv, DbInv
  <1>1. PutPcTodoRes(c, AfterSoftDelete(call[c].op, SoftDeleted(db.keys, call[c].inst,
            call[c].arg)), {}, IF AfterSoftDelete(call[c].op, SoftDeleted(db.keys, call[c].inst,
                call[c].arg)) = "done" THEN "not_found" ELSE "ok")
    BY DEF SoftDeleteAPIKey, PutPcTodoRes
  <1> QED BY <1>0, <1>e0, <1>e1, <1>e2, <1>1, SetPcTodoRes

\* What MintKey does.
LEMMA MintKeyIs ==
  ASSUME TypeInv, NEW c \in Callers, MintKey(c)
  PROVE  /\ call'[c].op = call[c].op /\ call'[c].arg = call[c].arg /\ call'[c].inst = call[c].inst
         /\ call'[c].entry = call[c].entry /\ call'[c].pregen = call[c].pregen
         /\ call'[c].todo = call[c].todo
         /\ call'[c].after = call[c].after
         /\ call'[c].made = Fresh(db.keys)
         /\ call'[c].res = "ok"
         /\ call'[c].pc = IF call[c].op = "rotate" THEN "invalidate" ELSE "done"
         /\ UNCHANGED <<cache, mu, ids, failures, faults, overlap, raced>>
         /\ db'.accounts = db.accounts /\ db'.insts = db.insts /\ db'.ext = db.ext
         /\ db'.sessions = db.sessions /\ db'.users = db.users
  <1>0. call \in [Callers -> CallType]
    BY DEF TypeInv, CallInv
  <1>e0. UNCHANGED <<cache, mu, ids, failures, faults, overlap, raced>>
    BY DEF MintKey
  <1>e1. db'.accounts = db.accounts /\ db'.insts = db.insts /\ db'.ext = db.ext
    BY DEF MintKey, TypeInv, DbInv
  <1>e2. db'.sessions = db.sessions /\ db'.users = db.users
    BY DEF MintKey, TypeInv, DbInv
  <1>1. PutMadeResPc(c, Fresh(db.keys), "ok",
            IF call[c].op = "rotate" THEN "invalidate" ELSE "done")
    BY DEF MintKey, PutMadeResPc
  <1> QED BY <1>0, <1>e0, <1>e1, <1>e2, <1>1, SetMadeResPc

\* What UpdateSettings does.
LEMMA UpdateSettingsIs ==
  ASSUME TypeInv, NEW c \in Callers, UpdateSettings(c)
  PROVE  /\ call'[c].op = call[c].op /\ call'[c].arg = call[c].arg /\ call'[c].inst = call[c].inst
         /\ call'[c].entry = call[c].entry /\ call'[c].pregen = call[c].pregen
         /\ call'[c].todo = call[c].todo
         /\ call'[c].made = call[c].made /\ call'[c].after = call[c].after
         /\ call'[c].pc = "invalidate"
         /\ call'[c].res = "ok"
         /\ UNCHANGED <<cache, mu, ids, failures, faults, overlap, raced>>
         /\ db'.accounts = db.accounts /\ db'.insts = UpdateInstallation(db.insts, call[c].inst)
         /\ db'.keys = db.keys
         /\ db'.ext = db.ext /\ db'.sessions = db.sessions /\ db'.users = db.users
  <1>0. call \in [Callers -> CallType]
    BY DEF TypeInv, CallInv
  <1>e0. UNCHANGED <<cache, mu, ids, failures, faults, overlap, raced>>
    BY DEF UpdateSettings
  <1>e1. db'.accounts = db.accounts /\ db'.insts = UpdateInstallation(db.insts,
             call[c].inst) /\ db'.keys = db.keys
    BY DEF UpdateSettings, TypeInv, DbInv
  <1>e2. db'.ext = db.ext /\ db'.sessions = db.sessions /\ db'.users = db.users
    BY DEF UpdateSettings, TypeInv, DbInv
  <1>1. PutPcRes(c, "invalidate", "ok")
    BY DEF UpdateSettings, PutPcRes
  <1> QED BY <1>0, <1>e0, <1>e1, <1>e2, <1>1, SetPcRes

\* What ReplaceByok does.
LEMMA ReplaceByokIs ==
  ASSUME TypeInv, NEW c \in Callers, ReplaceByok(c)
  PROVE  /\ call'[c].op = call[c].op /\ call'[c].arg = call[c].arg /\ call'[c].inst = call[c].inst
         /\ call'[c].entry = call[c].entry /\ call'[c].pregen = call[c].pregen
         /\ call'[c].todo = call[c].todo
         /\ call'[c].made = call[c].made /\ call'[c].res = call[c].res
         /\ call'[c].after = call[c].after
         /\ call'[c].pc = "store"
         /\ UNCHANGED <<cache, mu, ids, failures, faults, overlap, raced>>
         /\ db'.accounts = db.accounts /\ db'.insts = db.insts /\ db'.keys = db.keys
         /\ db'.ext = SoftDeleteByProvider(db.ext, call[c].inst) /\ db'.sessions = db.sessions
         /\ db'.users = db.users
  <1>0. call \in [Callers -> CallType]
    BY DEF TypeInv, CallInv
  <1>e0. UNCHANGED <<cache, mu, ids, failures, faults, overlap, raced>>
    BY DEF ReplaceByok, Goto
  <1>e1. db'.accounts = db.accounts /\ db'.insts = db.insts /\ db'.keys = db.keys
    BY DEF ReplaceByok, Goto, TypeInv, DbInv
  <1>e2. db'.ext = SoftDeleteByProvider(db.ext,
             call[c].inst) /\ db'.sessions = db.sessions /\ db'.users = db.users
    BY DEF ReplaceByok, Goto, TypeInv, DbInv
  <1>1. PutPc(c, "store")
    BY DEF ReplaceByok, Goto, PutPc
  <1> QED BY <1>0, <1>e0, <1>e1, <1>e2, <1>1, SetPc

\* What StoreByok does.
LEMMA StoreByokIs ==
  ASSUME TypeInv, NEW c \in Callers, StoreByok(c)
  PROVE  /\ call'[c].op = call[c].op /\ call'[c].arg = call[c].arg /\ call'[c].inst = call[c].inst
         /\ call'[c].entry = call[c].entry /\ call'[c].pregen = call[c].pregen
         /\ call'[c].todo = call[c].todo
         /\ call'[c].made = call[c].made /\ call'[c].after = call[c].after
         /\ \/ /\ CreateExternalAPIKey(db.ext, call[c].inst) = {}
               /\ call'[c].pc = "done"
               /\ call'[c].res = "conflict"
            \/ /\ CreateExternalAPIKey(db.ext, call[c].inst) # {}
               /\ call'[c].pc = "invalidate"
               /\ call'[c].res = "ok"
         /\ UNCHANGED <<cache, mu, ids, failures, faults, overlap, raced>>
         /\ db'.accounts = db.accounts /\ db'.insts = db.insts /\ db'.keys = db.keys
         /\ db'.ext = db.ext \union CreateExternalAPIKey(db.ext, call[c].inst)
         /\ db'.sessions = db.sessions /\ db'.users = db.users
  <1>0. call \in [Callers -> CallType]
    BY DEF TypeInv, CallInv
  <1>e0. UNCHANGED <<cache, mu, ids, failures, faults, overlap, raced>>
    BY DEF StoreByok, Return
  <1>e1. db'.accounts = db.accounts /\ db'.insts = db.insts /\ db'.keys = db.keys
    BY DEF StoreByok, Return, TypeInv, DbInv
  <1>e2. db'.ext = db.ext \union CreateExternalAPIKey(db.ext,
             call[c].inst) /\ db'.sessions = db.sessions /\ db'.users = db.users
    BY DEF StoreByok, Return, TypeInv, DbInv
  <1>1. \/ /\ CreateExternalAPIKey(db.ext, call[c].inst) = {}
           /\ PutPcRes(c, "done", "conflict")
        \/ /\ CreateExternalAPIKey(db.ext, call[c].inst) # {}
           /\ PutPcRes(c, "invalidate", "ok")
    BY DEF StoreByok, Return, PutPcRes
  <1> QED BY <1>0, <1>e0, <1>e1, <1>e2, <1>1, SetPcRes

\* What DropByok does.
LEMMA DropByokIs ==
  ASSUME TypeInv, NEW c \in Callers, DropByok(c)
  PROVE  /\ call'[c].op = call[c].op /\ call'[c].arg = call[c].arg /\ call'[c].inst = call[c].inst
         /\ call'[c].entry = call[c].entry /\ call'[c].pregen = call[c].pregen
         /\ call'[c].todo = call[c].todo
         /\ call'[c].made = call[c].made /\ call'[c].after = call[c].after
         /\ call'[c].pc = "invalidate"
         /\ call'[c].res = "ok"
         /\ UNCHANGED <<cache, mu, ids, failures, faults, overlap, raced>>
         /\ db'.accounts = db.accounts /\ db'.insts = db.insts /\ db'.keys = db.keys
         /\ db'.sessions = db.sessions /\ db'.users = db.users
  <1>0. call \in [Callers -> CallType]
    BY DEF TypeInv, CallInv
  <1>e0. UNCHANGED <<cache, mu, ids, failures, faults, overlap, raced>>
    BY DEF DropByok
  <1>e1. db'.accounts = db.accounts /\ db'.insts = db.insts /\ db'.keys = db.keys
    BY DEF DropByok, TypeInv, DbInv
  <1>e2. db'.sessions = db.sessions /\ db'.users = db.users
    BY DEF DropByok, TypeInv, DbInv
  <1>1. PutPcRes(c, "invalidate", "ok")
    BY DEF DropByok, PutPcRes
  <1> QED BY <1>0, <1>e0, <1>e1, <1>e2, <1>1, SetPcRes

\* The fields after such an update.
LEMMA SetAliasesIs ==
  ASSUME TypeInv, NEW c \in Callers, SetAliases(c)
  PROVE  /\ call'[c].op = call[c].op /\ call'[c].arg = call[c].arg /\ call'[c].inst = call[c].inst
         /\ call'[c].entry = call[c].entry /\ call'[c].pregen = call[c].pregen
         /\ call'[c].todo = call[c].todo
         /\ call'[c].made = call[c].made /\ call'[c].after = call[c].after
         /\ \/ /\ call'[c].pc = "done"
               /\ call'[c].res = "not_found"
            \/ /\ call'[c].pc = "invalidate"
               /\ call'[c].res = "ok"
         /\ UNCHANGED <<cache, mu, ids, failures, faults, overlap, raced>>
         /\ db'.accounts = db.accounts /\ db'.insts = db.insts /\ db'.keys = db.keys
         /\ db'.sessions = db.sessions /\ db'.users = db.users
  <1>0. call \in [Callers -> CallType]
    BY DEF TypeInv, CallInv
  <1>e0. UNCHANGED <<cache, mu, ids, failures, faults, overlap, raced>>
    BY DEF SetAliases, Return
  <1>e1. db'.accounts = db.accounts /\ db'.insts = db.insts /\ db'.keys = db.keys
    BY DEF SetAliases, Return, TypeInv, DbInv
  <1>e2. db'.sessions = db.sessions /\ db'.users = db.users
    BY DEF SetAliases, Return, TypeInv, DbInv
  <1>1. \/ PutPcRes(c, "done", "not_found")
        \/ PutPcRes(c, "invalidate", "ok")
    BY DEF SetAliases, Return, PutPcRes
  <1> QED BY <1>0, <1>e0, <1>e1, <1>e2, <1>1, SetPcRes

\* What CheckLimit does.
LEMMA CheckLimitIs ==
  ASSUME TypeInv, NEW c \in Callers, CheckLimit(c)
  PROVE  /\ call'[c].op = call[c].op /\ call'[c].arg = call[c].arg /\ call'[c].inst = call[c].inst
         /\ call'[c].entry = call[c].entry /\ call'[c].pregen = call[c].pregen
         /\ call'[c].todo = call[c].todo
         /\ call'[c].made = call[c].made /\ call'[c].after = call[c].after
         /\ \/ /\ call'[c].pc = "done"
               /\ call'[c].res = "limited"
            \/ /\ call'[c].pc = "validate"
               /\ call'[c].res = call[c].res
         /\ UNCHANGED <<db, cache, mu, ids, failures, faults, overlap, raced>>
  <1>0. call \in [Callers -> CallType]
    BY DEF TypeInv, CallInv
  <1>e0. UNCHANGED <<db, cache, mu, ids, failures, faults, overlap, raced>>
    BY DEF CheckLimit, Goto, Return
  <1>1. \/ PutPcRes(c, "done", "limited")
        \/ PutPc(c, "validate")
    BY DEF CheckLimit, Goto, Return, PutPcRes, PutPc
  <1> QED BY <1>0, <1>e0, <1>1, SetPcRes, SetPc

\* What ValidateKey does.
LEMMA ValidateKeyIs ==
  ASSUME TypeInv, NEW c \in Callers, ValidateKey(c)
  PROVE  /\ call'[c].op = call[c].op /\ call'[c].arg = call[c].arg /\ call'[c].inst = call[c].inst
         /\ call'[c].entry = call[c].entry /\ call'[c].todo = call[c].todo
         /\ call'[c].made = call[c].made
         /\ call'[c].after = call[c].after
         /\ \/ /\ call'[c].pc = "account"
               /\ call'[c].res = call[c].res
               /\ call'[c].pregen = call[c].pregen
            \/ \E x :
                     /\ x \in {"refused", "no_credits", "unavailable"}
                     /\ call'[c].res = x
                     /\ call'[c].pregen = failures
                     /\ call'[c].pc = IF CountsAsFailure(x) THEN "note" ELSE "done"
         /\ UNCHANGED <<db, cache, mu, ids, failures, faults, overlap, raced>>
  <1>0. call \in [Callers -> CallType]
    BY DEF TypeInv, CallInv
  <1>e0. UNCHANGED <<db, cache, mu, ids, failures, faults, overlap, raced>>
    BY DEF ValidateKey, Goto
  <1>1. \/ PutPc(c, "account")
        \/ \E x :
                 /\ x \in {"refused", "no_credits", "unavailable"}
                 /\ PutResPregenPc(c, x, failures, IF CountsAsFailure(x) THEN "note" ELSE "done")
    BY DEF ValidateKey, Goto, PutPc, PutResPregenPc
  <1> QED BY <1>0, <1>e0, <1>1, SetPc, SetResPregenPc

\* What NoteFailure does.
LEMMA NoteFailureIs ==
  ASSUME TypeInv, NEW c \in Callers, NoteFailure(c)
  PROVE  /\ call'[c].op = call[c].op /\ call'[c].arg = call[c].arg /\ call'[c].inst = call[c].inst
         /\ call'[c].entry = call[c].entry /\ call'[c].pregen = call[c].pregen
         /\ call'[c].todo = call[c].todo
         /\ call'[c].made = call[c].made /\ call'[c].res = call[c].res
         /\ call'[c].after = call[c].after
         /\ call'[c].pc = "done"
         /\ UNCHANGED <<db, cache, mu, ids, faults, overlap, raced>>
         /\ failures' = call[c].pregen + 1
  <1>0. call \in [Callers -> CallType]
    BY DEF TypeInv, CallInv
  <1>e0. UNCHANGED <<db, cache, mu, ids, faults, overlap, raced>>
    BY DEF NoteFailure, Goto
  <1>e1. failures' = call[c].pregen + 1
    BY DEF NoteFailure, Goto
  <1>1. PutPc(c, "done")
    BY DEF NoteFailure, Goto, PutPc
  <1> QED BY <1>0, <1>e0, <1>e1, <1>1, SetPc

\* What UpsertByAiandUser does.
LEMMA UpsertByAiandUserIs ==
  ASSUME TypeInv, NEW c \in Callers, UpsertByAiandUser(c)
  PROVE  /\ call'[c].op = call[c].op /\ call'[c].arg = call[c].arg /\ call'[c].inst = call[c].inst
         /\ call'[c].entry = call[c].entry /\ call'[c].pregen = call[c].pregen
         /\ call'[c].todo = call[c].todo
         /\ call'[c].res = call[c].res /\ call'[c].after = call[c].after
         /\ call'[c].made = (CHOOSE a \in db'.accounts : a.user = call[c].arg).id
         /\ call'[c].pc = "find"
         /\ UNCHANGED <<cache, mu, ids, failures, faults, overlap, raced>>
         /\ db'.accounts = UpsertAccount(db.accounts, call[c].arg) /\ db'.insts = db.insts
         /\ db'.keys = db.keys
         /\ db'.ext = db.ext /\ db'.sessions = db.sessions /\ db'.users = db.users
  <1>0. call \in [Callers -> CallType]
    BY DEF TypeInv, CallInv
  <1>e0. UNCHANGED <<cache, mu, ids, failures, faults, overlap, raced>>
    BY DEF UpsertByAiandUser
  <1>e1. db'.accounts = UpsertAccount(db.accounts,
             call[c].arg) /\ db'.insts = db.insts /\ db'.keys = db.keys
    BY DEF UpsertByAiandUser, TypeInv, DbInv
  <1>e2. db'.ext = db.ext /\ db'.sessions = db.sessions /\ db'.users = db.users
    BY DEF UpsertByAiandUser, TypeInv, DbInv
  <1>1. PutMadePc(c, (CHOOSE a \in db'.accounts : a.user = call[c].arg).id, "find")
    BY DEF UpsertByAiandUser, PutMadePc
  <1> QED BY <1>0, <1>e0, <1>e1, <1>e2, <1>1, SetMadePc

\* What FindInstallation does.
LEMMA FindInstallationIs ==
  ASSUME TypeInv, NEW c \in Callers, FindInstallation(c)
  PROVE  /\ call'[c].op = call[c].op /\ call'[c].arg = call[c].arg /\ call'[c].entry = call[c].entry
         /\ call'[c].pregen = call[c].pregen /\ call'[c].todo = call[c].todo
         /\ call'[c].made = call[c].made
         /\ call'[c].after = call[c].after
         /\ \/ \E i :
                     /\ i \in ListInstallations(db.insts, call[c].made)
                     /\ call'[c].inst = i.id
                     /\ call'[c].pc = AfterEnsure(c)
                     /\ call'[c].res = call[c].res
            \/ /\ call'[c].pc = "create"
               /\ call'[c].inst = call[c].inst
               /\ call'[c].res = call[c].res
            \/ /\ call'[c].pc = "done"
               /\ call'[c].res = "error"
               /\ call'[c].inst = call[c].inst
         /\ UNCHANGED <<db, cache, mu, ids, failures, faults, overlap, raced>>
  <1>0. call \in [Callers -> CallType]
    BY DEF TypeInv, CallInv
  <1>e0. UNCHANGED <<db, cache, mu, ids, failures, faults, overlap, raced>>
    BY DEF FindInstallation, Goto, Return
  <1>1. \/ \E i :
                 /\ i \in ListInstallations(db.insts, call[c].made)
                 /\ PutInstPc(c, i.id, AfterEnsure(c))
        \/ PutPc(c, "create")
        \/ PutPcRes(c, "done", "error")
    BY DEF FindInstallation, Goto, Return, PutInstPc, PutPc, PutPcRes
  <1> QED BY <1>0, <1>e0, <1>1, SetInstPc, SetPc, SetPcRes

\* What EnsureInstallation does.
LEMMA EnsureInstallationIs ==
  ASSUME TypeInv, NEW c \in Callers, EnsureInstallation(c)
  PROVE  /\ call'[c].op = call[c].op /\ call'[c].arg = call[c].arg /\ call'[c].entry = call[c].entry
         /\ call'[c].pregen = call[c].pregen /\ call'[c].todo = call[c].todo
         /\ call'[c].made = call[c].made
         /\ call'[c].res = call[c].res /\ call'[c].after = call[c].after
         /\ \/ /\ call'[c].pc = "refind"
               /\ call'[c].inst = call[c].inst
               /\ db'.insts = db.insts
            \/ /\ \E i :
                     /\ i \in CreateInstallation(db.insts, call[c].made)
                     /\ call'[c].inst = i.id
                     /\ call'[c].pc = AfterEnsure(c)
               /\ db'.insts = db.insts \union CreateInstallation(db.insts, call[c].made)
         /\ UNCHANGED <<cache, mu, ids, failures, overlap, raced>>
         /\ (faults' # faults => faults' = faults + 1)
         /\ db'.accounts = db.accounts
         /\ db'.keys = db.keys
         /\ db'.ext = db.ext /\ db'.sessions = db.sessions /\ db'.users = db.users
  <1>0. call \in [Callers -> CallType]
    BY DEF TypeInv, CallInv
  <1>e0. UNCHANGED <<cache, mu, ids, failures, overlap, raced>>
    BY DEF EnsureInstallation
  <1>e1. faults' # faults => faults' = faults + 1
    BY DEF EnsureInstallation, Answers
  <1>2. PICK row \in {CreateInstallation(db.insts, call[c].made), {}} :
           /\ db' = [db EXCEPT !.insts = @ \union row]
           /\ IF row = {} THEN Goto(c, "refind")
              ELSE \E i \in row : call' = [call EXCEPT ![c].inst = i.id, ![c].pc = AfterEnsure(c)]
    BY DEF EnsureInstallation
  <1>e2. /\ db'.accounts = db.accounts /\ db'.insts = db.insts \union row /\ db'.keys = db.keys
         /\ db'.ext = db.ext /\ db'.sessions = db.sessions /\ db'.users = db.users
    BY <1>2 DEF TypeInv, DbInv
  <1>1. \/ row = {} /\ PutPc(c, "refind")
        \/ /\ row = CreateInstallation(db.insts, call[c].made)
           /\ \E i : i \in row /\ PutInstPc(c, i.id, AfterEnsure(c))
    BY <1>2 DEF Goto, PutPc, PutInstPc
  <1>3. CASE row = {} /\ PutPc(c, "refind")
    BY <1>0, <1>e0, <1>e1, <1>e2, <1>3, SetPc
  <1>4. CASE row = CreateInstallation(db.insts, call[c].made)
             /\ \E i : i \in row /\ PutInstPc(c, i.id, AfterEnsure(c))
    BY <1>0, <1>e0, <1>e1, <1>e2, <1>4, SetInstPc
  <1> QED BY <1>1, <1>3, <1>4

\* What IssueLoginSession does.
LEMMA IssueLoginSessionIs ==
  ASSUME TypeInv, NEW c \in Callers, IssueLoginSession(c)
  PROVE  /\ call'[c].op = call[c].op /\ call'[c].arg = call[c].arg /\ call'[c].inst = call[c].inst
         /\ call'[c].entry = call[c].entry /\ call'[c].pregen = call[c].pregen
         /\ call'[c].todo = call[c].todo
         /\ call'[c].made = call[c].made /\ call'[c].after = call[c].after
         /\ call'[c].pc = "done"
         /\ call'[c].res = "ok"
         /\ UNCHANGED <<cache, mu, ids, faults, overlap, raced>>
         /\ failures' = 0 /\ db'.accounts = db.accounts /\ db'.insts = db.insts
         /\ db'.keys = db.keys /\ db'.ext = db.ext
         /\ db'.sessions = InsertSession(db.sessions, call[c].made, call[c].inst)
         /\ db'.users = db.users
  <1>0. call \in [Callers -> CallType]
    BY DEF TypeInv, CallInv
  <1>e0. UNCHANGED <<cache, mu, ids, faults, overlap, raced>>
    BY DEF IssueLoginSession, Return
  <1>e1. failures' = 0 /\ db'.accounts = db.accounts /\ db'.insts = db.insts
    BY DEF IssueLoginSession, Return, TypeInv, DbInv
  <1>e2. db'.keys = db.keys /\ db'.ext = db.ext /\ db'.sessions = InsertSession(db.sessions,
             call[c].made, call[c].inst)
    BY DEF IssueLoginSession, Return, TypeInv, DbInv
  <1>e3. db'.users = db.users
    BY DEF IssueLoginSession, Return, TypeInv, DbInv
  <1>1. PutPcRes(c, "done", "ok")
    BY DEF IssueLoginSession, Return, PutPcRes
  <1> QED BY <1>0, <1>e0, <1>e1, <1>e2, <1>e3, <1>1, SetPcRes

\* What OpenDashboard does.
LEMMA OpenDashboardIs ==
  ASSUME TypeInv, NEW c \in Callers, OpenDashboard(c)
  PROVE  /\ call'[c].op = call[c].op /\ call'[c].arg = call[c].arg /\ call'[c].entry = call[c].entry
         /\ call'[c].pregen = call[c].pregen /\ call'[c].todo = call[c].todo
         /\ call'[c].after = call[c].after
         /\ \/ /\ call'[c].pc = "done" /\ call'[c].res = "invalid"
               /\ call'[c].made = call[c].made /\ call'[c].inst = call[c].inst
            \/ \E s \in db.sessions :
                  /\ call'[c].made = s.account /\ call'[c].res = "ok"
                  /\ \/ call'[c].pc = "done" /\ call'[c].inst = s.inst
                     \/ call'[c].pc = "find" /\ call'[c].inst = None
         /\ UNCHANGED <<db, cache, mu, ids, failures, overlap, raced>>
         /\ (faults' # faults => faults' = faults + 1)
  <1>0. call \in [Callers -> CallType]
    BY DEF TypeInv, CallInv
  <1>a. UNCHANGED <<db, cache, mu, ids, failures, overlap, raced>>
    BY DEF OpenDashboard
  <1>b. faults' # faults => faults' = faults + 1
    BY DEF OpenDashboard, Answers
  <1>1. CASE Return(c, "invalid")
    BY <1>0, <1>a, <1>b, <1>1 DEF Return, CallType
  <1>2. CASE ~Return(c, "invalid")
    <2>1. PICK s \in UNION { GetActiveSession(db.sessions, t.id) : t \in db.sessions } :
           \E row :
             call' = [call EXCEPT ![c] =
                        [@ EXCEPT !.made = s.account, !.inst = IF row = {} THEN None ELSE s.inst,
                                  !.pc = IF row = {} THEN "find" ELSE "done", !.res = "ok"]]
      BY <1>2, Zenon DEF OpenDashboard
    <2>a. PICK row :
             call' = [call EXCEPT ![c] =
                        [@ EXCEPT !.made = s.account, !.inst = IF row = {} THEN None ELSE s.inst,
                                  !.pc = IF row = {} THEN "find" ELSE "done", !.res = "ok"]]
      BY <2>1
    <2> DEFINE n == IF row = {} THEN None ELSE s.inst
               p == IF row = {} THEN "find" ELSE "done"
               q == [call[c] EXCEPT !.made = s.account, !.inst = n, !.pc = p, !.res = "ok"]
    <2>2. s \in db.sessions
      BY DEF GetActiveSession
    <2>3. call' = [call EXCEPT ![c] = q]
      BY <2>a, Zenon
    <2>4. (p = "done" /\ n = s.inst) \/ (p = "find" /\ n = None)
      OBVIOUS
    <2> HIDE DEF n, p
    <2>5. /\ q.op = call[c].op /\ q.arg = call[c].arg /\ q.entry = call[c].entry
          /\ q.pregen = call[c].pregen /\ q.todo = call[c].todo /\ q.after = call[c].after
          /\ q.made = s.account /\ q.res = "ok" /\ q.pc = p /\ q.inst = n
      BY <1>0 DEF CallType
    <2> HIDE DEF q
    <2>6. call'[c] = q
      BY <1>0, <2>3
    <2> QED BY <1>a, <1>b, <2>2, <2>4, <2>5, <2>6
  <1> QED BY <1>1, <1>2

\* What ResolveUser does.
LEMMA ResolveUserIs ==
  ASSUME TypeInv, NEW c \in Callers, ResolveUser(c)
  PROVE  /\ call'[c].op = call[c].op /\ call'[c].arg = call[c].arg /\ call'[c].inst = call[c].inst
         /\ call'[c].entry = call[c].entry /\ call'[c].pregen = call[c].pregen
         /\ call'[c].todo = call[c].todo
         /\ call'[c].after = call[c].after
         /\ \E m :
               /\ call'[c].made = m
               /\ call'[c].pc = "done"
               /\ call'[c].res = "ok"
         /\ UNCHANGED <<cache, mu, failures, faults, overlap, raced>>
         /\ db'.accounts = db.accounts /\ db'.insts = db.insts /\ db'.keys = db.keys
         /\ db'.ext = db.ext /\ db'.sessions = db.sessions
  <1>0. call \in [Callers -> CallType]
    BY DEF TypeInv, CallInv
  <1>e0. UNCHANGED <<cache, mu, failures, faults, overlap, raced>>
    BY DEF ResolveUser
  <1>e1. db'.accounts = db.accounts /\ db'.insts = db.insts /\ db'.keys = db.keys
    BY DEF ResolveUser, TypeInv, DbInv
  <1>e2. db'.ext = db.ext /\ db'.sessions = db.sessions
    BY DEF ResolveUser, TypeInv, DbInv
  <1>1. \E m : PutMadePcRes(c, m, "done", "ok")
    BY DEF ResolveUser, PutMadePcRes
  <1> QED BY <1>0, <1>e0, <1>e1, <1>e2, <1>1, SetMadePcRes

\* What ReadKey does.
LEMMA ReadKeyIs ==
  ASSUME TypeInv, NEW c \in Callers, ReadKey(c)
  PROVE  /\ call'[c].op = call[c].op /\ call'[c].arg = call[c].arg
         /\ call'[c].pregen = call[c].pregen
         /\ call'[c].todo = call[c].todo /\ call'[c].made = call[c].made
         /\ call'[c].after = call[c].after
         /\ \/ call'[c].pc = "done" /\ call'[c].res \in {"invalid", "wrong_scope"}
            \/ /\ call'[c].pc \in {"byok", "lock"} /\ call'[c].res = call[c].res
               /\ GetActiveByHash(db.keys, db.insts, call[c].arg) # {}
         /\ cache'.pos = cache.pos /\ cache'.index = cache.index /\ cache'.gen = cache.gen
         /\ UNCHANGED <<db, mu, ids, failures, faults, overlap, raced>>
  <1> DEFINE r == call[c]
             rows == GetActiveByHash(db.keys, db.insts, r.arg)
             k == CHOOSE k \in rows : TRUE
             e == [ key |-> k.id, scope |-> k.scope, inst |-> k.inst, fresh |-> TRUE,
                    settings |-> (CHOOSE i \in db.insts : i.id = k.inst).settings,
                    byok |-> {}, lists |-> "slim" ]
             p == IF r.op = "verify" THEN "byok" ELSE "lock"
             q1 == [r EXCEPT !.pc = "done", !.res = "invalid"]
             q2 == [r EXCEPT !.pc = "done", !.res = "wrong_scope"]
             i == k.inst
             q3 == [r EXCEPT !.inst = i, !.entry = e, !.pc = p]
             q == IF rows = {} THEN q1 ELSE IF k.scope # Scope(r.op) THEN q2 ELSE q3
  <1>0. call \in [Callers -> CallType]
    BY DEF TypeInv, CallInv
  <1>1. call' = [call EXCEPT ![c] = q]
    BY Zenon DEF ReadKey
  <1>2. UNCHANGED <<db, mu, ids, failures, faults, overlap, raced>>
    BY DEF ReadKey
  <1>3. cache'.pos = cache.pos /\ cache'.index = cache.index /\ cache'.gen = cache.gen
    <2>1. cache' = cache \/ cache' = Cache!SetNegative(cache, r.arg)
      BY DEF ReadKey
    <2>2. cache = [pos |-> cache.pos, neg |-> cache.neg, index |-> cache.index, gen |-> cache.gen]
      BY DEF TypeInv, CacheInv, CacheOk
    <2> QED BY <2>1, <2>2 DEF Cache!SetNegative
  <1>4. p \in {"byok", "lock"}
    OBVIOUS
  <1> HIDE DEF p, e, i
  <1>5. /\ q1.op = r.op /\ q1.arg = r.arg /\ q1.pregen = r.pregen /\ q1.todo = r.todo
        /\ q1.made = r.made /\ q1.after = r.after /\ q1.pc = "done" /\ q1.res = "invalid"
        /\ q2.op = r.op /\ q2.arg = r.arg /\ q2.pregen = r.pregen /\ q2.todo = r.todo
        /\ q2.made = r.made /\ q2.after = r.after /\ q2.pc = "done" /\ q2.res = "wrong_scope"
    BY <1>0 DEF CallType
  <1>6. /\ q3.op = r.op /\ q3.arg = r.arg /\ q3.pregen = r.pregen /\ q3.todo = r.todo
        /\ q3.made = r.made /\ q3.after = r.after /\ q3.pc = p /\ q3.res = r.res
    BY <1>0 DEF CallType
  <1>7. call'[c] = q
    BY <1>0, <1>1
  <1> HIDE DEF q1, q2, q3, k, rows
  <1>8. \/ call'[c] = q1 \/ call'[c] = q2 \/ (call'[c] = q3 /\ rows # {})
    BY <1>7
  <1> QED BY <1>2, <1>3, <1>4, <1>5, <1>6, <1>8 DEF rows

\* What Begin does.
LEMMA BeginIs ==
  ASSUME TypeInv, NEW c \in Callers, Begin(c)
  PROVE  /\ call[c].pc = "idle"
         /\ call'[c].pregen = 0 /\ call'[c].todo = {} /\ call'[c].made = None
         /\ call'[c].res = "none" /\ call'[c].after = Deleted /\ call'[c].inst = 1
         /\ call'[c].op # "none"
         /\ call'[c].pc \in {"get", "list", "update", "alias", "drop", "replace", "limit",
                "session",
                              "identity", "mint"}
         /\ call'[c].pc = "mint" => call'[c].op = "issue"
         /\ call'[c].pc = "replace" => call'[c].op = "byok"
         /\ UNCHANGED <<db, cache, mu, ids, failures, faults, raced>>
         /\ overlap \subseteq overlap'
         /\ \A d \in Callers \ {c} :
              /\ call'[c].op \in Surfaces /\ Deletes(d, call'[c].arg) => call'[c].arg \in overlap'
              /\ call'[c].op = "delete" /\ Verifies(d, call'[c].arg) => call'[c].arg \in overlap'
  <1>0. call \in [Callers -> CallType]
    BY DEF TypeInv, CallInv
  <1> DEFINE New(op, arg) ==
               /\ call' = [call EXCEPT ![c] = [Idle EXCEPT !.op = op, !.arg = arg, !.pc = Ops[op],
                                                           !.inst = 1, !.after = Deleted]]
               /\ overlap' = overlap \union
                    (IF \/ op \in {"verify", "analytics"}
                           /\ \E d \in Callers \ {c} : Deletes(d, arg)
                        \/ op = "delete" /\ \E d \in Callers \ {c} : Verifies(d, arg)
                     THEN {arg} ELSE {})
  <1>1. PICK mix \in Mixes : \E op \in mix : \E arg \in Args(op) : New(op, arg)
    BY DEF Begin
  <1>2. PICK op \in mix : \E arg \in Args(op) : New(op, arg)
    BY <1>1
  <1>3. PICK arg \in Args(op) : New(op, arg)
    BY <1>2
  <1>4. op \in DOMAIN Ops
    BY MixesAssumption
  <1> DEFINE p == Ops[op]
             gone == Deleted
             q == [Idle EXCEPT !.op = op, !.arg = arg, !.pc = p, !.inst = 1, !.after = gone]
  <1>5. call' = [call EXCEPT ![c] = q]
    BY <1>3
  <1>6. /\ op # "none" /\ (p = "mint" => op = "issue") /\ (p = "replace" => op = "byok")
        /\ p \in {"get", "list", "update", "alias", "drop", "replace", "limit", "session",
               "identity", "mint"}
    BY <1>4 DEF Ops
  <1>7. Idle \in CallType
    BY Known DEF Idle, CallType, OpNames, None, ArgValues
  <1> HIDE DEF p, gone
  <1>8. /\ q.op = op /\ q.arg = arg /\ q.pc = p /\ q.inst = 1 /\ q.after = gone
        /\ q.pregen = Idle.pregen /\ q.todo = Idle.todo /\ q.made = Idle.made /\ q.res = Idle.res
    BY <1>7 DEF CallType
  <1>9. Idle.pregen = 0 /\ Idle.todo = {} /\ Idle.made = None /\ Idle.res = "none"
    BY DEF Idle
  <1> HIDE DEF q
  <1>10. call'[c] = q
    BY <1>0, <1>5
  <1>11. /\ overlap \subseteq overlap'
         /\ \A d \in Callers \ {c} :
              /\ op \in Surfaces /\ Deletes(d, arg) => arg \in overlap'
              /\ op = "delete" /\ Verifies(d, arg) => arg \in overlap'
    BY <1>3 DEF Surfaces
  <1>12. call[c].pc = "idle" /\ UNCHANGED <<db, cache, mu, ids, failures, faults, raced>>
    BY DEF Begin, At
  <1> QED BY <1>6, <1>8, <1>9, <1>10, <1>11, <1>12 DEF gone

-----------------------------------------------------------------------------
(* Rotation.  A rotation has won once its statement took the key: it is     *)
(* about to mint the successor, or has.                                     *)

Won(c) == call[c].op = "rotate" /\ (At(c, "mint") \/ call[c].made # None)

RotInv ==
    /\ \A c, d \in Callers : Won(c) /\ Won(d) => c = d
    /\ \A c \in Callers : Won(c) => \A k \in db.keys : k.id = 1 => ~k.live
    /\ \A c \in Callers :
          call[c].op = "rotate" /\ call[c].pc \in {"list", "softdelete"} => call[c].made = None

\* Steps that are none of the key statements leave keys and rotations alone.
LEMMA PlainKeys ==
  ASSUME TypeInv, NEW c \in Callers, Refuse(c) \/ Step(c) \/ Fail(c),
         ~ListKeys(c), ~SoftDeleteAPIKey(c), ~MintKey(c)
  PROVE  /\ call'[c].op = call[c].op
         /\ call[c].op = "rotate" =>
               call'[c].made = call[c].made /\ call'[c].pc \notin {"list", "softdelete", "mint"}
         /\ db'.keys = db.keys
  <1>0. Local(call[c])
    BY DEF TypeInv, CallInv
  <1>1. CASE Refuse(c)
    BY <1>1, RefuseIs
  <1>2. CASE Fail(c)
    BY <1>2, FailIs
  <1>3. CASE LookUp(c)
    BY <1>3, LookUpIs
  <1>4. CASE ReadKey(c)
    BY <1>4, ReadKeyIs
  <1>5. CASE ReadByok(c)
    BY <1>5, ReadByokIs
  <1>6. CASE ReadLists(c)
    BY <1>6, ReadListsIs
  <1>7. CASE SetLock(c)
    BY <1>7, SetLockIs
  <1>8. CASE SetIndex(c)
    BY <1>8, SetIndexIs
  <1>9. CASE SetAdd(c)
    BY <1>9, SetAddIs
  <1>10. CASE SetCheck(c)
    BY <1>10, SetCheckIs
  <1>11. CASE Invalidate(c)
    BY <1>11, InvalidateIs DEF AfterInvalidate
  <1>12. CASE RemoveOne(c)
    BY <1>12, RemoveOneIs DEF AfterInvalidate
  <1>13. CASE UpdateSettings(c)
    BY <1>13, UpdateSettingsIs
  <1>14. CASE ReplaceByok(c)
    BY <1>14, ReplaceByokIs
  <1>15. CASE StoreByok(c)
    BY <1>15, StoreByokIs
  <1>16. CASE DropByok(c)
    BY <1>16, DropByokIs
  <1>17. CASE SetAliases(c)
    BY <1>17, SetAliasesIs
  <1>18. CASE CheckLimit(c)
    BY <1>18, CheckLimitIs
  <1>19. CASE ValidateKey(c)
    BY <1>19, ValidateKeyIs
  <1>20. CASE NoteFailure(c)
    BY <1>20, NoteFailureIs
  <1>21. CASE UpsertByAiandUser(c)
    <2>1. call[c].op = "login"
      BY <1>0, <1>21 DEF UpsertByAiandUser, At, Local, OnPath
    <2> QED BY <1>21, <2>1, UpsertByAiandUserIs
  <1>22. CASE FindInstallation(c)
    BY <1>22, FindInstallationIs DEF AfterEnsure
  <1>23. CASE EnsureInstallation(c)
    BY <1>23, EnsureInstallationIs DEF AfterEnsure
  <1>24. CASE IssueLoginSession(c)
    BY <1>24, IssueLoginSessionIs
  <1>25. CASE OpenDashboard(c)
    <2>1. call[c].op = "dashboard"
      BY <1>0, <1>25 DEF OpenDashboard, At, Local, OnPath
    <2> QED BY <1>25, <2>1, OpenDashboardIs
  <1>26. CASE ResolveUser(c)
    <2>1. call[c].op = "resolve"
      BY <1>0, <1>26 DEF ResolveUser, At, Local, OnPath
    <2> QED BY <1>26, <2>1, ResolveUserIs
  <1> QED BY <1>1, <1>2, <1>3, <1>4, <1>5, <1>6, <1>7, <1>8, <1>9, <1>10, <1>11, <1>12, <1>13,
             <1>14, <1>15, <1>16, <1>17, <1>18, <1>19, <1>20, <1>21, <1>22, <1>23, <1>24, <1>25,
             <1>26 DEF Step

\* A key that is minted is a new one.
LEMMA MintedNotOne ==
  ASSUME TypeInv, NEW c \in Callers, MintKey(c)
  PROVE  \A k \in db'.keys : k \in db.keys \/ k.id # 1
  <1>1. db.keys # {} /\ IsFiniteSet(db.keys)
    BY DEF TypeInv, DbInv, Table
  <1>2. Cardinality(db.keys) # 0 /\ Cardinality(db.keys) \in Nat
    BY <1>1, FS_EmptySet, FS_CardinalityType
  <1>3. Fresh(db.keys) # 1
    BY <1>2 DEF Fresh
  <1>4. \E scope, name : db'.keys = db.keys \union
           {[id |-> Fresh(db.keys), inst |-> call[c].inst, scope |-> scope, name |-> name,
               live |-> TRUE]}
    BY DEF MintKey, CreateAPIKey, TypeInv, DbInv
  <1> QED BY <1>3, <1>4

\* RotInv is inductive: the soft delete transitions a row once.
LEMMA RotNext ==
  ASSUME TypeInv, RotInv, [Next]_vars
  PROVE  RotInv'
  <1>1. ASSUME NEW c \in Callers, Refuse(c) \/ Step(c) \/ Fail(c),
               ~ListKeys(c), ~SoftDeleteAPIKey(c), ~MintKey(c)
        PROVE  RotInv'
    <2>1. \A d \in Callers \ {c} : call'[d] = call[d]
      BY <1>1, OthersKept
    <2>2. /\ call'[c].op = call[c].op /\ db'.keys = db.keys
          /\ call[c].op = "rotate" =>
               call'[c].made = call[c].made /\ call'[c].pc \notin {"list", "softdelete", "mint"}
      BY <1>1, PlainKeys
    <2> QED BY <2>1, <2>2 DEF RotInv, Won, At
  <1>2. ASSUME NEW c \in Callers, ListKeys(c)
        PROVE  RotInv'
    <2>1. \A d \in Callers \ {c} : call'[d] = call[d]
      BY <1>2, OthersKept DEF Step
    <2>2. /\ call'[c].op = call[c].op /\ db' = db /\ call[c].pc = "list"
          /\ call[c].op = "rotate" => call'[c].made = call[c].made /\ call'[c].pc # "mint"
      BY <1>2, ListKeysIs DEF ListKeys, At
    <2> QED BY <2>1, <2>2 DEF RotInv, Won, At
  <1>3. ASSUME NEW c \in Callers, SoftDeleteAPIKey(c)
        PROVE  RotInv'
    <2>1. \A d \in Callers \ {c} : call'[d] = call[d]
      BY <1>3, OthersKept DEF Step
    <2>2. call[c].inst = 1 /\ call[c].arg = 1 /\ call[c].pc = "softdelete"
          /\ call[c].op \in {"rotate", "delete"} /\ db.keys \subseteq KeyRows
      BY <1>3 DEF SoftDeleteAPIKey, At, TypeInv, CallInv, Local, OnPath, DbInv, Table
    <2> DEFINE rows == SoftDeleted(db.keys, 1, 1)
    <2>3. \A k \in db'.keys : k.id = 1 => ~k.live
      <3>1. db'.keys = Kill(db.keys, rows)
        BY <1>3, <2>2, SoftDeleteAPIKeyIs
      <3>2. \A k \in KeyRows : [k EXCEPT !.live = FALSE].live = FALSE /\ k.inst = 1
        BY DEF KeyRows
      <3> QED BY <2>2, <3>1, <3>2 DEF Kill, SoftDeleted, Active
    <2>4. /\ call'[c].op = call[c].op /\ call'[c].made = call[c].made
          /\ call'[c].pc \in {"invalidate", "done", "mint"}
          /\ call'[c].pc = "mint" => call[c].op # "delete" /\ rows # {}
      BY <1>3, <2>2, SoftDeleteAPIKeyIs DEF AfterSoftDelete
    <2>5. rows # {} => \A d \in Callers : ~Won(d)
      BY DEF SoftDeleted, Active, RotInv
    <2>6. Won(c)' => Won(c) \/ \A d \in Callers : ~Won(d)
      BY <2>2, <2>4, <2>5 DEF Won, At, RotInv
    <2> HIDE DEF rows
    <2>7. \A d \in Callers \ {c} : Won(d)' <=> Won(d)
      BY <2>1 DEF Won, At
    <2>8. \A d \in Callers : call'[d].op = "rotate" /\ call'[d].pc \in {"list", "softdelete"} =>
                               call'[d].made = None
      BY <2>1, <2>4 DEF RotInv
    <2>9. \A d, e \in Callers : Won(d)' /\ Won(e)' => d = e
      BY <2>6, <2>7 DEF RotInv
    <2> QED BY <2>3, <2>8, <2>9 DEF RotInv
  <1>4. ASSUME NEW c \in Callers, MintKey(c)
        PROVE  RotInv'
    <2>1. \A d \in Callers \ {c} : call'[d] = call[d]
      BY <1>4, OthersKept DEF Step
    <2>2. /\ call'[c].op = call[c].op /\ call'[c].pc \in {"invalidate", "done"}
          /\ call[c].pc = "mint"
      BY <1>4, MintKeyIs DEF MintKey, At
    <2>3. \A d \in Callers : Won(d)' => Won(d)
      BY <2>1, <2>2 DEF Won, At
    <2>5. \A k \in db'.keys : k \in db.keys \/ k.id # 1
      BY <1>4, MintedNotOne
    <2>6. \A d \in Callers : call'[d].op = "rotate" /\ call'[d].pc \in {"list", "softdelete"} =>
                               call'[d].made = None
      BY <2>1, <2>2 DEF RotInv
    <2> QED BY <2>3, <2>5, <2>6 DEF RotInv
  <1>5. ASSUME NEW c \in Callers, Begin(c)
        PROVE  RotInv'
    <2>1. \A d \in Callers \ {c} : call'[d] = call[d]
      BY <1>5, OthersKept
    <2> QED BY <1>5, <2>1, BeginIs DEF RotInv, Won, At
  <1>6. CASE UNCHANGED <<call, db>>
    BY <1>6 DEF RotInv, Won, At
  <1> QED
    BY <1>1, <1>2, <1>3, <1>4, <1>5, <1>6
    DEF Next, vars, Age, AgeNegative, FailuresExpire, ForgetIdentity

-----------------------------------------------------------------------------
(* The lockout.  The failures counted, and those about to be, are refused   *)
(* logins; a refused login stays refused.                                   *)

Refused == { c \in Callers : call[c].op = "login" /\ call[c].res = "refused" }

LockInv ==
    /\ failures <= Cardinality(Refused)
    /\ \A c \in Callers : At(c,
           "note") => c \in Refused /\ call[c].pregen + 1 <= Cardinality(Refused)
    /\ \A c \in Callers : c \in Refused => call[c].pc \in {"note", "done"}

\* Refused logins are finitely many, and one more counts as one more.
LEMMA RefusedGrows ==
  ASSUME NEW S \in SUBSET Callers, NEW T \in SUBSET Callers, S \subseteq T
  PROVE  /\ Cardinality(S) \in Nat /\ Cardinality(T) \in Nat /\ Cardinality(S) <= Cardinality(T)
         /\ S # T => Cardinality(S) + 1 <= Cardinality(T)
  <1>1. IsFiniteSet(Callers)
    BY AuthConstants, FS_Interval DEF Callers
  <1>2. IsFiniteSet(S) /\ IsFiniteSet(T)
    BY <1>1, FS_Subset
  <1>3. Cardinality(S) \in Nat /\ Cardinality(T) \in Nat
    BY <1>2, FS_CardinalityType
  <1>4. Cardinality(S) <= Cardinality(T) /\ (Cardinality(S) = Cardinality(T) => S = T)
    BY <1>2, FS_Subset
  <1> QED BY <1>3, <1>4

\* Steps that are no part of a failed login neither count nor refuse.
LEMMA PlainLogin ==
  ASSUME TypeInv, LockInv, NEW c \in Callers, Refuse(c) \/ Step(c) \/ Fail(c),
         ~ValidateKey(c), ~NoteFailure(c)
  PROVE  /\ call'[c].op = call[c].op /\ call'[c].pc # "note"
         /\ c \notin Refused /\ ~(call'[c].op = "login" /\ call'[c].res = "refused")
         /\ failures' = failures \/ failures' = 0
  <1>0. Local(call[c]) /\ (c \in Refused => call[c].pc \in {"note", "done"})
    BY DEF TypeInv, CallInv, LockInv
  <1>1. CASE Refuse(c)
    BY <1>0, <1>1, RefuseIs DEF Refused, Refuse, At, Ops
  <1>2. CASE Fail(c)
    BY <1>0, <1>2, FailIs DEF Refused, Fail, Fallible
  <1>3. CASE LookUp(c)
    BY <1>0, <1>3, LookUpIs DEF Refused, LookUp, At, Local, OnPath, Surfaces
  <1>4. CASE ReadKey(c)
    BY <1>0, <1>4, ReadKeyIs DEF Refused, ReadKey, At, Local, OnPath, Surfaces
  <1>5. CASE ReadByok(c)
    BY <1>0, <1>5, ReadByokIs DEF Refused, ReadByok, At
  <1>6. CASE ReadLists(c)
    BY <1>0, <1>6, ReadListsIs DEF Refused, ReadLists, At
  <1>7. CASE SetLock(c)
    BY <1>0, <1>7, SetLockIs DEF Refused, SetLock, At
  <1>8. CASE SetIndex(c)
    BY <1>0, <1>8, SetIndexIs DEF Refused, SetIndex, At
  <1>9. CASE SetAdd(c)
    BY <1>0, <1>9, SetAddIs DEF Refused, SetAdd, At
  <1>10. CASE SetCheck(c)
    BY <1>0, <1>10, SetCheckIs DEF Refused, SetCheck, At
  <1>11. CASE Invalidate(c)
    <2>1. call'[c].op = call[c].op /\ call'[c].res = call[c].res /\ failures' = failures
      BY <1>11, InvalidateIs
    <2>2. call'[c].pc # "note"
      BY <1>11, InvalidateIs DEF AfterInvalidate
    <2> QED BY <1>0, <1>11, <2>1, <2>2 DEF Refused, Invalidate, At
  <1>12. CASE RemoveOne(c)
    BY <1>0, <1>12, RemoveOneIs DEF Refused, RemoveOne, At, AfterInvalidate
  <1>13. CASE UpdateSettings(c)
    BY <1>0, <1>13, UpdateSettingsIs DEF Refused, UpdateSettings, At
  <1>14. CASE ReplaceByok(c)
    BY <1>0, <1>14, ReplaceByokIs DEF Refused, ReplaceByok, At
  <1>15. CASE StoreByok(c)
    BY <1>0, <1>15, StoreByokIs DEF Refused, StoreByok, At
  <1>16. CASE DropByok(c)
    BY <1>0, <1>16, DropByokIs DEF Refused, DropByok, At
  <1>17. CASE SetAliases(c)
    BY <1>0, <1>17, SetAliasesIs DEF Refused, SetAliases, At
  <1>18. CASE CheckLimit(c)
    BY <1>0, <1>18, CheckLimitIs DEF Refused, CheckLimit, At
  <1>19. CASE ListKeys(c)
    BY <1>0, <1>19, ListKeysIs DEF Refused, ListKeys, At
  <1>20. CASE SoftDeleteAPIKey(c)
    <2>1. call'[c].op = call[c].op /\ call'[c].res # "refused" /\ failures' = failures
      BY <1>20, SoftDeleteAPIKeyIs
    <2>2. call'[c].pc # "note"
      BY <1>20, SoftDeleteAPIKeyIs DEF AfterSoftDelete
    <2> QED BY <1>0, <1>20, <2>1, <2>2 DEF Refused, SoftDeleteAPIKey, At
  <1>21. CASE UpsertByAiandUser(c)
    BY <1>0, <1>21, UpsertByAiandUserIs DEF Refused, UpsertByAiandUser, At
  <1>22. CASE FindInstallation(c)
    BY <1>0, <1>22, FindInstallationIs DEF Refused, FindInstallation, At, AfterEnsure
  <1>23. CASE EnsureInstallation(c)
    BY <1>0, <1>23, EnsureInstallationIs DEF Refused, EnsureInstallation, At, AfterEnsure
  <1>24. CASE IssueLoginSession(c)
    BY <1>0, <1>24, IssueLoginSessionIs DEF Refused, IssueLoginSession, At
  <1>25. CASE OpenDashboard(c)
    BY <1>0, <1>25, OpenDashboardIs DEF Refused, OpenDashboard, At
  <1>26. CASE ResolveUser(c)
    BY <1>0, <1>26, ResolveUserIs DEF Refused, ResolveUser, At
  <1>27. CASE MintKey(c)
    <2>1. call'[c].op = call[c].op /\ call'[c].res = "ok" /\ failures' = failures
          /\ call'[c].pc # "note"
      BY <1>27, MintKeyIs
    <2> QED BY <1>0, <1>27, <2>1 DEF Refused, MintKey, At
  <1> QED BY <1>1, <1>2, <1>3, <1>4, <1>5, <1>6, <1>7, <1>8, <1>9, <1>10, <1>11, <1>12, <1>13,
             <1>14, <1>15, <1>16, <1>17, <1>18, <1>19, <1>20, <1>21, <1>22, <1>23, <1>24, <1>25,
             <1>26, <1>27 DEF Step

\* LockInv is inductive: a count that is written was read before its own refusal.
LEMMA LockNext ==
  ASSUME TypeInv, LockInv, [Next]_vars
  PROVE  LockInv'
  <1>0. /\ Refused \in SUBSET Callers /\ Refused' \in SUBSET Callers /\ failures \in Nat
        /\ call \in [Callers -> CallType]
    BY DEF Refused, TypeInv, CallInv
  <1>a. Cardinality(Refused) \in Nat /\ Cardinality(Refused') \in Nat
    BY <1>0, RefusedGrows
  <1>b. \A d \in Callers : call[d].pregen \in Nat
    BY <1>0 DEF CallType
  <1>1. ASSUME NEW c \in Callers, Refuse(c) \/ Step(c) \/ Fail(c), ~ValidateKey(c), ~NoteFailure(c)
        PROVE  LockInv'
    <2>1. \A d \in Callers \ {c} : call'[d] = call[d]
      BY <1>1, OthersKept
    <2>2. /\ call'[c].op = call[c].op /\ call'[c].pc # "note"
          /\ c \notin Refused /\ ~(call'[c].op = "login" /\ call'[c].res = "refused")
          /\ failures' = failures \/ failures' = 0
      BY <1>1, PlainLogin
    <2>3. Refused' = Refused
      BY <2>1, <2>2 DEF Refused
    <2> QED BY <1>a, <2>1, <2>2, <2>3 DEF LockInv, At
  <1>2. ASSUME NEW c \in Callers, ValidateKey(c)
        PROVE  LockInv'
    <2>1. \A d \in Callers \ {c} : call'[d] = call[d]
      BY <1>2, OthersKept DEF Step
    <2>2. c \notin Refused /\ call[c].op = "login"
      BY <1>2 DEF ValidateKey, At, LockInv, TypeInv, CallInv, Local, OnPath
    <2>3. Refused \subseteq Refused'
      BY <2>1, <2>2 DEF Refused
    <2>4. Cardinality(Refused) <= Cardinality(Refused')
          /\ (Refused # Refused' => Cardinality(Refused) + 1 <= Cardinality(Refused'))
      BY <1>0, <2>3, RefusedGrows
    <2>5. failures' = failures /\ call'[c].op = "login"
      BY <1>2, <2>2, ValidateKeyIs
    <2>6. \/ call'[c].pc = "note" /\ call'[c].res = "refused" /\ call'[c].pregen = failures
          \/ call'[c].pc # "note" /\ call'[c].res # "refused"
      BY <1>2, <2>2, ValidateKeyIs DEF CountsAsFailure, Refused
    <2>7. CASE call'[c].pc = "note" /\ call'[c].res = "refused" /\ call'[c].pregen = failures
      <3>1. c \in Refused' /\ call'[c].pregen + 1 <= Cardinality(Refused')
        BY <1>0, <1>a, <2>2, <2>4, <2>5, <2>7 DEF Refused, LockInv
      <3>2. failures' <= Cardinality(Refused')
        BY <1>0, <1>a, <2>4, <2>5 DEF LockInv
      <3>3. ASSUME NEW d \in Callers \ {c}
            PROVE  /\ At(d,
                          "note")' => d \in Refused' /\ call'[d].pregen + 1 <= Cardinality(Refused')
                   /\ d \in Refused' => call'[d].pc \in {"note", "done"}
        <4>1. d \in Refused' <=> d \in Refused
          BY <2>1 DEF Refused
        <4> QED BY <1>a, <1>b, <2>1, <2>4, <4>1 DEF LockInv, At
      <3> QED BY <2>7, <3>1, <3>2, <3>3 DEF LockInv, At
    <2>8. CASE call'[c].pc # "note" /\ call'[c].res # "refused"
      <3>1. c \notin Refused'
        BY <2>8 DEF Refused
      <3>2. Refused' = Refused
        BY <2>1, <2>2, <3>1 DEF Refused
      <3> QED BY <1>0, <2>1, <2>5, <2>8, <3>1, <3>2 DEF LockInv, At
    <2> QED BY <2>6, <2>7, <2>8
  <1>3. ASSUME NEW c \in Callers, NoteFailure(c)
        PROVE  LockInv'
    <2>1. \A d \in Callers \ {c} : call'[d] = call[d]
      BY <1>3, OthersKept DEF Step
    <2>2. call'[c].op = call[c].op /\ call'[c].res = call[c].res /\ call'[c].pc = "done"
          /\ failures' = call[c].pregen + 1
      BY <1>3, NoteFailureIs
    <2>3. Refused' = Refused
      BY <2>1, <2>2 DEF Refused
    <2> QED BY <1>3, <2>1, <2>2, <2>3 DEF LockInv, NoteFailure, At
  <1>4. ASSUME NEW c \in Callers, Begin(c)
        PROVE  LockInv'
    <2>1. \A d \in Callers \ {c} : call'[d] = call[d]
      BY <1>4, OthersKept
    <2>2. c \notin Refused /\ c \notin Refused' /\ call'[c].pc # "note" /\ failures' = failures
      BY <1>4, BeginIs DEF LockInv, Refused
    <2>3. Refused' = Refused
      BY <2>1, <2>2 DEF Refused
    <2> QED BY <2>1, <2>2, <2>3 DEF LockInv, At
  <1>5. CASE call' = call /\ (failures' = failures \/ failures' = 0)
    <2>1. Refused' = Refused
      BY <1>5 DEF Refused
    <2> QED BY <1>5, <1>a, <2>1 DEF LockInv, At
  <1> QED
    BY <1>1, <1>2, <1>3, <1>4, <1>5
    DEF Next, vars, Age, AgeNegative, FailuresExpire, ForgetIdentity

-----------------------------------------------------------------------------
(* The index.  A key whose entry is about to be added, or is there, is in   *)
(* the index; or the installation was invalidated since, which the check    *)
(* will see.                                                                *)

IdxInv ==
    /\ \A h \in DOMAIN cache.pos :
          \/ h \in raced \/ <<1, h>> \in cache.index \/ Removing(h)
          \/ \E c \in Callers : At(c, "check") /\ call[c].arg = h /\ cache.gen[1] # call[c].pregen
    /\ \A c \in Callers : At(c, "add") =>
          \/ call[c].arg \in raced \/ <<1, call[c].arg>> \in cache.index
          \/ cache.gen[1] # call[c].pregen
    /\ \A c \in Callers : call[c].pc \in {"add", "check"} => call[c].pregen <= cache.gen[1]

\* Steps outside Set and invalidation leave positive entries and index alone.
LEMMA PlainCache ==
  ASSUME TypeInv, NEW c \in Callers, Begin(c) \/ Refuse(c) \/ Step(c) \/ Fail(c),
         ~SetIndex(c), ~SetAdd(c), ~SetCheck(c), ~Invalidate(c), ~RemoveOne(c)
  PROVE  /\ call[c].pc \notin {"add", "check", "remove"}
         /\ call'[c].pc \notin {"add", "check", "remove"}
         /\ cache'.pos = cache.pos /\ cache'.index = cache.index /\ cache'.gen = cache.gen
         /\ raced' = raced
  <1>0. Local(call[c])
    BY DEF TypeInv, CallInv
  <1>1. CASE Refuse(c)
    BY <1>1, RefuseIs DEF Refuse, At, Ops
  <1>2. CASE Fail(c)
    BY <1>2, FailIs DEF Fail, Fallible
  <1>3. CASE LookUp(c)
    BY <1>3, LookUpIs DEF LookUp, At
  <1>4. CASE ReadKey(c)
    BY <1>4, ReadKeyIs DEF ReadKey, At
  <1>5. CASE ReadByok(c)
    BY <1>5, ReadByokIs DEF ReadByok, At
  <1>6. CASE ReadLists(c)
    BY <1>6, ReadListsIs DEF ReadLists, At
  <1>7. CASE SetLock(c)
    BY <1>7, SetLockIs DEF SetLock, At
  <1>8. CASE Begin(c)
    BY <1>8, BeginIs
  <1>13. CASE UpdateSettings(c)
    BY <1>13, UpdateSettingsIs DEF UpdateSettings, At
  <1>14. CASE ReplaceByok(c)
    BY <1>14, ReplaceByokIs DEF ReplaceByok, At
  <1>15. CASE StoreByok(c)
    BY <1>15, StoreByokIs DEF StoreByok, At
  <1>16. CASE DropByok(c)
    BY <1>16, DropByokIs DEF DropByok, At
  <1>17. CASE SetAliases(c)
    BY <1>17, SetAliasesIs DEF SetAliases, At
  <1>18. CASE CheckLimit(c)
    BY <1>18, CheckLimitIs DEF CheckLimit, At
  <1>9. CASE ValidateKey(c)
    BY <1>9, ValidateKeyIs DEF ValidateKey, At
  <1>10. CASE NoteFailure(c)
    BY <1>10, NoteFailureIs DEF NoteFailure, At
  <1>19. CASE ListKeys(c)
    BY <1>19, ListKeysIs DEF ListKeys, At
  <1>20. CASE SoftDeleteAPIKey(c)
    <2>1. call'[c].pc \notin {"add", "check", "remove"}
      BY <1>20, SoftDeleteAPIKeyIs DEF AfterSoftDelete
    <2>2. UNCHANGED <<cache, raced>>
      BY <1>20, SoftDeleteAPIKeyIs
    <2> QED BY <1>20, <2>1, <2>2 DEF SoftDeleteAPIKey, At
  <1>21. CASE UpsertByAiandUser(c)
    BY <1>21, UpsertByAiandUserIs DEF UpsertByAiandUser, At
  <1>22. CASE FindInstallation(c)
    BY <1>22, FindInstallationIs DEF FindInstallation, At, AfterEnsure
  <1>23. CASE EnsureInstallation(c)
    BY <1>23, EnsureInstallationIs DEF EnsureInstallation, At, AfterEnsure
  <1>24. CASE IssueLoginSession(c)
    BY <1>24, IssueLoginSessionIs DEF IssueLoginSession, At
  <1>25. CASE OpenDashboard(c)
    BY <1>25, OpenDashboardIs DEF OpenDashboard, At
  <1>26. CASE ResolveUser(c)
    BY <1>26, ResolveUserIs DEF ResolveUser, At
  <1>27. CASE MintKey(c)
    <2>1. call'[c].pc \notin {"add", "check", "remove"} /\ UNCHANGED <<cache, raced>>
      BY <1>27, MintKeyIs
    <2> QED BY <1>27, <2>1 DEF MintKey, At
  <1> QED BY <1>1, <1>2, <1>3, <1>4, <1>5, <1>6, <1>7, <1>8, <1>9, <1>10, <1>13,
             <1>14, <1>15, <1>16, <1>17, <1>18, <1>19, <1>20, <1>21, <1>22, <1>23, <1>24, <1>25,
             <1>26, <1>27 DEF Step

\* A removal or expiry of one entry: the calls stay, and whoever was about to
\* add that entry has raced.
LEMMA IdxDropped ==
  ASSUME TypeInv, IdxInv, NEW h,
         cache' = Cache!Remove(cache, h), raced \subseteq raced',
         \A d \in Callers : At(d,
             "add") /\ call[d].arg = h /\ h \in DOMAIN cache.pos => h \in raced',
         \A d \in Callers : /\ call'[d].pc \in {"add", "check"} => call'[d] = call[d]
                            /\ At(d, "check") => call'[d] = call[d],
         \A g \in DOMAIN cache.pos \ {h} : Removing(g) => Removing(g)'
  PROVE  IdxInv'
  <1>1. /\ CacheOk(cache)
        /\ DOMAIN cache'.pos = DOMAIN cache.pos \ {h} /\ cache'.gen = cache.gen
        /\ cache'.index = IF h \in DOMAIN cache.pos THEN cache.index \ {<<cache.pos[h].inst, h>>}
                                                  ELSE cache.index
    BY RemoveOk DEF TypeInv, CacheInv
  <1>2. h \in DOMAIN cache.pos => cache.pos[h].inst = 1
    BY <1>1 DEF CacheOk, Whole, Entries
  <1>3. \A g : g # h /\ <<1, g>> \in cache.index => <<1, g>> \in cache'.index
    BY <1>1, <1>2
  <1>4. h \notin DOMAIN cache.pos => cache'.index = cache.index
    BY <1>1
  <1>5. ASSUME NEW g \in DOMAIN cache'.pos
        PROVE  \/ g \in raced' \/ <<1, g>> \in cache'.index \/ Removing(g)'
               \/ \E c \in Callers : At(c,
                      "check")' /\ call'[c].arg = g /\ cache'.gen[1] # call'[c].pregen
    <2>1. g \in DOMAIN cache.pos \ {h}
      BY <1>1
    <2>2. CASE \E c \in Callers : At(c, "check") /\ call[c].arg = g /\ cache.gen[1] # call[c].pregen
      BY <1>1, <2>2 DEF At
    <2> QED BY <1>3, <2>1, <2>2 DEF IdxInv
  <1>6. ASSUME NEW c \in Callers, At(c, "add")'
        PROVE  \/ call'[c].arg \in raced' \/ <<1, call'[c].arg>> \in cache'.index
               \/ cache'.gen[1] # call'[c].pregen
    <2>1. call'[c] = call[c] /\ At(c, "add")
      BY <1>6 DEF At
    <2> QED BY <1>1, <1>3, <1>4, <2>1 DEF IdxInv
  <1>7. \A c \in Callers : call'[c].pc \in {"add", "check"} => call'[c].pregen <= cache'.gen[1]
    BY <1>1 DEF IdxInv
  <1> QED BY <1>5, <1>6, <1>7 DEF IdxInv

\* IdxInv is inductive.
LEMMA IdxNext ==
  ASSUME TypeInv, IdxInv, [Next]_vars
  PROVE  IdxInv'
  <1>0. CacheOk(cache) /\ 1 \in Insts /\ cache.gen[1] \in Nat
    BY AuthConstants DEF TypeInv, CacheInv, CacheOk
  <1>a. \A c \in Callers : call[c].pc \in {"index", "add",
            "check"} => call[c].arg \in Nat /\ call[c].inst = 1
    BY DEF TypeInv, CallInv, Local, OnPath, Surfaces
  <1>b. call \in [Callers -> CallType] /\ \A c \in Callers : call[c].pregen \in Nat
    BY DEF TypeInv, CallInv, CallType
  <1>1. ASSUME NEW c \in Callers, Begin(c) \/ Refuse(c) \/ Step(c) \/ Fail(c),
               ~SetIndex(c), ~SetAdd(c), ~SetCheck(c), ~Invalidate(c), ~RemoveOne(c)
        PROVE  IdxInv'
    <2>1. \A d \in Callers \ {c} : call'[d] = call[d]
      BY <1>1, OthersKept
    <2>2. /\ call[c].pc \notin {"add", "check", "remove"}
          /\ call'[c].pc \notin {"add", "check", "remove"}
          /\ cache'.pos = cache.pos /\ cache'.index = cache.index /\ cache'.gen = cache.gen
          /\ raced' = raced
      BY <1>1, PlainCache
    <2>3. \A h : Removing(h) => Removing(h)'
      BY <2>1, <2>2 DEF Removing, At
    <2> QED BY <2>1, <2>2, <2>3 DEF IdxInv, At
  <1>2. ASSUME NEW c \in Callers, SetIndex(c)
        PROVE  IdxInv'
    <2>1. \A d \in Callers \ {c} : call'[d] = call[d]
      BY <1>2, OthersKept DEF Step
    <2>2. call[c].pc = "index" /\ call[c].inst = 1 /\ call[c].arg \in Nat
      BY <1>2, <1>a DEF SetIndex, At
    <2>3. /\ call'[c].pc = "add" /\ call'[c].arg = call[c].arg /\ call'[c].pregen = cache.gen[1]
          /\ cache' = Cache!SetIndex(cache, 1, call[c].arg) /\ raced' = raced
      BY <1>2, <2>2, SetIndexIs
    <2>4. cache'.pos = cache.pos /\ cache'.gen = cache.gen
          /\ cache'.index = cache.index \union {<<1, call[c].arg>>}
      <3>1. cache = [pos |-> cache.pos, neg |-> cache.neg, index |-> cache.index, gen |-> cache.gen]
        BY <1>0 DEF CacheOk
      <3> QED BY <2>3, <3>1 DEF Cache!SetIndex
    <2>5. \A h : Removing(h) => Removing(h)'
      BY <2>1, <2>2 DEF Removing, At
    <2>6. ASSUME NEW h \in DOMAIN cache'.pos
          PROVE  \/ h \in raced' \/ <<1, h>> \in cache'.index \/ Removing(h)'
                 \/ \E d \in Callers : At(d,
                        "check")' /\ call'[d].arg = h /\ cache'.gen[1] # call'[d].pregen
      <3>1. CASE \E d \in Callers : At(d,
                "check") /\ call[d].arg = h /\ cache.gen[1] # call[d].pregen
        BY <2>1, <2>2, <2>4, <3>1 DEF At
      <3>2. <<1, h>> \in cache.index => <<1, h>> \in cache'.index
        BY <2>4
      <3> QED BY <2>3, <2>4, <2>5, <3>1, <3>2 DEF IdxInv
    <2>7. \A d \in Callers : At(d, "add")' =>
            \/ call'[d].arg \in raced' \/ <<1, call'[d].arg>> \in cache'.index
            \/ cache'.gen[1] # call'[d].pregen
      BY <2>1, <2>3, <2>4 DEF IdxInv, At
    <2>8. \A d \in Callers : call'[d].pc \in {"add", "check"} => call'[d].pregen <= cache'.gen[1]
      BY <1>0, <2>1, <2>3, <2>4 DEF IdxInv
    <2> QED BY <2>6, <2>7, <2>8 DEF IdxInv
  <1>3. ASSUME NEW c \in Callers, SetAdd(c)
        PROVE  IdxInv'
    <2> DEFINE hash == call[c].arg
    <2>1. \A d \in Callers \ {c} : call'[d] = call[d]
      BY <1>3, OthersKept DEF Step
    <2>2. call[c].pc = "add" /\ hash \in Nat
      BY <1>3, <1>a DEF SetAdd, At
    <2>3. /\ call'[c].pc = "check" /\ call'[c].arg = hash /\ call'[c].pregen = call[c].pregen
          /\ raced \subseteq raced'
      BY <1>3, SetAddIs
    <2>4. Whole(call[c].entry)
      BY <2>2 DEF TypeInv, CallInv, Local, OnPath, Surfaces, Setting, Whole
    <2>5. \A h : Removing(h) => Removing(h)'
      BY <2>1, <2>2 DEF Removing, At
    \* What the removal of a victim, if any, leaves before the entry is added.
    <2>6. PICK x : /\ CacheOk(x) /\ cache' = Cache!Add(x, hash, call[c].entry)
                   /\ x.gen = cache.gen /\ DOMAIN x.pos \subseteq DOMAIN cache.pos
                   /\ <<1, hash>> \in cache.index => <<1, hash>> \in x.index
                   /\ \A h \in DOMAIN x.pos : <<1, h>> \in cache.index => <<1, h>> \in x.index
                   /\ \A d \in Callers \ {c} : At(d, "add") /\ <<1, call[d].arg>> \in cache.index
                         => call[d].arg \in raced' \/ <<1, call[d].arg>> \in x.index
      <3>1. CASE cache' = Cache!Add(cache, hash, call[c].entry)
        BY <1>0, <3>1
      <3>2. CASE \E v \in Cache!Victims(cache, hash, Capacity) :
                   /\ cache' = Cache!Add(Cache!Remove(cache, v), hash, call[c].entry)
                   /\ raced' = raced \union Raced(v, c)
        <4>1. PICK v \in Cache!Victims(cache, hash, Capacity) :
                   /\ cache' = Cache!Add(Cache!Remove(cache, v), hash, call[c].entry)
                   /\ raced' = raced \union Raced(v, c)
          BY <3>2
        <4>2. v \in DOMAIN cache.pos /\ v # hash
          BY DEF Cache!Victims
        <4> DEFINE x == Cache!Remove(cache, v)
        <4>3. CacheOk(x) /\ DOMAIN x.pos = DOMAIN cache.pos \ {v} /\ x.gen = cache.gen
              /\ x.index = cache.index \ {<<cache.pos[v].inst, v>>}
          BY <1>0, <4>2, RemoveOk
        <4>4. \A h : h # v /\ <<1, h>> \in cache.index => <<1, h>> \in x.index
          BY <4>3
        <4>5. \A d \in Callers \ {c} : At(d, "add") /\ call[d].arg = v => v \in raced'
          BY <4>1 DEF Raced, Adding
        <4> HIDE DEF x
        <4> QED BY <4>1, <4>2, <4>3, <4>4, <4>5 DEF x
      <3> QED BY <1>3, <3>1, <3>2 DEF SetAdd
    <2>7. /\ DOMAIN cache'.pos = DOMAIN x.pos \union {hash} /\ cache'.gen = cache.gen
          /\ cache'.index = x.index
      BY <2>2, <2>4, <2>6, AddOk
    <2>8. ASSUME NEW h \in DOMAIN cache'.pos
          PROVE  \/ h \in raced' \/ <<1, h>> \in cache'.index \/ Removing(h)'
                 \/ \E d \in Callers : At(d,
                        "check")' /\ call'[d].arg = h /\ cache'.gen[1] # call'[d].pregen
      <3>1. CASE h = hash
        <4>1. \/ hash \in raced \/ <<1, hash>> \in cache.index \/ cache.gen[1] # call[c].pregen
          BY <2>2 DEF IdxInv, At
        <4> QED BY <2>3, <2>6, <2>7, <3>1, <4>1 DEF At
      <3>2. CASE h \in DOMAIN x.pos
        <4>1. CASE \E d \in Callers : At(d,
                  "check") /\ call[d].arg = h /\ cache.gen[1] # call[d].pregen
          BY <2>1, <2>2, <2>7, <4>1 DEF At
        <4> QED BY <2>3, <2>5, <2>6, <2>7, <3>2, <4>1 DEF IdxInv
      <3> QED BY <2>7, <3>1, <3>2
    <2>9. \A d \in Callers : At(d, "add")' =>
            \/ call'[d].arg \in raced' \/ <<1, call'[d].arg>> \in cache'.index
            \/ cache'.gen[1] # call'[d].pregen
      BY <2>1, <2>3, <2>6, <2>7 DEF IdxInv, At
    <2>10. \A d \in Callers : call'[d].pc \in {"add", "check"} => call'[d].pregen <= cache'.gen[1]
      BY <2>1, <2>2, <2>3, <2>7 DEF IdxInv
    <2> QED BY <2>8, <2>9, <2>10 DEF IdxInv
  <1>4. ASSUME NEW c \in Callers, SetCheck(c)
        PROVE  IdxInv'
    <2>0. PICK hash : hash = call[c].arg
      OBVIOUS
    <2>1. \A d \in Callers \ {c} : call'[d] = call[d]
      BY <1>4, OthersKept DEF Step
    <2>2. call[c].pc = "check" /\ hash \in Nat /\ call[c].inst = 1
      BY <1>4, <1>a, <2>0 DEF SetCheck, At
    <2>3. CASE /\ call'[c].pc = "remove" /\ call'[c].todo = {hash}
               /\ cache' = Cache!Unindex(cache, 1, hash) /\ raced' = raced \union Raced(hash, c)
      <3>1. cache'.pos = cache.pos /\ cache'.gen = cache.gen
            /\ cache'.index = cache.index \ {<<1, hash>>}
        <4>1. cache = [pos |-> cache.pos, neg |-> cache.neg, index |-> cache.index,
                  gen |-> cache.gen]
          BY <1>0 DEF CacheOk
        <4> QED BY <2>3, <4>1 DEF Cache!Unindex
      <3>2. Removing(hash)' /\ \A h : Removing(h) => Removing(h)'
        BY <2>1, <2>2, <2>3 DEF Removing, At
      <3>3. \A d \in Callers \ {c} : At(d, "add") /\ call[d].arg = hash => hash \in raced'
        BY <2>3 DEF Raced, Adding
      <3>4. \A h : h # hash /\ <<1, h>> \in cache.index => <<1, h>> \in cache'.index
        BY <3>1
      <3>5. ASSUME NEW h \in DOMAIN cache'.pos
            PROVE  \/ h \in raced' \/ <<1, h>> \in cache'.index \/ Removing(h)'
                   \/ \E d \in Callers : At(d,
                          "check")' /\ call'[d].arg = h /\ cache'.gen[1] # call'[d].pregen
        <4>1. CASE h = hash
          BY <3>2, <4>1
        <4>2. CASE h # hash
          <5>1. CASE \E d \in Callers : At(d,
                    "check") /\ call[d].arg = h /\ cache.gen[1] # call[d].pregen
            <6>1. PICK d \in Callers : At(d,
                      "check") /\ call[d].arg = h /\ cache.gen[1] # call[d].pregen
              BY <5>1
            <6>2. d # c /\ call'[d] = call[d]
              BY <2>0, <2>1, <4>2, <6>1
            <6> QED BY <3>1, <6>1, <6>2 DEF At
          <5> QED BY <2>3, <3>1, <3>2, <3>4, <4>2, <5>1 DEF IdxInv
        <4> QED BY <4>1, <4>2
      <3>6. ASSUME NEW d \in Callers, At(d, "add")'
            PROVE  \/ call'[d].arg \in raced' \/ <<1, call'[d].arg>> \in cache'.index
                   \/ cache'.gen[1] # call'[d].pregen
        <4>1. d # c /\ call'[d] = call[d] /\ At(d, "add")
          BY <2>1, <2>3, <3>6 DEF At
        <4> QED BY <2>3, <3>1, <3>3, <3>4, <4>1 DEF IdxInv
      <3>7. \A d \in Callers : call'[d].pc \in {"add", "check"} => call'[d].pregen <= cache'.gen[1]
        BY <2>1, <2>3, <3>1 DEF IdxInv
      <3> QED BY <3>5, <3>6, <3>7 DEF IdxInv
    <2>4. CASE /\ call'[c].pc = "done" /\ UNCHANGED <<cache,
                                           raced>> /\ cache.gen[1] = call[c].pregen
      <3>1. \A h : Removing(h) => Removing(h)'
        BY <2>1, <2>2 DEF Removing, At
      <3> QED BY <2>1, <2>4, <3>1 DEF IdxInv, At
    <2> QED BY <1>4, <2>0, <2>2, <2>3, <2>4, SetCheckIs DEF Cache!Orphaned
  <1>5. ASSUME NEW c \in Callers, Invalidate(c)
        PROVE  IdxInv'
    <2> DEFINE found == Cache!Tracked(cache, call[c].inst)
    <2>1. \A d \in Callers \ {c} : call'[d] = call[d]
      BY <1>5, OthersKept DEF Step
    <2>2. call[c].pc = "invalidate" /\ call[c].inst \in Nat
      BY <1>5, <1>b DEF Invalidate, At, CallType
    <2>3. /\ call'[c].todo = found /\ cache' = Cache!Drain(cache, call[c].inst) /\ raced' = raced
          /\ found # {} => call'[c].pc = "remove"
          /\ call'[c].pc \notin {"add", "check"}
      BY <1>5, InvalidateIs DEF AfterInvalidate
    <2>4. /\ cache'.pos = cache.pos
          /\ \A h : <<1, h>> \in cache.index /\ call[c].inst # 1 => <<1, h>> \in cache'.index
          /\ cache'.gen[1] = IF call[c].inst = 1 THEN cache.gen[1] + 1 ELSE cache.gen[1]
      BY <1>0, <2>3, DrainOk
    <2>5. \A h : Removing(h) => Removing(h)'
      BY <2>1, <2>2 DEF Removing, At
    <2>6. CASE call[c].inst # 1
      <3>1. cache'.gen[1] = cache.gen[1]
        BY <2>4, <2>6
      <3>2. \A h : <<1, h>> \in cache.index => <<1, h>> \in cache'.index
        BY <2>4, <2>6
      <3> QED BY <2>1, <2>2, <2>3, <2>4, <2>5, <3>1, <3>2 DEF IdxInv, At
    <2>7. CASE call[c].inst = 1
      <3>1. cache'.gen[1] = cache.gen[1] + 1
        BY <2>4, <2>7
      <3>2. \A h : <<1, h>> \in cache.index => Removing(h)'
        <4>1. \A h : <<1, h>> \in cache.index => h \in found
          BY <2>7 DEF Cache!Tracked
        <4> HIDE DEF found
        <4> QED BY <2>3, <4>1 DEF Removing, At
      <3>3. \A d \in Callers : call'[d].pc \in {"add", "check"} =>
              /\ call'[d] = call[d] /\ cache'.gen[1] # call'[d].pregen
              /\ call'[d].pregen <= cache'.gen[1]
        BY <1>0, <1>b, <2>1, <2>3, <3>1 DEF IdxInv
      <3>4. ASSUME NEW h \in DOMAIN cache'.pos
            PROVE  \/ h \in raced' \/ Removing(h)'
                   \/ \E d \in Callers : At(d,
                          "check")' /\ call'[d].arg = h /\ cache'.gen[1] # call'[d].pregen
        <4>1. CASE \E d \in Callers : At(d,
                  "check") /\ call[d].arg = h /\ cache.gen[1] # call[d].pregen
          BY <2>1, <2>2, <3>3, <4>1 DEF At
        <4> QED BY <2>3, <2>4, <2>5, <3>2, <4>1 DEF IdxInv
      <3> QED BY <3>3, <3>4 DEF IdxInv, At
    <2> QED BY <2>6, <2>7
  <1>6. ASSUME NEW c \in Callers, RemoveOne(c)
        PROVE  IdxInv'
    <2>1. \A d \in Callers \ {c} : call'[d] = call[d]
      BY <1>6, OthersKept DEF Step
    <2>2. PICK h \in call[c].todo :
             /\ cache' = Cache!Remove(cache, h) /\ call'[c].todo = call[c].todo \ {h}
             /\ call'[c].pc = IF call[c].todo = {h} THEN AfterInvalidate(c) ELSE "remove"
             /\ raced' = IF h \in DOMAIN cache.pos THEN raced \union Raced(h, c) ELSE raced
      BY <1>6, RemoveOneIs
    <2>3. call[c].pc = "remove" /\ call'[c].pc \notin {"add", "check"}
      BY <1>6, <2>2 DEF RemoveOne, At, AfterInvalidate
    <2>4. \A g \in DOMAIN cache.pos \ {h} : Removing(g) => Removing(g)'
      BY <2>1, <2>2, <2>3 DEF Removing, At
    <2>5. \A d \in Callers : At(d,
              "add") /\ call[d].arg = h /\ h \in DOMAIN cache.pos => h \in raced'
      BY <2>2, <2>3 DEF Raced, Adding, At
    <2>6. \A d \in Callers : /\ call'[d].pc \in {"add", "check"} => call'[d] = call[d]
                             /\ At(d, "check") => call'[d] = call[d]
      BY <2>1, <2>3 DEF At
    <2> QED BY <2>2, <2>4, <2>5, <2>6, IdxDropped
  <1>7. ASSUME NEW h, Age(h)
        PROVE  IdxInv'
    <2>1. call' = call /\ h \in DOMAIN cache.pos
      BY <1>7 DEF Age
    <2>2. \A g : Removing(g)' <=> Removing(g)
      BY <2>1 DEF Removing, At
    <2>3. CASE cache' = Cache!Expire(cache, h) /\ raced' = raced
      <3>1. DOMAIN cache'.pos = DOMAIN cache.pos /\ cache'.index = cache.index /\
                cache'.gen = cache.gen
        BY <1>0, <2>1, <2>3, ExpireOk
      <3> QED BY <2>1, <2>2, <2>3, <3>1 DEF IdxInv, At
    <2>4. CASE cache' = Cache!Remove(cache, h) /\ raced' = raced \union Raced(h, None)
      <3>1. \A d \in Callers : At(d, "add") /\ call[d].arg = h => h \in raced'
        <4>1. None \notin Callers
          BY DEF None, Callers
        <4> QED BY <2>4, <4>1 DEF Raced, Adding
      <3> QED BY <2>1, <2>2, <2>4, <3>1, IdxDropped DEF At
    <2> QED BY <1>7, <2>3, <2>4 DEF Age
  <1>8. ASSUME NEW h, AgeNegative(h)
        PROVE  IdxInv'
    <2>1. cache'.pos = cache.pos /\ cache'.index = cache.index /\ cache'.gen = cache.gen
      BY <1>0, <1>8 DEF AgeNegative, CacheOk, Cache!ExpireNegative
    <2> QED BY <1>8, <2>1 DEF AgeNegative, IdxInv, Removing, At
  <1>9. CASE UNCHANGED <<call, cache, raced>>
    BY <1>9 DEF IdxInv, Removing, At
  <1> QED
    BY <1>1, <1>2, <1>3, <1>4, <1>5, <1>6, <1>7, <1>8, <1>9
    DEF Next, vars, FailuresExpire, ForgetIdentity

-----------------------------------------------------------------------------
(* Deletion.  Once the statement of a deletion has run the key's row is     *)
(* dead; once its invalidation has drained the index, the key's entry is    *)
(* gone or some invalidation has still to remove it.  Both hold unless a    *)
(* verification overlapped the deletion or an eviction raced a Set.         *)

Deleting(d, places) == call[d].op = "delete" /\ call[d].res = "ok" /\ call[d].pc \in places

Past == \E d \in Callers : Deleting(d, {"invalidate", "remove", "done"})
Drained == \E d \in Callers : Deleting(d, {"remove", "done"})

RowDead == \A k \in db.keys : k.id = 1 => ~k.live

DelInv ==
    /\ Past => RowDead
    /\ 1 \notin overlap => \A c, d \in Callers : ~(Verifies(c, 1) /\ Deletes(d, 1))
    /\ 1 \notin overlap /\ Past => \A c \in Callers : Verifies(c, 1) => call[c].pc \in {"get",
           "read"}
    /\ 1 \notin overlap \union raced /\ Drained /\ 1 \in DOMAIN cache.pos => Removing(1)
    /\ \A c \in Callers : 1 \in call[c].after =>
          Drained /\ (1 \notin overlap \union raced => 1 \notin DOMAIN cache.pos)
    /\ \A c \in Callers : call[c].after \subseteq {1}
    /\ DeletedKeyRefused

\* A deletion that has drained the index has deleted the row.
LEMMA DrainedPast ==
  ASSUME Drained
  PROVE  Past
  BY DEF Drained, Past, Deleting

\* A step of c that keeps its operation: what must be shown of it.
LEMMA DelMove ==
  ASSUME TypeInv, DelInv, NEW c \in Callers,
         \A d \in Callers \ {c} : call'[d] = call[d],
         call'[c].op = call[c].op, call'[c].arg = call[c].arg, call'[c].after = call[c].after,
         call[c].pc # "done", overlap' = overlap, raced \subseteq raced',
         RowDead => RowDead',
         Past' => Past \/ (Deletes(c, 1) /\ RowDead'),
         Drained => Drained',
         Drained' /\ 1 \notin overlap \union raced' =>
            (1 \in DOMAIN cache'.pos =>
                IF Drained THEN 1 \in DOMAIN cache.pos /\ (Removing(1) => Removing(1)')
                           ELSE Removing(1)'),
         Past /\ Verifies(c, 1) /\ 1 \notin overlap /\ call[c].pc \in {"get", "read"} =>
            call'[c].pc \in {"get", "read", "done"},
         Verifies(c, 1) /\ 1 \in call[c].after /\ 1 \notin overlap \union raced
            /\ call[c].pc \in {"get",
                   "read"} => ~(call'[c].pc = "done" /\ call'[c].res = "accepted")
  PROVE  DelInv'
  <1>1. (Past => RowDead)'
    BY DEF DelInv
  <1>2. \A d \in Callers : /\ Verifies(d, 1)' => Verifies(d, 1)
                           /\ Deletes(d, 1)' => Deletes(d, 1)
    BY DEF Verifies, Deletes, At
  <1>3. (1 \notin overlap => \A d, e \in Callers : ~(Verifies(d, 1) /\ Deletes(e, 1)))'
    BY <1>2 DEF DelInv
  <1>4. ASSUME 1 \notin overlap', Past', NEW d \in Callers, Verifies(d, 1)'
        PROVE  call'[d].pc \in {"get", "read"}
    <2>1. Past
      BY <1>2, <1>4 DEF DelInv
    <2>2. Verifies(d, 1) /\ call[d].pc \in {"get", "read"}
      BY <1>2, <1>4, <2>1 DEF DelInv
    <2>3. CASE d = c
      <3>1. call'[c].pc \in {"get", "read", "done"}
        BY <1>4, <2>1, <2>2, <2>3
      <3> QED BY <1>4, <2>3, <3>1 DEF Verifies, At
    <2>4. CASE d # c
      BY <2>2, <2>4
    <2> QED BY <2>3, <2>4
  <1>5. (1 \notin overlap \union raced /\ Drained /\ 1 \in DOMAIN cache.pos => Removing(1))'
    BY DEF DelInv
  <1>6. ASSUME NEW d \in Callers, 1 \in call'[d].after
        PROVE  Drained' /\ (1 \notin overlap' \union raced' => 1 \notin DOMAIN cache'.pos)
    <2>1. 1 \in call[d].after
      BY <1>6
    <2> QED BY <2>1 DEF DelInv
  <1>7. \A d \in Callers : call'[d].after \subseteq {1}
    BY DEF DelInv
  <1>8. DeletedKeyRefused'
    <2> SUFFICES ASSUME NEW d \in Callers,
                        (Done(d, "verify", "accepted") \/ Done(d, "analytics", "accepted"))',
                        call'[d].arg \in call'[d].after
                 PROVE  call'[d].arg \in overlap' \union raced'
      BY DEF DeletedKeyRefused
    <2>1. CASE d # c
      BY <2>1 DEF DelInv, DeletedKeyRefused, Done, At
    <2>2. CASE d = c
      <3>1. call[c].arg = 1 /\ 1 \in call[c].after /\ Past
        BY <2>2, DrainedPast DEF DelInv
      <3>2. Verifies(c, 1)
        BY <2>2, <3>1 DEF Verifies, Done, At
      <3>3. 1 \notin overlap => call[c].pc \in {"get", "read"}
        BY <3>1, <3>2 DEF DelInv
      <3>4. call'[c].pc = "done" /\ call'[c].res = "accepted"
        BY <2>2 DEF Done, At
      <3> QED BY <2>2, <3>1, <3>2, <3>3, <3>4
    <2> QED BY <2>1, <2>2
  <1> QED BY <1>1, <1>3, <1>4, <1>5, <1>6, <1>7, <1>8 DEF DelInv

\* The same for a step that is no progress of a deletion.
LEMMA DelPlain ==
  ASSUME TypeInv, DelInv, NEW c \in Callers,
         \A d \in Callers \ {c} : call'[d] = call[d],
         call'[c].op = call[c].op, call'[c].arg = call[c].arg, call'[c].after = call[c].after,
         call[c].pc # "done", overlap' = overlap, raced \subseteq raced',
         RowDead => RowDead',
         call[c].op = "delete" =>
            /\ call'[c].pc \in {"invalidate", "remove", "done"} /\ call'[c].res = "ok" =>
                  call[c].pc = "remove" /\ call[c].res = "ok"
            /\ call[c].pc = "remove" => call'[c].pc \in {"remove",
                   "done"} /\ call'[c].res = call[c].res,
         Past /\ 1 \notin overlap \union raced' =>
            (1 \in DOMAIN cache'.pos => 1 \in DOMAIN cache.pos /\ (Removing(1) => Removing(1)')),
         Past /\ Verifies(c, 1) /\ 1 \notin overlap /\ call[c].pc \in {"get", "read"} =>
            call'[c].pc \in {"get", "read", "done"},
         Verifies(c, 1) /\ 1 \in call[c].after /\ 1 \notin overlap \union raced
            /\ call[c].pc \in {"get",
                   "read"} => ~(call'[c].pc = "done" /\ call'[c].res = "accepted")
  PROVE  DelInv'
  <1>1. Past' => Past
    BY DEF Past, Deleting
  <1>2. Drained' <=> Drained
    BY DEF Drained, Deleting
  <1> QED BY <1>1, <1>2, DelMove, DrainedPast

\* Steps that are no part of a deletion, a Set or a look-up.
LEMMA PlainDelete ==
  ASSUME TypeInv, NEW c \in Callers, Refuse(c) \/ Step(c) \/ Fail(c),
         ~LookUp(c), ~ReadKey(c), ~SetIndex(c), ~SetAdd(c), ~SetCheck(c), ~Invalidate(c),
         ~RemoveOne(c), ~SoftDeleteAPIKey(c), ~MintKey(c)
  PROVE  /\ call'[c].op = call[c].op /\ call'[c].arg = call[c].arg
         /\ call'[c].after = call[c].after /\ call[c].pc # "done"
         /\ overlap' = overlap /\ db'.keys = db.keys
         /\ call[c].op = "delete" => /\ call[c].pc \notin {"invalidate", "remove"}
                                     /\ ~(call'[c].pc \in {"invalidate", "remove",
                                            "done"} /\ call'[c].res = "ok")
         /\ call[c].pc \in {"get", "read"} => call'[c].pc = "done" /\ call'[c].res # "accepted"
  <1>0. OnPath(call[c])
    BY DEF TypeInv, CallInv, Local
  <1>1. CASE Refuse(c)
    BY <1>0, <1>1, RefuseIs DEF Refuse, At, Ops, OnPath
  <1>2. CASE Fail(c)
    BY <1>2, FailIs DEF Fail, Fallible
  <1>5. CASE ReadByok(c)
    BY <1>0, <1>5, ReadByokIs DEF ReadByok, At, OnPath
  <1>6. CASE ReadLists(c)
    BY <1>0, <1>6, ReadListsIs DEF ReadLists, At, OnPath
  <1>7. CASE SetLock(c)
    BY <1>0, <1>7, SetLockIs DEF SetLock, At, OnPath, Surfaces
  <1>13. CASE UpdateSettings(c)
    BY <1>0, <1>13, UpdateSettingsIs DEF UpdateSettings, At, OnPath
  <1>14. CASE ReplaceByok(c)
    BY <1>0, <1>14, ReplaceByokIs DEF ReplaceByok, At, OnPath
  <1>15. CASE StoreByok(c)
    BY <1>0, <1>15, StoreByokIs DEF StoreByok, At, OnPath
  <1>16. CASE DropByok(c)
    BY <1>0, <1>16, DropByokIs DEF DropByok, At, OnPath
  <1>17. CASE SetAliases(c)
    BY <1>0, <1>17, SetAliasesIs DEF SetAliases, At, OnPath
  <1>18. CASE CheckLimit(c)
    BY <1>0, <1>18, CheckLimitIs DEF CheckLimit, At, OnPath
  <1>9. CASE ValidateKey(c)
    BY <1>0, <1>9, ValidateKeyIs DEF ValidateKey, At, OnPath
  <1>10. CASE NoteFailure(c)
    BY <1>0, <1>10, NoteFailureIs DEF NoteFailure, At, OnPath
  <1>19. CASE ListKeys(c)
    BY <1>0, <1>19, ListKeysIs DEF ListKeys, At, OnPath
  <1>21. CASE UpsertByAiandUser(c)
    BY <1>0, <1>21, UpsertByAiandUserIs DEF UpsertByAiandUser, At, OnPath
  <1>22. CASE FindInstallation(c)
    BY <1>0, <1>22, FindInstallationIs DEF FindInstallation, At, AfterEnsure, OnPath
  <1>23. CASE EnsureInstallation(c)
    BY <1>0, <1>23, EnsureInstallationIs DEF EnsureInstallation, At, AfterEnsure, OnPath
  <1>24. CASE IssueLoginSession(c)
    BY <1>0, <1>24, IssueLoginSessionIs DEF IssueLoginSession, At, OnPath
  <1>25. CASE OpenDashboard(c)
    BY <1>0, <1>25, OpenDashboardIs DEF OpenDashboard, At, OnPath
  <1>26. CASE ResolveUser(c)
    BY <1>0, <1>26, ResolveUserIs DEF ResolveUser, At, OnPath
  <1> QED BY <1>1, <1>2, <1>5, <1>6, <1>7, <1>9, <1>10, <1>13, <1>14, <1>15, <1>16, <1>17, <1>18,
             <1>19, <1>21, <1>22, <1>23, <1>24, <1>25, <1>26 DEF Step

\* DelInv is inductive, given that the index reaches what is cached.
LEMMA DelNext ==
  ASSUME TypeInv, IdxInv, DelInv, [Next]_vars
  PROVE  DelInv'
  <1>0. CacheOk(cache) /\ call \in [Callers -> CallType] /\ \A c \in Callers : Local(call[c])
    BY DEF TypeInv, CacheInv, CallInv
  <1>a. \A c \in Callers : Begin(c) \/ Refuse(c) \/ Step(c) \/ Fail(c) =>
           \A d \in Callers \ {c} : call'[d] = call[d]
    BY OthersKept
  <1>1. ASSUME NEW c \in Callers, Refuse(c) \/ Step(c) \/ Fail(c),
               ~LookUp(c), ~ReadKey(c), ~SetIndex(c), ~SetAdd(c), ~SetCheck(c), ~Invalidate(c),
               ~RemoveOne(c), ~SoftDeleteAPIKey(c), ~MintKey(c)
        PROVE  DelInv'
    <2>1. \A d \in Callers \ {c} : call'[d] = call[d]
      BY <1>1, <1>a
    <2>2. /\ call'[c].op = call[c].op /\ call'[c].arg = call[c].arg
          /\ call'[c].after = call[c].after /\ call[c].pc # "done"
          /\ overlap' = overlap /\ db'.keys = db.keys
          /\ call[c].op = "delete" => /\ call[c].pc \notin {"invalidate", "remove"}
                                      /\ ~(call'[c].pc \in {"invalidate", "remove",
                                             "done"} /\ call'[c].res = "ok")
          /\ call[c].pc \in {"get", "read"} => call'[c].pc = "done" /\ call'[c].res # "accepted"
      BY <1>1, PlainDelete
    <2>3. cache'.pos = cache.pos /\ raced' = raced /\ call[c].pc # "remove"
      BY <1>1, PlainCache
    <2>4. Removing(1) => Removing(1)'
      BY <2>1, <2>3 DEF Removing, At
    <2>5. RowDead => RowDead'
      BY <2>2 DEF RowDead
    <2> QED BY <2>1, <2>2, <2>3, <2>4, <2>5, DelPlain
  <1>2. ASSUME NEW c \in Callers, LookUp(c) \/ ReadKey(c)
        PROVE  DelInv'
    <2>1. \A d \in Callers \ {c} : call'[d] = call[d]
      BY <1>2, <1>a DEF Step
    <2>2. /\ call[c].pc \in {"get", "read"} /\ call[c].op \in Surfaces
      BY <1>0, <1>2 DEF LookUp, ReadKey, At, Local, OnPath
    <2>3. /\ call'[c].op = call[c].op /\ call'[c].arg = call[c].arg
          /\ call'[c].after = call[c].after
          /\ overlap' = overlap /\ raced' = raced /\ db' = db /\ cache'.pos = cache.pos
      BY <1>2, LookUpIs, ReadKeyIs
    <2>4. (Removing(1) => Removing(1)') /\ (RowDead => RowDead')
      BY <2>1, <2>2, <2>3 DEF Removing, At, RowDead
    <2>5. Past /\ Verifies(c, 1) /\ 1 \notin overlap => call'[c].pc \in {"get", "read", "done"}
      <3>1. CASE LookUp(c)
        BY <3>1, LookUpIs
      <3>2. CASE ReadKey(c) /\ Past /\ Verifies(c, 1)
        <4>1. GetActiveByHash(db.keys, db.insts, call[c].arg) = {}
          BY <3>2 DEF GetActiveByHash, Active, DelInv, RowDead, Verifies
        <4> QED BY <3>2, <4>1, ReadKeyIs
      <3> QED BY <1>2, <3>1, <3>2
    <2>6. Verifies(c, 1) /\ 1 \in call[c].after /\ 1 \notin overlap \union raced =>
             ~(call'[c].pc = "done" /\ call'[c].res = "accepted")
      <3>1. CASE LookUp(c)
        <4> SUFFICES ASSUME Verifies(c, 1), 1 \in call[c].after, 1 \notin overlap \union raced
                     PROVE  ~(call'[c].pc = "done" /\ call'[c].res = "accepted")
          OBVIOUS
        <4>1. 1 \notin DOMAIN cache.pos /\ call[c].arg = 1
          BY DEF DelInv, Verifies
        <4>2. Cache!Get(cache, call[c].arg) # "hit"
          BY <4>1 DEF Cache!Get
        <4> QED BY <3>1, <4>2, LookUpIs
      <3>2. CASE ReadKey(c)
        BY <3>2, ReadKeyIs
      <3> QED BY <1>2, <3>1, <3>2
    <2>7. call[c].op # "delete" /\ call[c].pc # "done"
      BY <2>2 DEF Surfaces
    <2> QED BY <2>1, <2>3, <2>4, <2>5, <2>6, <2>7, DelPlain
  <1>3. ASSUME NEW c \in Callers, SetIndex(c) \/ SetAdd(c) \/ SetCheck(c)
        PROVE  DelInv'
    <2>1. \A d \in Callers \ {c} : call'[d] = call[d]
      BY <1>3, <1>a DEF Step
    <2>2. call[c].pc \in {"index", "add", "check"} /\ call[c].op \in Surfaces /\ call[c].arg \in Nat
          /\ call[c].inst = 1
      BY <1>0, <1>3 DEF SetIndex, SetAdd, SetCheck, At, Local, OnPath, Surfaces
    <2>3. /\ call'[c].op = call[c].op /\ call'[c].arg = call[c].arg
          /\ call'[c].after = call[c].after
          /\ overlap' = overlap /\ raced \subseteq raced' /\ db' = db
      BY <1>3, SetIndexIs, SetAddIs, SetCheckIs
    <2>4. (Removing(1) => Removing(1)') /\ (RowDead => RowDead')
      BY <2>1, <2>2, <2>3 DEF Removing, At, RowDead
    <2>5. 1 \in DOMAIN cache'.pos => 1 \in DOMAIN cache.pos \/ Verifies(c, 1)
      <3>1. CASE SetIndex(c)
        <4>1. cache' = Cache!SetIndex(cache, call[c].inst, call[c].arg)
          BY <3>1, SetIndexIs
        <4> QED BY <1>0, <4>1 DEF Cache!SetIndex, CacheOk
      <3>2. CASE SetCheck(c)
        <4>1. cache' = cache \/ cache' = Cache!Unindex(cache, call[c].inst, call[c].arg)
          BY <3>2, SetCheckIs
        <4> QED BY <1>0, <4>1 DEF Cache!Unindex, CacheOk
      <3>3. CASE SetAdd(c)
        <4>1. \/ cache' = Cache!Add(cache, call[c].arg, call[c].entry)
              \/ \E v : cache' = Cache!Add(Cache!Remove(cache, v), call[c].arg, call[c].entry)
          BY <3>3 DEF SetAdd
        <4>2. Whole(call[c].entry)
          BY <1>0, <3>3 DEF SetAdd, At, Local, OnPath, Surfaces, Setting, Whole
        <4>3. ASSUME NEW v
              PROVE  CacheOk(Cache!Remove(cache, v))
                     /\ DOMAIN Cache!Remove(cache, v).pos = DOMAIN cache.pos \ {v}
          BY <1>0, RemoveOk, Zenon
        <4>4. \A x : CacheOk(x) => DOMAIN Cache!Add(x, call[c].arg, call[c].entry).pos
                                     = DOMAIN x.pos \union {call[c].arg}
          BY <2>2, <4>2, AddOk
        <4>5. 1 \in DOMAIN cache'.pos => 1 \in DOMAIN cache.pos \/ call[c].arg = 1
          BY <1>0, <4>1, <4>3, <4>4
        <4> QED BY <2>2, <4>5 DEF Verifies, At, Surfaces
      <3> QED BY <1>3, <3>1, <3>2, <3>3
    <2>6. Past /\ 1 \notin overlap => ~Verifies(c, 1)
      BY <2>2 DEF DelInv
    <2>7. call[c].op # "delete" /\ call[c].pc \notin {"done", "get", "read"}
      BY <2>2 DEF Surfaces
    <2> QED BY <2>1, <2>3, <2>4, <2>5, <2>6, <2>7, DelPlain
  <1>4. ASSUME NEW c \in Callers, RemoveOne(c)
        PROVE  DelInv'
    <2>1. \A d \in Callers \ {c} : call'[d] = call[d]
      BY <1>4, <1>a DEF Step
    <2>2. PICK h \in call[c].todo :
             /\ cache' = Cache!Remove(cache, h) /\ call'[c].todo = call[c].todo \ {h}
             /\ call'[c].pc = IF call[c].todo = {h} THEN AfterInvalidate(c) ELSE "remove"
             /\ raced' = IF h \in DOMAIN cache.pos THEN raced \union Raced(h, c) ELSE raced
      BY <1>4, RemoveOneIs
    <2>3. /\ call'[c].op = call[c].op /\ call'[c].arg = call[c].arg
          /\ call'[c].after = call[c].after
          /\ overlap' = overlap /\ db' = db /\ call'[c].res = call[c].res /\ call[c].pc = "remove"
      BY <1>4, RemoveOneIs DEF RemoveOne, At
    <2>4. DOMAIN cache'.pos = DOMAIN cache.pos \ {h} /\ raced \subseteq raced'
      BY <1>0, <2>2, RemoveOk
    <2>5. 1 \in DOMAIN cache'.pos => 1 \in DOMAIN cache.pos /\ (Removing(1) => Removing(1)')
      BY <2>1, <2>2, <2>3, <2>4 DEF Removing, At
    <2>6. call[c].op = "delete" => call'[c].pc \in {"remove", "done"}
      BY <2>2 DEF AfterInvalidate
    <2>7. RowDead => RowDead'
      BY <2>3 DEF RowDead
    <2> QED BY <2>1, <2>3, <2>4, <2>5, <2>6, <2>7, DelPlain
  <1>5. ASSUME NEW c \in Callers, Invalidate(c)
        PROVE  DelInv'
    <2>1. \A d \in Callers \ {c} : call'[d] = call[d]
      BY <1>5, <1>a DEF Step
    <2>2. /\ call'[c].op = call[c].op /\ call'[c].arg = call[c].arg
          /\ call'[c].after = call[c].after
          /\ overlap' = overlap /\ raced' = raced /\ db' = db /\ call'[c].res = call[c].res
          /\ cache' = Cache!Drain(cache, call[c].inst)
          /\ call[c].pc = "invalidate" /\ call[c].op \notin Surfaces
      BY <1>0, <1>5, InvalidateIs DEF Invalidate, At, Local, OnPath
    <2>3. /\ call'[c].todo = Cache!Tracked(cache, call[c].inst)
          /\ Cache!Tracked(cache, call[c].inst) # {} => call'[c].pc = "remove"
          /\ call[c].op = "delete" => call'[c].pc \in {"remove", "done"}
      BY <1>5, InvalidateIs DEF AfterInvalidate
    <2>4. cache'.pos = cache.pos
      BY <1>0, <2>2, DrainOk
    <2>5. RowDead => RowDead'
      BY <2>2 DEF RowDead
    <2>6. Past' => Past
      BY <2>1, <2>2 DEF Past, Deleting
    <2>7. Drained => Drained'
      BY <2>1, <2>2 DEF Drained, Deleting
    <2>8. Removing(1) => Removing(1)'
      BY <2>1, <2>2 DEF Removing, At
    <2>9. ASSUME Drained', ~Drained, 1 \notin overlap \union raced, 1 \in DOMAIN cache.pos
          PROVE  Removing(1)'
      <3>1. call[c].op = "delete"
        BY <2>1, <2>2, <2>9 DEF Drained, Deleting
      <3>2. call[c].arg = 1 /\ call[c].inst = 1 /\ Deletes(c, 1)
        BY <1>0, <2>2, <3>1 DEF Local, Deletes, At
      <3>3. \A d \in Callers : At(d, "check") => call[d].arg # 1
        <4>1. \A d \in Callers : At(d, "check") /\ call[d].arg = 1 => Verifies(d, 1)
          BY <1>0 DEF Verifies, At, Local, OnPath, Surfaces
        <4> QED BY <2>9, <3>2, <4>1 DEF DelInv
      <3>4. <<1, 1>> \in cache.index \/ Removing(1)
        BY <2>9, <3>3 DEF IdxInv
      <3>5. <<1, 1>> \in cache.index => 1 \in Cache!Tracked(cache, call[c].inst)
        BY <3>2 DEF Cache!Tracked
      <3> QED BY <2>3, <2>8, <3>4, <3>5 DEF Removing, At
    <2>10. call[c].pc \notin {"done", "get", "read"}
      BY <2>2
    <2> QED BY <2>1, <2>2, <2>4, <2>5, <2>6, <2>7, <2>8, <2>9, <2>10, DelMove
  <1>6. ASSUME NEW c \in Callers, SoftDeleteAPIKey(c)
        PROVE  DelInv'
    <2>1. \A d \in Callers \ {c} : call'[d] = call[d]
      BY <1>6, <1>a DEF Step
    <2>2. /\ call[c].pc = "softdelete" /\ call[c].op \in {"rotate", "delete"} /\ call[c].arg = 1
          /\ call[c].inst = 1 /\ db.keys \subseteq KeyRows
      BY <1>0, <1>6 DEF SoftDeleteAPIKey, At, Local, OnPath, TypeInv, DbInv, Table
    <2>3. /\ call'[c].op = call[c].op /\ call'[c].arg = call[c].arg
          /\ call'[c].after = call[c].after
          /\ overlap' = overlap /\ raced' = raced /\ cache' = cache
      BY <1>6, SoftDeleteAPIKeyIs
    <2>4. call[c].op = "delete" => call'[c].pc = "invalidate"
      BY <1>6, SoftDeleteAPIKeyIs DEF AfterSoftDelete
    <2>5. RowDead'
      <3>1. db'.keys = Kill(db.keys, SoftDeleted(db.keys, 1, 1))
        BY <1>6, <2>2, SoftDeleteAPIKeyIs
      <3>2. \A k \in KeyRows : [k EXCEPT !.live = FALSE].live = FALSE /\ k.inst = 1
        BY DEF KeyRows
      <3> QED BY <2>2, <3>1, <3>2 DEF Kill, SoftDeleted, Active, RowDead
    <2>6. Past' => Past \/ (Deletes(c, 1) /\ RowDead')
      BY <2>1, <2>2, <2>3, <2>5 DEF Past, Deleting, Deletes, At
    <2>7. Drained' <=> Drained
      BY <2>1, <2>2, <2>3, <2>4 DEF Drained, Deleting
    <2>8. Removing(1) => Removing(1)'
      BY <2>1, <2>2 DEF Removing, At
    <2>9. ~Verifies(c, 1) /\ call[c].pc # "done"
      BY <2>2 DEF Verifies
    <2> QED BY <2>1, <2>3, <2>5, <2>6, <2>7, <2>8, <2>9, DelMove
  <1>7. ASSUME NEW c \in Callers, MintKey(c)
        PROVE  DelInv'
    <2>1. \A d \in Callers \ {c} : call'[d] = call[d]
      BY <1>7, <1>a DEF Step
    <2>2. call[c].pc = "mint" /\ call[c].op \notin {"delete", "verify", "analytics"}
      BY <1>0, <1>7 DEF MintKey, At, Local, OnPath
    <2>3. /\ call'[c].op = call[c].op /\ call'[c].arg = call[c].arg
          /\ call'[c].after = call[c].after
          /\ overlap' = overlap /\ raced' = raced /\ cache' = cache
      BY <1>7, MintKeyIs
    <2>4. \A k \in db'.keys : k \in db.keys \/ k.id # 1
      BY <1>7, MintedNotOne
    <2>5. RowDead => RowDead'
      BY <2>4 DEF RowDead
    <2>6. Removing(1) => Removing(1)'
      BY <2>1, <2>2 DEF Removing, At
    <2>7. ~Verifies(c, 1) /\ call[c].pc # "done"
      BY <2>2 DEF Verifies
    <2> QED BY <2>1, <2>2, <2>3, <2>5, <2>6, <2>7, DelPlain
  <1>8. ASSUME NEW c \in Callers, Begin(c)
        PROVE  DelInv'
    <2>1. \A d \in Callers \ {c} : call'[d] = call[d]
      BY <1>8, <1>a
    <2>2. /\ call[c].pc = "idle" /\ call[c].op = "none"
          /\ call'[c].after = Deleted /\ call'[c].res = "none"
          /\ call'[c].pc \in {"get", "list", "update", "alias", "drop", "replace", "limit",
                 "session",
                              "identity", "mint"}
          /\ UNCHANGED <<db, cache, raced>> /\ overlap \subseteq overlap'
      BY <1>0, <1>8, BeginIs DEF Local, OnPath
    <2>3. \A d \in Callers \ {c} :
              /\ call'[c].op \in Surfaces /\ Deletes(d, call'[c].arg) => call'[c].arg \in overlap'
              /\ call'[c].op = "delete" /\ Verifies(d, call'[c].arg) => call'[c].arg \in overlap'
      BY <1>8, BeginIs
    <2>4. /\ call' \in [Callers -> CallType] /\ Local(call'[c])
      BY <1>8, BeginCall
    <2>5. (Past' <=> Past) /\ (Drained' <=> Drained) /\ (RowDead' <=> RowDead)
          /\ (Removing(1)' <=> Removing(1))
      BY <2>1, <2>2 DEF Past, Drained, Deleting, RowDead, Removing, At
    <2>6. \A d \in Callers \ {c} : /\ Verifies(d, 1)' <=> Verifies(d, 1)
                                   /\ Deletes(d, 1)' <=> Deletes(d, 1)
      BY <2>1 DEF Verifies, Deletes, At
    <2>7. (1 \notin overlap => \A d, e \in Callers : ~(Verifies(d, 1) /\ Deletes(e, 1)))'
      <3> SUFFICES ASSUME 1 \notin overlap', NEW d \in Callers, NEW e \in Callers,
                          Verifies(d, 1)', Deletes(e, 1)'
                   PROVE  FALSE
        OBVIOUS
      <3>1. CASE d # c /\ e # c
        BY <2>2, <2>6, <3>1 DEF DelInv
      <3>2. CASE d = c /\ e # c
        <4>1. call'[c].op \in Surfaces /\ call'[c].arg = 1 /\ Deletes(e, 1)
          BY <2>6, <3>2 DEF Verifies, Surfaces
        <4> QED BY <2>3, <3>2, <4>1
      <3>3. CASE d # c /\ e = c
        <4>1. call'[c].op = "delete" /\ call'[c].arg = 1 /\ Verifies(d, 1)
          BY <2>6, <3>3 DEF Deletes
        <4> QED BY <2>3, <3>3, <4>1
      <3>4. CASE d = c /\ e = c
        BY <3>4 DEF Verifies, Deletes
      <3> QED BY <3>1, <3>2, <3>3, <3>4
    <2>8. ASSUME 1 \notin overlap', Past', NEW d \in Callers, Verifies(d, 1)'
          PROVE  call'[d].pc \in {"get", "read"}
      <3>1. CASE d = c
        BY <2>2, <2>4, <2>8, <3>1 DEF Verifies, Local, OnPath
      <3>2. CASE d # c
        BY <2>1, <2>2, <2>5, <2>6, <2>8, <3>2 DEF DelInv
      <3> QED BY <3>1, <3>2
    <2>9. (1 \notin overlap \union raced /\ Drained /\ 1 \in DOMAIN cache.pos => Removing(1))'
      BY <2>2, <2>5 DEF DelInv
    <2>10. ASSUME NEW d \in Callers, 1 \in call'[d].after
           PROVE  Drained' /\ (1 \notin overlap' \union raced' => 1 \notin DOMAIN cache'.pos)
      <3>1. CASE d # c
        BY <2>1, <2>2, <2>5, <2>10, <3>1 DEF DelInv
      <3>2. CASE d = c
        <4>1. Drained /\ ~Removing(1)
          BY <2>2, <2>10, <3>2 DEF Deleted, Drained, Deleting, At
        <4> QED BY <2>2, <2>5, <4>1 DEF DelInv
      <3> QED BY <3>1, <3>2
    <2>11. \A d \in Callers : call'[d].after \subseteq {1}
      BY <2>1, <2>2, DeletedIsOne DEF DelInv
    <2>12. DeletedKeyRefused'
      BY <2>1, <2>2 DEF DeletedKeyRefused, DelInv, Done, At
    <2> QED BY <2>2, <2>5, <2>7, <2>8, <2>9, <2>10, <2>11, <2>12 DEF DelInv
  <1>9. CASE /\ UNCHANGED <<call, db, overlap>> /\ raced \subseteq raced'
             /\ DOMAIN cache'.pos \subseteq DOMAIN cache.pos
    BY <1>9 DEF DelInv, Past, Drained, Deleting, RowDead, Removing, At, Verifies, Deletes,
                DeletedKeyRefused, Done
  <1>10. ASSUME NEW h, Age(h) \/ AgeNegative(h)
         PROVE  DelInv'
    <2>1. UNCHANGED <<call, db, overlap>> /\ raced \subseteq raced'
      BY <1>10 DEF Age, AgeNegative
    <2>2. CASE Age(h)
      <3>1. h \in DOMAIN cache.pos
            /\ (cache' = Cache!Expire(cache, h) \/ cache' = Cache!Remove(cache, h))
        BY <2>2 DEF Age
      <3>2. DOMAIN cache'.pos \subseteq DOMAIN cache.pos
        BY <1>0, <3>1, ExpireOk, RemoveOk
      <3> QED BY <1>9, <2>1, <3>2
    <2>3. CASE AgeNegative(h)
      <3>1. cache'.pos = cache.pos
        BY <1>0, <2>3 DEF AgeNegative, CacheOk, Cache!ExpireNegative
      <3> QED BY <1>9, <2>1, <3>1
    <2> QED BY <1>10, <2>2, <2>3
  <1>11. CASE FailuresExpire \/ ForgetIdentity \/ UNCHANGED vars
    BY <1>9, <1>11 DEF FailuresExpire, ForgetIdentity, vars
  <1> QED
    BY <1>1, <1>2, <1>3, <1>4, <1>5, <1>6, <1>7, <1>8, <1>10, <1>11 DEF Next

-----------------------------------------------------------------------------
(* Identity.  A login that has its installation keeps it; a user row that   *)
(* has an e-mail address keeps it, and whatever names a user by e-mail      *)
(* names that row.                                                          *)

\* Where a login knows its installation.
Housed == {"replace", "store", "invalidate", "remove", "cookie"}

House(account, inst) == \E i \in db.insts : i.id = inst /\ i.owner = account

HomeInv ==
    /\ \A a, b \in db.accounts : a.user = b.user => a = b
    /\ \A i, j \in Active(db.insts) : i.owner = j.owner => i = j
    /\ \A s \in db.sessions : House(s.account, s.inst)
    /\ \A c \in Callers : call[c].op = "login" /\ call[c].pc \in Housed =>
          House(call[c].made, call[c].inst)

\* One row per e-mail address, and one e-mail-less row per client account.
OnePerson(users) ==
    /\ \A u, v \in users : u.email # 0 /\ u.email = v.email => u = v
    /\ \A u, v \in users : u.email = 0 /\ v.email = 0 /\ u.account = v.account => u = v

Person(users, email, id) == \E u \in users : u.email = email /\ u.id = id

PeopleInv ==
    /\ OnePerson(db.users)
    /\ \A e \in ids : \A x \in Nat : x # None /\ e[1] = <<"email", x>> => Person(db.users, x, e[2])
    /\ \A c \in Callers : Done(c, "resolve", "ok") /\ call[c].arg[1] # None =>
          Person(db.users, call[c].arg[1], call[c].made)

\* Only ResolveUser touches user rows, or finishes a resolution.
LEMMA PlainPeople ==
  ASSUME TypeInv, NEW c \in Callers, Refuse(c) \/ Step(c) \/ Fail(c),
         ~ResolveUser(c)
  PROVE  /\ db'.users = db.users /\ ids' = ids
         /\ call'[c].op = "resolve" => call'[c].res # "ok"
  <1>0. OnPath(call[c])
    BY DEF TypeInv, CallInv, Local
  <1>1. CASE Refuse(c)
    BY <1>0, <1>1, RefuseIs DEF Refuse, Ops, At, OnPath
  <1>2. CASE Fail(c)
    BY <1>0, <1>2, FailIs DEF Fail, Fallible, At, OnPath
  <1>3. CASE LookUp(c)
    BY <1>0, <1>3, LookUpIs DEF LookUp, At, OnPath, Surfaces
  <1>4. CASE ReadKey(c)
    BY <1>0, <1>4, ReadKeyIs DEF ReadKey, At, OnPath, Surfaces
  <1>5. CASE ReadByok(c)
    BY <1>0, <1>5, ReadByokIs DEF ReadByok, At, OnPath
  <1>6. CASE ReadLists(c)
    BY <1>0, <1>6, ReadListsIs DEF ReadLists, At, OnPath
  <1>7. CASE SetLock(c)
    BY <1>0, <1>7, SetLockIs DEF SetLock, At, OnPath, Surfaces
  <1>8. CASE SetIndex(c)
    BY <1>0, <1>8, SetIndexIs DEF SetIndex, At, OnPath, Surfaces
  <1>9. CASE SetAdd(c)
    BY <1>0, <1>9, SetAddIs DEF SetAdd, At, OnPath, Surfaces
  <1>10. CASE SetCheck(c)
    BY <1>0, <1>10, SetCheckIs DEF SetCheck, At, OnPath, Surfaces
  <1>11. CASE Invalidate(c)
    <2>1. call[c].pc = "invalidate"
      BY <1>0, <1>11 DEF Invalidate, At, OnPath
    <2>2. call'[c].pc \in {"remove", "cookie", "done"}
      BY <1>11, InvalidateIs DEF AfterInvalidate
    <2>3. /\ call'[c].op = call[c].op /\ call'[c].arg = call[c].arg
          /\ call'[c].inst = call[c].inst /\ call'[c].made = call[c].made
          /\ call'[c].res = call[c].res /\ UNCHANGED <<db, ids, faults>>
      BY <1>11, InvalidateIs
    <2>4. call[c].op # "resolve"
      BY <1>0, <2>1 DEF OnPath
    <2> QED BY <2>1, <2>2, <2>3, <2>4
  <1>12. CASE RemoveOne(c)
    <2>1. call[c].pc = "remove"
      BY <1>0, <1>12 DEF RemoveOne, At, OnPath
    <2>2. call'[c].pc \in {"remove", "cookie", "done"}
      BY <1>12, RemoveOneIs DEF AfterInvalidate
    <2>3. /\ call'[c].op = call[c].op /\ call'[c].arg = call[c].arg
          /\ call'[c].inst = call[c].inst /\ call'[c].made = call[c].made
          /\ call'[c].res = call[c].res /\ UNCHANGED <<db, ids, faults>>
      BY <1>12, RemoveOneIs
    <2>4. call[c].op # "resolve"
      BY <1>0, <2>1 DEF OnPath
    <2> QED BY <2>1, <2>2, <2>3, <2>4
  <1>13. CASE ListKeys(c)
    BY <1>0, <1>13, ListKeysIs DEF ListKeys, At, OnPath
  <1>14. CASE SoftDeleteAPIKey(c)
    <2>1. call[c].op \in {"rotate", "delete"} /\ call[c].pc = "softdelete"
      BY <1>0, <1>14 DEF SoftDeleteAPIKey, At, OnPath
    <2>2. call'[c].pc \in {"invalidate", "mint", "done"}
      BY <1>14, SoftDeleteAPIKeyIs DEF AfterSoftDelete
    <2>3. /\ call'[c].op = call[c].op /\ call'[c].arg = call[c].arg
          /\ db'.accounts = db.accounts /\ db'.insts = db.insts /\ db'.sessions = db.sessions
          /\ db'.users = db.users /\ db'.ext = db.ext /\ UNCHANGED <<ids, faults>>
      BY <1>14, SoftDeleteAPIKeyIs
    <2> QED BY <2>1, <2>2, <2>3
  <1>15. CASE MintKey(c)
    <2>1. call[c].op \in {"rotate", "playground", "issue"} /\ call[c].pc = "mint"
      BY <1>0, <1>15 DEF MintKey, At, OnPath
    <2> QED BY <1>15, <2>1, MintKeyIs
  <1>16. CASE UpdateSettings(c)
    BY <1>0, <1>16, UpdateSettingsIs DEF UpdateSettings, At, OnPath
  <1>17. CASE ReplaceByok(c)
    BY <1>0, <1>17, ReplaceByokIs DEF ReplaceByok, At, OnPath
  <1>18. CASE StoreByok(c)
    BY <1>0, <1>18, StoreByokIs DEF StoreByok, At, OnPath
  <1>19. CASE DropByok(c)
    BY <1>0, <1>19, DropByokIs DEF DropByok, At, OnPath
  <1>20. CASE SetAliases(c)
    BY <1>0, <1>20, SetAliasesIs DEF SetAliases, At, OnPath
  <1>21. CASE CheckLimit(c)
    BY <1>0, <1>21, CheckLimitIs DEF CheckLimit, At, OnPath
  <1>22. CASE ValidateKey(c)
    BY <1>0, <1>22, ValidateKeyIs DEF ValidateKey, At, OnPath
  <1>23. CASE NoteFailure(c)
    BY <1>0, <1>23, NoteFailureIs DEF NoteFailure, At, OnPath
  <1>24. CASE UpsertByAiandUser(c)
    BY <1>0, <1>24, UpsertByAiandUserIs DEF UpsertByAiandUser, At, OnPath
  <1>25. CASE FindInstallation(c)
    BY <1>0, <1>25, FindInstallationIs DEF FindInstallation, At, OnPath, AfterEnsure
  <1>26. CASE EnsureInstallation(c)
    BY <1>0, <1>26, EnsureInstallationIs DEF EnsureInstallation, At, OnPath, AfterEnsure
  <1>27. CASE IssueLoginSession(c)
    BY <1>0, <1>27, IssueLoginSessionIs DEF IssueLoginSession, At, OnPath
  <1>28. CASE OpenDashboard(c)
    BY <1>0, <1>28, OpenDashboardIs DEF OpenDashboard, At, OnPath
  <1> QED BY <1>1, <1>2, <1>3, <1>4, <1>5, <1>6, <1>7, <1>8, <1>9, <1>10, <1>11, <1>12,
             <1>13, <1>14, <1>15, <1>16, <1>17, <1>18, <1>19, <1>20, <1>21, <1>22, <1>23,
             <1>24, <1>25, <1>26, <1>27, <1>28 DEF Step

\* Adopting, refreshing or adding a row keeps one row per address, and every
\* address keeps the id it had.
LEMMA EmailUpsert ==
  ASSUME NEW t, t \subseteq UserRows, OnePerson(t),
         NEW email \in Nat \ {0}, NEW account \in Nat
  PROVE  /\ OnePerson(UpsertUserByEmail(t, 1, email, account))
         /\ \A x \in Nat \ {0} : \A id : Person(t, x, id) =>
               Person(UpsertUserByEmail(t, 1, email, account), x, id)
  <1> DEFINE named == { u \in t : u.inst = 1 /\ u.email = email }
             orphan == { u \in t : u.inst = 1 /\ u.email = 0 /\ account # 0 /\ u.account = account }
             s == UpsertUserByEmail(t, 1, email, account)
             row == [id |-> Fresh(t), inst |-> 1, email |-> email, account |-> account]
  <1>0. \A u \in t : u.inst = 1 /\ u.email \in Nat
    BY DEF UserRows
  <1>1. CASE named = {} /\ orphan = {}
    <2>1. s = t \union {row}
      BY <1>1 DEF UpsertUserByEmail
    <2>2. row.email = email /\ \A u \in t : u.email # email
      BY <1>0, <1>1
    <2> HIDE DEF s, row
    <2>3. OnePerson(s)
      BY <2>1, <2>2 DEF OnePerson
    <2>4. \A x \in Nat \ {0} : \A id : Person(t, x, id) => Person(s, x, id)
      BY <2>1 DEF Person
    <2> QED BY <2>3, <2>4 DEF s
  <1>2. CASE named # {}
    <2>1. PICK n \in t : n.email = email
      BY <1>2
    <2>2. named = {n}
      BY <1>0, <2>1 DEF OnePerson
    <2> DEFINE new == [n EXCEPT !.account = IF account = 0 THEN n.account ELSE account]
    <2>3. s = (t \ {n}) \union {new}
      BY <1>2, <2>2 DEF UpsertUserByEmail
    <2>4. new.email = email /\ new.id = n.id
      BY <2>1 DEF UserRows
    <2>5. \A u \in t \ {n} : u.email # email
      BY <2>1 DEF OnePerson
    <2> HIDE DEF s, new
    <2>6. OnePerson(s)
      BY <2>3, <2>4, <2>5 DEF OnePerson
    <2>7. \A x \in Nat \ {0} : \A id : Person(t, x, id) => Person(s, x, id)
      BY <2>1, <2>3, <2>4 DEF Person
    <2> QED BY <2>6, <2>7 DEF s
  <1>3. CASE named = {} /\ orphan # {}
    <2>1. PICK o \in t : o.email = 0 /\ o.account = account /\ account # 0
      BY <1>3
    <2>2. orphan = {o}
      BY <1>0, <2>1 DEF OnePerson
    <2> DEFINE new == [o EXCEPT !.email = email]
    <2>3. s = (t \ {o}) \union {new}
      BY <1>3, <2>2 DEF UpsertUserByEmail
    <2>4. new.email = email /\ \A u \in t : u.email # email
      BY <1>0, <1>3, <2>1 DEF UserRows
    <2> HIDE DEF s, new
    <2>6. OnePerson(s)
      BY <2>3, <2>4 DEF OnePerson
    <2>7. \A x \in Nat \ {0} : \A id : Person(t, x, id) => Person(s, x, id)
      BY <2>1, <2>3 DEF Person
    <2> QED BY <2>6, <2>7 DEF s
  <1> QED BY <1>1, <1>2, <1>3

\* A new e-mail-less row is the only one of its client account.
LEMMA AccountUpsert ==
  ASSUME NEW t, t \subseteq UserRows, OnePerson(t), NEW account \in Nat
  PROVE  /\ OnePerson(UpsertUserByAccount(t, 1, account))
         /\ \A x : \A id : Person(t, x, id) => Person(UpsertUserByAccount(t, 1, account), x, id)
  <1> DEFINE s == UpsertUserByAccount(t, 1, account)
             row == [id |-> Fresh(t), inst |-> 1, email |-> 0, account |-> account]
  <1>0. \A u \in t : u.inst = 1
    BY DEF UserRows
  <1>1. CASE \E u \in t : u.inst = 1 /\ u.email = 0 /\ u.account = account
    BY <1>1 DEF UpsertUserByAccount
  <1>2. CASE ~\E u \in t : u.inst = 1 /\ u.email = 0 /\ u.account = account
    <2>1. s = t \union {row}
      BY <1>2 DEF UpsertUserByAccount
    <2>2. row.email = 0 /\ row.account = account
      OBVIOUS
    <2> HIDE DEF s, row
    <2>3. OnePerson(s)
      BY <1>0, <1>2, <2>1, <2>2 DEF OnePerson
    <2>4. \A x : \A id : Person(t, x, id) => Person(s, x, id)
      BY <2>1 DEF Person
    <2> QED BY <2>3, <2>4 DEF s
  <1> QED BY <1>1, <1>2

\* What ResolveUser does to the tables and what it answers.
LEMMA ResolveUserDoes ==
  ASSUME TypeInv, PeopleInv, NEW c \in Callers, ResolveUser(c)
  PROVE  /\ OnePerson(db'.users)
         /\ \A x \in Nat \ {0} : \A id : Person(db.users, x, id) => Person(db'.users, x, id)
         /\ call[c].arg[1] # None => Person(db'.users, call[c].arg[1], call'[c].made)
         /\ \A e \in ids' : e \in ids \/ (e[1] = Identity(call[c].arg) /\ e[2] = call'[c].made)
  <1>0. /\ call \in [Callers -> CallType]
        /\ db = [accounts |-> db.accounts, insts |-> db.insts, keys |-> db.keys, ext |-> db.ext,
                 sessions |-> db.sessions, users |-> db.users]
        /\ db.users \subseteq UserRows /\ OnePerson(db.users)
    BY DEF TypeInv, CallInv, DbInv, Table, PeopleInv
  <1>1. call[c].arg \in Nat \X Nat /\ call[c].inst = 1
    BY DEF TypeInv, CallInv, Local, OnPath, ResolveUser, At
  <1> DEFINE id == Identity(call[c].arg)
             email == call[c].arg[1]
             account == call[c].arg[2]
             users == IF email # None THEN UpsertUserByEmail(db.users, call[c].inst, email, account)
                      ELSE UpsertUserByAccount(db.users, call[c].inst, account)
  <1>2. email \in Nat /\ account \in Nat
    BY <1>1
  <1>3. CASE \E e \in ids : e[1] = id
    <2>1. PICK e \in ids : e[1] = id /\ call' = [call EXCEPT ![c].made = e[2], ![c].pc = "done",
              ![c].res = "ok"]
                           /\ UNCHANGED <<db, ids>>
      BY <1>3 DEF ResolveUser
    <2>2. call'[c].made = e[2]
      BY <1>0, <2>1 DEF CallType
    <2>3. email # None => e[1] = <<"email", email>>
      BY <2>1 DEF Identity
    <2>4. email # None => Person(db.users, email, e[2])
      BY <1>2, <2>3 DEF PeopleInv
    <2> QED BY <1>0, <2>1, <2>2, <2>4
  <1>4. CASE ~\E e \in ids : e[1] = id
    <2>1. PICK u \in users :
              /\ u.email = email
              /\ db' = [db EXCEPT !.users = users]
              /\ ids' = ids \union {<<id, u.id>>}
              /\ call' = [call EXCEPT ![c].made = u.id, ![c].pc = "done", ![c].res = "ok"]
      BY <1>4 DEF ResolveUser
    <2>2. db'.users = users
      BY <1>0, <2>1
    <2>3. call'[c].made = u.id
      BY <1>0, <2>1 DEF CallType
    <2>4. OnePerson(users) /\ \A x \in Nat \ {0} : \A n : Person(db.users, x, n) => Person(users,
              x, n)
      BY <1>0, <1>1, <1>2, EmailUpsert, AccountUpsert DEF None
    <2>5. Person(users, email, u.id)
      BY <2>1 DEF Person
    <2>6. \A e \in ids' : e \in ids \/ (e[1] = id /\ e[2] = call'[c].made)
      BY <2>1, <2>3
    <2> HIDE DEF users, email, account, id
    <2>7. /\ OnePerson(db'.users)
          /\ \A x \in Nat \ {0} : \A n : Person(db.users, x, n) => Person(db'.users, x, n)
          /\ Person(db'.users, email, call'[c].made)
      BY <2>2, <2>3, <2>4, <2>5
    <2> QED BY <2>6, <2>7 DEF email, id
  <1> QED BY <1>3, <1>4

\* PeopleInv is inductive: no statement changes or drops an address.
LEMMA PeopleNext ==
  ASSUME TypeInv, PeopleInv, [Next]_vars
  PROVE  PeopleInv'
  <1>0. /\ call \in [Callers -> CallType]
        /\ \A d \in Callers : call[d].op = "resolve" => call[d].arg \in Nat \X Nat
    BY DEF TypeInv, CallInv, Local
  <1>1. ASSUME NEW c \in Callers, Begin(c) \/ Refuse(c) \/ Step(c) \/ Fail(c), ~ResolveUser(c),
               db'.users = db.users, ids' = ids, call'[c].op = "resolve" => call'[c].res # "ok"
        PROVE  PeopleInv'
    <2>1. \A d \in Callers \ {c} : call'[d] = call[d]
      BY <1>1, OthersKept
    <2> QED BY <1>1, <2>1 DEF PeopleInv, Done, At
  <1>2. ASSUME NEW c \in Callers, Refuse(c) \/ Step(c) \/ Fail(c), ~ResolveUser(c)
        PROVE  PeopleInv'
    <2>1. db'.users = db.users /\ ids' = ids /\ (call'[c].op = "resolve" => call'[c].res # "ok")
      BY <1>2, PlainPeople
    <2> QED BY <1>1, <1>2, <2>1
  <1>3. ASSUME NEW c \in Callers, Begin(c)
        PROVE  PeopleInv'
    <2>1. call'[c].res # "ok" /\ UNCHANGED <<db, ids>>
      BY <1>3, BeginIs
    <2>2. ~ResolveUser(c)
      BY <1>3 DEF Begin, ResolveUser, At
    <2> QED BY <1>1, <1>3, <2>1, <2>2
  <1>4. ASSUME NEW c \in Callers, ResolveUser(c)
        PROVE  PeopleInv'
    <2>1. \A d \in Callers \ {c} : call'[d] = call[d]
      BY <1>4, OthersKept DEF Step
    <2>2. /\ OnePerson(db'.users)
          /\ \A x \in Nat \ {0} : \A id : Person(db.users, x, id) => Person(db'.users, x, id)
          /\ call[c].arg[1] # None => Person(db'.users, call[c].arg[1], call'[c].made)
          /\ \A e \in ids' : e \in ids \/ (e[1] = Identity(call[c].arg) /\ e[2] = call'[c].made)
      BY <1>4, ResolveUserDoes
    <2>3. call'[c].op = call[c].op /\ call'[c].arg = call[c].arg /\ call[c].op = "resolve"
      BY <1>4, ResolveUserIs DEF TypeInv, CallInv, Local, OnPath, ResolveUser, At
    <2>4. ASSUME NEW e \in ids', NEW x \in Nat, x # None, e[1] = <<"email", x>>
          PROVE  Person(db'.users, x, e[2])
      <3>1. CASE e \in ids
        BY <2>2, <2>4, <3>1 DEF PeopleInv, None
      <3>2. CASE e[1] = Identity(call[c].arg) /\ e[2] = call'[c].made
        <4>1. call[c].arg[1] # None /\ call[c].arg[1] = x
          BY <2>4, <3>2 DEF Identity
        <4> QED BY <2>2, <3>2, <4>1
      <3> QED BY <2>2, <3>1, <3>2
    <2>5. ASSUME NEW d \in Callers, Done(d, "resolve", "ok")', call'[d].arg[1] # None
          PROVE  Person(db'.users, call'[d].arg[1], call'[d].made)
      <3>1. CASE d = c
        BY <2>2, <2>3, <2>5, <3>1
      <3>2. CASE d # c
        <4>1. call'[d] = call[d] /\ Person(db.users, call[d].arg[1], call[d].made)
          BY <2>1, <2>5, <3>2 DEF PeopleInv, Done, At
        <4>2. call[d].arg[1] \in Nat \ {0}
          BY <1>0, <2>5, <4>1 DEF Done, None
        <4> QED BY <2>2, <4>1, <4>2
      <3> QED BY <3>1, <3>2
    <2> QED BY <2>2, <2>4, <2>5 DEF PeopleInv
  <1>5. CASE UNCHANGED <<db, call>> /\ ids' \subseteq ids
    BY <1>5 DEF PeopleInv, Done, At
  <1> QED
    BY <1>2, <1>3, <1>4, <1>5
    DEF Next, vars, Age, AgeNegative, FailuresExpire, ForgetIdentity

\* Steps that touch no account, installation or session.
LEMMA PlainHome ==
  ASSUME TypeInv, NEW c \in Callers, Refuse(c) \/ Step(c) \/ Fail(c),
         ~UpdateSettings(c), ~UpsertByAiandUser(c), ~FindInstallation(c), ~EnsureInstallation(c),
         ~IssueLoginSession(c)
  PROVE  /\ call'[c].op = call[c].op
         /\ db'.accounts = db.accounts /\ db'.insts = db.insts /\ db'.sessions = db.sessions
         /\ call[c].op = "login" /\ call'[c].pc \in Housed =>
              call[c].pc \in Housed /\ call'[c].inst = call[c].inst /\ call'[c].made = call[c].made
  <1>0. OnPath(call[c])
    BY DEF TypeInv, CallInv, Local
  <1>1. CASE Refuse(c)
    BY <1>0, <1>1, RefuseIs DEF Refuse, Ops, At, OnPath, Housed
  <1>2. CASE Fail(c)
    BY <1>0, <1>2, FailIs DEF Fail, Fallible, At, OnPath, Housed
  <1>3. CASE LookUp(c)
    BY <1>0, <1>3, LookUpIs DEF LookUp, At, OnPath, Surfaces, Housed
  <1>4. CASE ReadKey(c)
    BY <1>0, <1>4, ReadKeyIs DEF ReadKey, At, OnPath, Surfaces, Housed
  <1>5. CASE ReadByok(c)
    BY <1>0, <1>5, ReadByokIs DEF ReadByok, At, OnPath, Housed
  <1>6. CASE ReadLists(c)
    BY <1>0, <1>6, ReadListsIs DEF ReadLists, At, OnPath, Housed
  <1>7. CASE SetLock(c)
    BY <1>0, <1>7, SetLockIs DEF SetLock, At, OnPath, Surfaces, Housed
  <1>8. CASE SetIndex(c)
    BY <1>0, <1>8, SetIndexIs DEF SetIndex, At, OnPath, Surfaces, Housed
  <1>9. CASE SetAdd(c)
    BY <1>0, <1>9, SetAddIs DEF SetAdd, At, OnPath, Surfaces, Housed
  <1>10. CASE SetCheck(c)
    BY <1>0, <1>10, SetCheckIs DEF SetCheck, At, OnPath, Surfaces, Housed
  <1>11. CASE Invalidate(c)
    <2>1. call[c].pc = "invalidate"
      BY <1>0, <1>11 DEF Invalidate, At, OnPath
    <2>2. call'[c].pc \in {"remove", "cookie", "done"}
      BY <1>11, InvalidateIs DEF AfterInvalidate
    <2>3. /\ call'[c].op = call[c].op /\ call'[c].arg = call[c].arg
          /\ call'[c].inst = call[c].inst /\ call'[c].made = call[c].made
          /\ call'[c].res = call[c].res /\ UNCHANGED <<db, ids, faults>>
      BY <1>11, InvalidateIs
    <2>4. call[c].op # "resolve"
      BY <1>0, <2>1 DEF OnPath
    <2> QED BY <2>1, <2>2, <2>3, <2>4 DEF Housed, At
  <1>12. CASE RemoveOne(c)
    <2>1. call[c].pc = "remove"
      BY <1>0, <1>12 DEF RemoveOne, At, OnPath
    <2>2. call'[c].pc \in {"remove", "cookie", "done"}
      BY <1>12, RemoveOneIs DEF AfterInvalidate
    <2>3. /\ call'[c].op = call[c].op /\ call'[c].arg = call[c].arg
          /\ call'[c].inst = call[c].inst /\ call'[c].made = call[c].made
          /\ call'[c].res = call[c].res /\ UNCHANGED <<db, ids, faults>>
      BY <1>12, RemoveOneIs
    <2>4. call[c].op # "resolve"
      BY <1>0, <2>1 DEF OnPath
    <2> QED BY <2>1, <2>2, <2>3, <2>4 DEF Housed, At
  <1>13. CASE ListKeys(c)
    BY <1>0, <1>13, ListKeysIs DEF ListKeys, At, OnPath, Housed
  <1>14. CASE SoftDeleteAPIKey(c)
    <2>1. call[c].op \in {"rotate", "delete"} /\ call[c].pc = "softdelete"
      BY <1>0, <1>14 DEF SoftDeleteAPIKey, At, OnPath
    <2>2. call'[c].pc \in {"invalidate", "mint", "done"}
      BY <1>14, SoftDeleteAPIKeyIs DEF AfterSoftDelete
    <2>3. /\ call'[c].op = call[c].op /\ call'[c].arg = call[c].arg
          /\ db'.accounts = db.accounts /\ db'.insts = db.insts /\ db'.sessions = db.sessions
          /\ db'.users = db.users /\ db'.ext = db.ext /\ UNCHANGED <<ids, faults>>
      BY <1>14, SoftDeleteAPIKeyIs
    <2> QED BY <2>1, <2>2, <2>3 DEF Housed
  <1>15. CASE MintKey(c)
    <2>1. call[c].op \in {"rotate", "playground", "issue"} /\ call[c].pc = "mint"
      BY <1>0, <1>15 DEF MintKey, At, OnPath
    <2> QED BY <1>15, <2>1, MintKeyIs DEF Housed
  <1>16. CASE ReplaceByok(c)
    BY <1>0, <1>16, ReplaceByokIs DEF ReplaceByok, At, OnPath, Housed
  <1>17. CASE StoreByok(c)
    BY <1>0, <1>17, StoreByokIs DEF StoreByok, At, OnPath, Housed
  <1>18. CASE DropByok(c)
    BY <1>0, <1>18, DropByokIs DEF DropByok, At, OnPath, Housed
  <1>19. CASE SetAliases(c)
    BY <1>0, <1>19, SetAliasesIs DEF SetAliases, At, OnPath, Housed
  <1>20. CASE CheckLimit(c)
    BY <1>0, <1>20, CheckLimitIs DEF CheckLimit, At, OnPath, Housed
  <1>21. CASE ValidateKey(c)
    BY <1>0, <1>21, ValidateKeyIs DEF ValidateKey, At, OnPath, Housed
  <1>22. CASE NoteFailure(c)
    BY <1>0, <1>22, NoteFailureIs DEF NoteFailure, At, OnPath, Housed
  <1>23. CASE OpenDashboard(c)
    BY <1>0, <1>23, OpenDashboardIs DEF OpenDashboard, At, OnPath, Housed
  <1>24. CASE ResolveUser(c)
    BY <1>0, <1>24, ResolveUserIs DEF ResolveUser, At, OnPath, Housed
  <1> QED BY <1>1, <1>2, <1>3, <1>4, <1>5, <1>6, <1>7, <1>8, <1>9, <1>10, <1>11, <1>12,
             <1>13, <1>14, <1>15, <1>16, <1>17, <1>18, <1>19, <1>20, <1>21, <1>22, <1>23,
             <1>24 DEF Step

\* A settings update rewrites one column: ids, owners and liveness stay.
LEMMA UpdateKeeps ==
  ASSUME NEW t, t \subseteq InstRows, NEW id
  PROVE  /\ \A i \in t : \E j \in UpdateInstallation(t, id) : j.id = i.id /\ j.owner = i.owner
         /\ (\A i, j \in Active(t) : i.owner = j.owner => i = j) =>
               \A i, j \in Active(UpdateInstallation(t, id)) : i.owner = j.owner => i = j
  <1> DEFINE f == [i \in t |-> IF i.id = id /\ i.live THEN [i EXCEPT !.settings = @ + 1] ELSE i]
  <1>1. UpdateInstallation(t, id) = { f[i] : i \in t }
    BY DEF UpdateInstallation
  <1>2. \A i \in t : f[i].id = i.id /\ f[i].owner = i.owner /\ f[i].live = i.live
    BY DEF InstRows
  <1> HIDE DEF f
  <1>3. \A i \in t : \E j \in UpdateInstallation(t, id) : j.id = i.id /\ j.owner = i.owner
    BY <1>1, <1>2
  <1>4. ASSUME \A i, j \in Active(t) : i.owner = j.owner => i = j,
               NEW x \in Active(UpdateInstallation(t, id)),
               NEW y \in Active(UpdateInstallation(t, id)), x.owner = y.owner
        PROVE  x = y
    <2>1. PICK i \in t : x = f[i]
      BY <1>1 DEF Active
    <2>2. PICK j \in t : y = f[j]
      BY <1>1 DEF Active
    <2>3. i \in Active(t) /\ j \in Active(t) /\ i.owner = j.owner
      BY <1>2, <1>4, <2>1, <2>2 DEF Active
    <2> QED BY <1>4, <2>1, <2>2, <2>3
  <1> QED BY <1>3, <1>4

\* Nothing of a login's home is lost when the tables only grow.
LEMMA HomeStep ==
  ASSUME HomeInv, NEW c \in Callers, \A d \in Callers \ {c} : call'[d] = call[d],
         \A a, b \in db'.accounts : a.user = b.user => a = b,
         \A i, j \in Active(db'.insts) : i.owner = j.owner => i = j,
         \A i \in db.insts : \E j \in db'.insts : j.id = i.id /\ j.owner = i.owner,
         \A s \in db'.sessions : s \in db.sessions \/ House(s.account, s.inst),
         call'[c].op = "login" /\ call'[c].pc \in Housed =>
            \E i \in db'.insts : i.id = call'[c].inst /\ i.owner = call'[c].made
  PROVE  HomeInv'
  <1>1. ASSUME NEW account, NEW inst, House(account, inst)
        PROVE  \E i \in db'.insts : i.id = inst /\ i.owner = account
    BY <1>1 DEF House
  <1>2. \A s \in db'.sessions : \E i \in db'.insts : i.id = s.inst /\ i.owner = s.account
    BY <1>1 DEF HomeInv
  <1>3. \A d \in Callers : call'[d].op = "login" /\ call'[d].pc \in Housed =>
           \E i \in db'.insts : i.id = call'[d].inst /\ i.owner = call'[d].made
    BY <1>1 DEF HomeInv
  <1> QED BY <1>2, <1>3 DEF HomeInv, House

\* HomeInv is inductive.
LEMMA HomeNext ==
  ASSUME TypeInv, HomeInv, [Next]_vars
  PROVE  HomeInv'
  <1>0. /\ call \in [Callers -> CallType] /\ \A d \in Callers : OnPath(call[d])
        /\ db.insts \subseteq InstRows /\ db.accounts \subseteq AccountRows
    BY DEF TypeInv, CallInv, Local, DbInv, Table
  <1>a. /\ \A a, b \in db.accounts : a.user = b.user => a = b
        /\ \A i, j \in Active(db.insts) : i.owner = j.owner => i = j
    BY DEF HomeInv
  <1>b. \A c \in Callers : (Begin(c) \/ Refuse(c) \/ Step(c) \/ Fail(c)) =>
          \A d \in Callers \ {c} : call'[d] = call[d]
    BY OthersKept
  <1>c. /\ \A i \in db.insts : \E j \in db.insts : j.id = i.id /\ j.owner = i.owner
    OBVIOUS
  <1>1. ASSUME NEW c \in Callers, Begin(c) \/ Refuse(c) \/ Step(c) \/ Fail(c),
               db'.accounts = db.accounts, db'.insts = db.insts, db'.sessions = db.sessions,
               call'[c].op = "login" /\ call'[c].pc \in Housed => House(call'[c].made,
                   call'[c].inst)
        PROVE  HomeInv'
    BY <1>a, <1>b, <1>c, <1>1, HomeStep DEF House
  <1>2. ASSUME NEW c \in Callers, Refuse(c) \/ Step(c) \/ Fail(c),
               ~UpdateSettings(c), ~UpsertByAiandUser(c), ~FindInstallation(c),
               ~EnsureInstallation(c), ~IssueLoginSession(c)
        PROVE  HomeInv'
    <2>1. /\ call'[c].op = call[c].op
          /\ db'.accounts = db.accounts /\ db'.insts = db.insts /\ db'.sessions = db.sessions
          /\ call[c].op = "login" /\ call'[c].pc \in Housed =>
               call[c].pc \in Housed /\ call'[c].inst = call[c].inst /\ call'[c].made = call[c].made
      BY <1>2, PlainHome
    <2>2. call'[c].op = "login" /\ call'[c].pc \in Housed => House(call'[c].made, call'[c].inst)
      BY <2>1 DEF HomeInv
    <2> QED BY <1>1, <1>2, <2>1, <2>2
  <1>3. ASSUME NEW c \in Callers, UpdateSettings(c)
        PROVE  HomeInv'
    <2>1. /\ db'.accounts = db.accounts /\ db'.sessions = db.sessions
          /\ db'.insts = UpdateInstallation(db.insts, call[c].inst) /\ call'[c].op = call[c].op
      BY <1>3, UpdateSettingsIs
    <2>2. call'[c].op # "login"
      BY <1>0, <1>3, <2>1 DEF OnPath, UpdateSettings, At
    <2>3. /\ \A i \in db.insts : \E j \in db'.insts : j.id = i.id /\ j.owner = i.owner
          /\ \A i, j \in Active(db'.insts) : i.owner = j.owner => i = j
      BY <1>0, <1>a, <2>1, UpdateKeeps
    <2>4. \A d \in Callers \ {c} : call'[d] = call[d]
      BY <1>3, <1>b DEF Step
    <2> QED BY <1>a, <2>1, <2>2, <2>3, <2>4, HomeStep
  <1>4. ASSUME NEW c \in Callers, UpsertByAiandUser(c)
        PROVE  HomeInv'
    <2>1. /\ db'.accounts = UpsertAccount(db.accounts, call[c].arg) /\ db'.sessions = db.sessions
          /\ db'.insts = db.insts /\ call'[c].pc = "find"
      BY <1>4, UpsertByAiandUserIs
    <2>2. \A a, b \in db'.accounts : a.user = b.user => a = b
      BY <1>a, <2>1 DEF UpsertAccount
    <2>3. \A d \in Callers \ {c} : call'[d] = call[d]
      BY <1>4, <1>b DEF Step
    <2>4. call'[c].pc \notin Housed
      BY <2>1 DEF Housed
    <2> QED BY <1>a, <1>c, <2>1, <2>2, <2>3, <2>4, HomeStep
  <1>5. ASSUME NEW c \in Callers, FindInstallation(c)
        PROVE  HomeInv'
    <2>1. UNCHANGED db
      BY <1>5 DEF FindInstallation
    <2>2. \/ \E i \in ListInstallations(db.insts, call[c].made) :
                call'[c].inst = i.id /\ call'[c].made = call[c].made
          \/ call'[c].pc \in {"create", "done"}
      BY <1>5, FindInstallationIs
    <2>3. call'[c].pc \in Housed => House(call'[c].made, call'[c].inst)
      BY <2>2 DEF ListInstallations, Active, House, Housed
    <2> QED BY <1>1, <1>5, <2>1, <2>3 DEF Step
  <1>6. ASSUME NEW c \in Callers, EnsureInstallation(c)
        PROVE  HomeInv'
    <2> DEFINE row == CreateInstallation(db.insts, call[c].made)
    <2>1. /\ db'.accounts = db.accounts /\ db'.sessions = db.sessions
          /\ db'.insts = db.insts \/ db'.insts = db.insts \union row
      BY <1>6, EnsureInstallationIs
    <2>2. \/ /\ \E i \in row : call'[c].inst = i.id /\ call'[c].made = call[c].made
             /\ db'.insts = db.insts \union row
          \/ call'[c].pc = "refind"
      BY <1>6, EnsureInstallationIs
    <2>3. \A i \in row : i.owner = call[c].made
      BY DEF CreateInstallation
    <2>4. call'[c].pc \in Housed =>
             \E i \in db'.insts : i.id = call'[c].inst /\ i.owner = call'[c].made
      BY <2>1, <2>2, <2>3 DEF Housed
    <2>5. ASSUME NEW i \in Active(db'.insts), NEW j \in Active(db'.insts), i.owner = j.owner
          PROVE  i = j
      <3>1. ASSUME NEW k \in row
            PROVE  row = {k} /\ \A l \in Active(db.insts) : l.owner # k.owner
        <4>1. ~\E l \in Active(db.insts) : l.owner = call[c].made
          BY <3>1 DEF CreateInstallation
        <4>2. row = {[id |-> Fresh(db.insts), owner |-> call[c].made, settings |-> 0,
                  live |-> TRUE]}
          BY <4>1 DEF CreateInstallation
        <4> QED BY <2>3, <4>1, <4>2
      <3>2. (i \in Active(db.insts) \/ i \in row) /\ (j \in Active(db.insts) \/ j \in row)
        BY <2>1, <2>5 DEF Active
      <3> HIDE DEF row
      <3> QED BY <1>a, <2>5, <3>1, <3>2
    <2>6. \A d \in Callers \ {c} : call'[d] = call[d]
      BY <1>6, <1>b DEF Step
    <2> QED BY <1>a, <2>1, <2>4, <2>5, <2>6, HomeStep
  <1>7. ASSUME NEW c \in Callers, IssueLoginSession(c)
        PROVE  HomeInv'
    <2>1. /\ db'.accounts = db.accounts /\ db'.insts = db.insts /\ call'[c].pc = "done"
          /\ db'.sessions = InsertSession(db.sessions, call[c].made, call[c].inst)
      BY <1>7, IssueLoginSessionIs
    <2>2. House(call[c].made, call[c].inst)
      BY <1>0, <1>7 DEF HomeInv, OnPath, IssueLoginSession, At, Housed
    <2>3. \A s \in db'.sessions : s \in db.sessions \/ House(s.account, s.inst)
      BY <2>1, <2>2 DEF InsertSession
    <2>4. \A d \in Callers \ {c} : call'[d] = call[d]
      BY <1>7, <1>b DEF Step
    <2>5. call'[c].pc \notin Housed
      BY <2>1 DEF Housed
    <2> QED BY <1>a, <1>c, <2>1, <2>3, <2>4, <2>5, HomeStep
  <1>8. ASSUME NEW c \in Callers, Begin(c)
        PROVE  HomeInv'
    <2>1. UNCHANGED db /\ ~(call'[c].op = "login" /\ call'[c].pc \in Housed)
      BY <1>8, BeginIs DEF Housed
    <2> QED BY <1>1, <1>8, <2>1
  <1>9. CASE UNCHANGED <<db, call>>
    BY <1>9 DEF HomeInv, House
  <1> QED
    BY <1>2, <1>3, <1>4, <1>5, <1>6, <1>7, <1>8, <1>9
    DEF Next, vars, Age, AgeNegative, FailuresExpire, ForgetIdentity

-----------------------------------------------------------------------------
(* Provider keys.  A call that has stored one finds it, or whoever deleted  *)
(* it is about to store another.                                            *)

Stored(c) ==
    /\ call[c].op \in {"byok", "login"}
    /\ call[c].pc \in {"invalidate", "remove", "cookie"} \/ (At(c, "done") /\ call[c].res = "ok")

ByokInv ==
    faults = 0 /\ (\A d \in Callers : call[d].op # "dropByok") =>
        \A c \in Callers : Stored(c) =>
            \/ GetForInstallation(db.ext, call[c].inst) # {}
            \/ \E d \in Callers : At(d, "store") /\ call[d].inst = call[c].inst

\* Steps that touch no provider key; a replacement is left only by a failure.
LEMMA PlainByok ==
  ASSUME TypeInv, LockInv, NEW c \in Callers, Refuse(c) \/ Step(c) \/ Fail(c),
         ~ReplaceByok(c), ~StoreByok(c), ~DropByok(c), ~SetAliases(c)
  PROVE  /\ call'[c].op = call[c].op /\ db'.ext = db.ext /\ (faults' = 0 => faults = 0)
         /\ Stored(c)' => Stored(c) /\ call'[c].inst = call[c].inst
         /\ call[c].pc = "store" => faults' # 0
         /\ call'[c].pc # "store"
  <1>0. OnPath(call[c]) /\ faults \in Nat
        /\ (At(c, "note") => c \in Refused)
    BY DEF TypeInv, CallInv, Local, LockInv
  <1>1. CASE Refuse(c)
    BY <1>0, <1>1, RefuseIs DEF Refuse, Ops, At, OnPath, Stored
  <1>2. CASE Fail(c)
    BY <1>0, <1>2, FailIs DEF Fail, Fallible, At, OnPath, Stored
  <1>3. CASE LookUp(c)
    BY <1>0, <1>3, LookUpIs DEF LookUp, At, OnPath, Surfaces, Stored
  <1>4. CASE ReadKey(c)
    BY <1>0, <1>4, ReadKeyIs DEF ReadKey, At, OnPath, Surfaces, Stored
  <1>5. CASE ReadByok(c)
    <2>1. call[c].op = "verify" /\ call[c].pc # "store"
      BY <1>0, <1>5 DEF ReadByok, At, OnPath
    <2>2. call'[c].op = call[c].op /\ UNCHANGED db /\ (faults' # faults => faults' = faults + 1)
          /\ call'[c].pc \in {"lists", "lock", "done"}
      BY <1>5, ReadByokIs
    <2>3. faults' = 0 => faults = 0
      BY <1>0, <2>2
    <2> QED BY <2>1, <2>2, <2>3 DEF Stored
  <1>6. CASE ReadLists(c)
    <2>1. call[c].op = "verify" /\ call[c].pc # "store"
      BY <1>0, <1>6 DEF ReadLists, At, OnPath
    <2>2. call'[c].op = call[c].op /\ UNCHANGED db /\ (faults' # faults => faults' = faults + 1)
          /\ call'[c].pc \in {"lists", "lock", "done"}
      BY <1>6, ReadListsIs
    <2>3. faults' = 0 => faults = 0
      BY <1>0, <2>2
    <2> QED BY <2>1, <2>2, <2>3 DEF Stored
  <1>7. CASE SetLock(c)
    BY <1>0, <1>7, SetLockIs DEF SetLock, At, OnPath, Surfaces, Stored
  <1>8. CASE SetIndex(c)
    BY <1>0, <1>8, SetIndexIs DEF SetIndex, At, OnPath, Surfaces, Stored
  <1>9. CASE SetAdd(c)
    BY <1>0, <1>9, SetAddIs DEF SetAdd, At, OnPath, Surfaces, Stored
  <1>10. CASE SetCheck(c)
    BY <1>0, <1>10, SetCheckIs DEF SetCheck, At, OnPath, Surfaces, Stored
  <1>11. CASE Invalidate(c)
    <2>1. call[c].pc = "invalidate"
      BY <1>0, <1>11 DEF Invalidate, At, OnPath
    <2>2. call'[c].pc \in {"remove", "cookie", "done"}
      BY <1>11, InvalidateIs DEF AfterInvalidate
    <2>3. /\ call'[c].op = call[c].op /\ call'[c].arg = call[c].arg
          /\ call'[c].inst = call[c].inst /\ call'[c].made = call[c].made
          /\ call'[c].res = call[c].res /\ UNCHANGED <<db, ids, faults>>
      BY <1>11, InvalidateIs
    <2>4. call[c].op # "resolve"
      BY <1>0, <2>1 DEF OnPath
    <2> QED BY <2>1, <2>2, <2>3, <2>4 DEF Stored, At
  <1>12. CASE RemoveOne(c)
    <2>1. call[c].pc = "remove"
      BY <1>0, <1>12 DEF RemoveOne, At, OnPath
    <2>2. call'[c].pc \in {"remove", "cookie", "done"}
      BY <1>12, RemoveOneIs DEF AfterInvalidate
    <2>3. /\ call'[c].op = call[c].op /\ call'[c].arg = call[c].arg
          /\ call'[c].inst = call[c].inst /\ call'[c].made = call[c].made
          /\ call'[c].res = call[c].res /\ UNCHANGED <<db, ids, faults>>
      BY <1>12, RemoveOneIs
    <2>4. call[c].op # "resolve"
      BY <1>0, <2>1 DEF OnPath
    <2> QED BY <2>1, <2>2, <2>3, <2>4 DEF Stored, At
  <1>13. CASE ListKeys(c)
    BY <1>0, <1>13, ListKeysIs DEF ListKeys, At, OnPath, Stored
  <1>14. CASE SoftDeleteAPIKey(c)
    <2>1. call[c].op \in {"rotate", "delete"} /\ call[c].pc = "softdelete"
      BY <1>0, <1>14 DEF SoftDeleteAPIKey, At, OnPath
    <2>2. call'[c].pc \in {"invalidate", "mint", "done"}
      BY <1>14, SoftDeleteAPIKeyIs DEF AfterSoftDelete
    <2>3. /\ call'[c].op = call[c].op /\ call'[c].arg = call[c].arg
          /\ db'.accounts = db.accounts /\ db'.insts = db.insts /\ db'.sessions = db.sessions
          /\ db'.users = db.users /\ db'.ext = db.ext /\ UNCHANGED <<ids, faults>>
      BY <1>14, SoftDeleteAPIKeyIs
    <2> QED BY <2>1, <2>2, <2>3 DEF Stored
  <1>15. CASE MintKey(c)
    <2>1. call[c].op \in {"rotate", "playground", "issue"} /\ call[c].pc = "mint"
      BY <1>0, <1>15 DEF MintKey, At, OnPath
    <2> QED BY <1>15, <2>1, MintKeyIs DEF Stored
  <1>16. CASE UpdateSettings(c)
    BY <1>0, <1>16, UpdateSettingsIs DEF UpdateSettings, At, OnPath, Stored
  <1>17. CASE CheckLimit(c)
    BY <1>0, <1>17, CheckLimitIs DEF CheckLimit, At, OnPath, Stored
  <1>18. CASE ValidateKey(c)
    BY <1>0, <1>18, ValidateKeyIs DEF ValidateKey, At, OnPath, Stored
  <1>19. CASE NoteFailure(c)
    BY <1>0, <1>19, NoteFailureIs DEF NoteFailure, At, OnPath, Stored, Refused
  <1>20. CASE UpsertByAiandUser(c)
    BY <1>0, <1>20, UpsertByAiandUserIs DEF UpsertByAiandUser, At, OnPath, Stored
  <1>21. CASE FindInstallation(c)
    BY <1>0, <1>21, FindInstallationIs DEF FindInstallation, At, OnPath, AfterEnsure, Stored
  <1>22. CASE EnsureInstallation(c)
    <2>1. call[c].op \in {"login", "dashboard"} /\ call[c].pc = "create"
      BY <1>0, <1>22 DEF EnsureInstallation, At, OnPath
    <2>2. /\ call'[c].op = call[c].op /\ db'.ext = db.ext /\ call'[c].res = call[c].res
          /\ (faults' # faults => faults' = faults + 1)
          /\ call'[c].pc = "refind" \/ call'[c].pc = AfterEnsure(c)
      BY <1>22, EnsureInstallationIs
    <2>3. faults' = 0 => faults = 0
      BY <1>0, <2>2
    <2> QED BY <2>1, <2>2, <2>3 DEF Stored, AfterEnsure, At
  <1>23. CASE IssueLoginSession(c)
    BY <1>0, <1>23, IssueLoginSessionIs DEF IssueLoginSession, At, OnPath, Stored
  <1>24. CASE OpenDashboard(c)
    <2>1. call[c].op = "dashboard" /\ call[c].pc = "session"
      BY <1>0, <1>24 DEF OpenDashboard, At, OnPath
    <2>2. /\ call'[c].op = call[c].op /\ UNCHANGED db
          /\ (faults' # faults => faults' = faults + 1)
          /\ call'[c].pc \in {"find", "done"}
      BY <1>24, OpenDashboardIs
    <2>3. faults' = 0 => faults = 0
      BY <1>0, <2>2
    <2> QED BY <2>1, <2>2, <2>3 DEF Stored
  <1>25. CASE ResolveUser(c)
    BY <1>0, <1>25, ResolveUserIs DEF ResolveUser, At, OnPath, Stored
  <1> QED BY <1>1, <1>2, <1>3, <1>4, <1>5, <1>6, <1>7, <1>8, <1>9, <1>10, <1>11, <1>12,
             <1>13, <1>14, <1>15, <1>16, <1>17, <1>18, <1>19, <1>20, <1>21, <1>22, <1>23,
             <1>24, <1>25 DEF Step

\* An alias update neither kills a provider key nor moves it.
LEMMA AliasesKeep ==
  ASSUME NEW t, t \subseteq ExtRows, NEW inst, NEW id, NEW other,
         GetForInstallation(t, other) # {}
  PROVE  GetForInstallation(UpdateModelAliases(t, inst, id), other) # {}
  <1>1. PICK x \in t : x.live /\ x.inst = other
    BY DEF GetForInstallation, Active
  <1> DEFINE f(y) == IF y \in Active(t) /\ y.inst = inst /\ y.id = id
                     THEN [y EXCEPT !.aliases = @ + 1] ELSE y
  <1>2. f(x) \in UpdateModelAliases(t, inst, id)
    BY DEF UpdateModelAliases
  <1>3. f(x).live /\ f(x).inst = other
    BY <1>1 DEF ExtRows
  <1> QED BY <1>2, <1>3 DEF GetForInstallation, Active

\* Replacing the keys of one installation leaves those of the others.
LEMMA ReplaceKeeps ==
  ASSUME NEW t, NEW inst, NEW other, other # inst, GetForInstallation(t, other) # {}
  PROVE  GetForInstallation(SoftDeleteByProvider(t, inst), other) # {}
  BY DEF SoftDeleteByProvider, Kill, GetForInstallation, Active

\* How a stored key stays stored while one caller moves.
LEMMA ByokStep ==
  ASSUME ByokInv, NEW c \in Callers, \A d \in Callers \ {c} : call'[d] = call[d],
         call'[c].op = call[c].op \/ (call[c].op = "none" /\ ~Stored(c)'),
             faults' = 0 => faults = 0,
         Stored(c)' => Stored(c) /\ call'[c].inst = call[c].inst,
         faults' = 0 => (call[c].pc = "store" => GetForInstallation(db'.ext, call[c].inst) # {}),
         \A n : GetForInstallation(db.ext, n) # {} =>
            \/ GetForInstallation(db'.ext, n) # {}
            \/ call'[c].pc = "store" /\ call'[c].inst = n
  PROVE  ByokInv'
  <1> SUFFICES ASSUME faults' = 0, \A d \in Callers : call'[d].op # "dropByok",
                      NEW e \in Callers, Stored(e)'
               PROVE  \/ GetForInstallation(db'.ext, call'[e].inst) # {}
                      \/ \E d \in Callers : call'[d].pc = "store" /\ call'[d].inst = call'[e].inst
    BY DEF ByokInv, At
  <1>1. faults = 0 /\ \A d \in Callers : call[d].op # "dropByok"
    OBVIOUS
  <1>2. Stored(e) /\ call'[e].inst = call[e].inst
    BY DEF Stored, At
  <1>3. \/ GetForInstallation(db.ext, call[e].inst) # {}
        \/ \E d \in Callers : call[d].pc = "store" /\ call[d].inst = call[e].inst
    BY <1>1, <1>2 DEF ByokInv, At
  <1>4. CASE GetForInstallation(db.ext, call[e].inst) # {}
    BY <1>2, <1>4
  <1>5. ASSUME NEW d \in Callers, call[d].pc = "store", call[d].inst = call[e].inst
        PROVE  \/ GetForInstallation(db'.ext, call'[e].inst) # {}
               \/ \E x \in Callers : call'[x].pc = "store" /\ call'[x].inst = call'[e].inst
    BY <1>2, <1>5
  <1> QED BY <1>3, <1>4, <1>5

\* ByokInv is inductive.
LEMMA ByokNext ==
  ASSUME TypeInv, LockInv, ByokInv, [Next]_vars
  PROVE  ByokInv'
  <1>0. /\ call \in [Callers -> CallType] /\ \A d \in Callers : OnPath(call[d])
        /\ db.ext \subseteq ExtRows
    BY DEF TypeInv, CallInv, Local, DbInv, Table
  <1>b. \A c \in Callers : (Begin(c) \/ Refuse(c) \/ Step(c) \/ Fail(c)) =>
          \A d \in Callers \ {c} : call'[d] = call[d]
    BY OthersKept
  <1>1. ASSUME NEW c \in Callers, Refuse(c) \/ Step(c) \/ Fail(c),
               ~ReplaceByok(c), ~StoreByok(c), ~DropByok(c), ~SetAliases(c)
        PROVE  ByokInv'
    <2>1. /\ call'[c].op = call[c].op /\ db'.ext = db.ext /\ (faults' = 0 => faults = 0)
          /\ Stored(c)' => Stored(c) /\ call'[c].inst = call[c].inst
          /\ call[c].pc = "store" => faults' # 0
      BY <1>1, PlainByok
    <2> QED BY <1>b, <1>1, <2>1, ByokStep
  <1>2. ASSUME NEW c \in Callers, ReplaceByok(c)
        PROVE  ByokInv'
    <2>1. /\ call'[c].op = call[c].op /\ faults' = faults /\ call'[c].inst = call[c].inst
          /\ call'[c].pc = "store" /\ db'.ext = SoftDeleteByProvider(db.ext, call[c].inst)
      BY <1>2, ReplaceByokIs
    <2>2. ~Stored(c)' /\ call[c].pc # "store"
      BY <1>2, <2>1 DEF Stored, At, ReplaceByok
    <2>3. \A n : GetForInstallation(db.ext, n) # {} =>
             GetForInstallation(db'.ext, n) # {} \/ call'[c].inst = n
      BY <2>1, ReplaceKeeps
    <2>4. \A d \in Callers \ {c} : call'[d] = call[d]
      BY <1>2, <1>b DEF Step
    <2> QED BY <2>1, <2>2, <2>3, <2>4, ByokStep
  <1>3. ASSUME NEW c \in Callers, StoreByok(c)
        PROVE  ByokInv'
    <2> DEFINE row == CreateExternalAPIKey(db.ext, call[c].inst)
    <2>1. /\ call'[c].op = call[c].op /\ faults' = faults /\ call'[c].inst = call[c].inst
          /\ db'.ext = db.ext \union row
      BY <1>3, StoreByokIs
    <2>2. GetForInstallation(db'.ext, call[c].inst) # {}
      <3>1. CASE \E x \in Active(db.ext) : x.inst = call[c].inst
        BY <2>1, <3>1 DEF GetForInstallation, Active
      <3>2. CASE ~\E x \in Active(db.ext) : x.inst = call[c].inst
        <4>1. [id |-> Fresh(db.ext), inst |-> call[c].inst, aliases |-> 0, live |-> TRUE] \in row
          BY <3>2 DEF CreateExternalAPIKey
        <4> HIDE DEF row
        <4> QED BY <2>1, <4>1 DEF GetForInstallation, Active
      <3> QED BY <3>1, <3>2
    <2>3. \A n : GetForInstallation(db.ext, n) # {} => GetForInstallation(db'.ext, n) # {}
      BY <2>1 DEF GetForInstallation, Active
    <2>4. \A d \in Callers \ {c} : call'[d] = call[d]
      BY <1>3, <1>b DEF Step
    <2> HIDE DEF row
    <2>5. ASSUME NEW e \in Callers, Stored(e)', faults' = 0,
                 \A d \in Callers : call'[d].op # "dropByok"
          PROVE  \/ GetForInstallation(db'.ext, call'[e].inst) # {}
                 \/ \E d \in Callers : call'[d].pc = "store" /\ call'[d].inst = call'[e].inst
      <3>1. CASE e = c
        BY <2>1, <2>2, <3>1
      <3>2. CASE e # c
        <4>1. Stored(e) /\ call'[e] = call[e]
          BY <2>4, <2>5, <3>2 DEF Stored, At
        <4>2. faults = 0 /\ \A d \in Callers : call[d].op # "dropByok"
          BY <2>1, <2>4, <2>5
        <4>3. \/ GetForInstallation(db.ext, call[e].inst) # {}
              \/ \E d \in Callers : call[d].pc = "store" /\ call[d].inst = call[e].inst
          BY <4>1, <4>2 DEF ByokInv, At
        <4> QED BY <2>1, <2>2, <2>3, <2>4, <4>1, <4>3
      <3> QED BY <3>1, <3>2
    <2> QED BY <2>5 DEF ByokInv, At
  <1>4. ASSUME NEW c \in Callers, DropByok(c)
        PROVE  ByokInv'
    <2>1. call'[c].op = "dropByok"
      <3>1. call'[c].op = call[c].op /\ call[c].pc = "drop"
        BY <1>4, DropByokIs DEF DropByok, At
      <3> QED BY <1>0, <3>1 DEF OnPath
    <2> QED BY <2>1 DEF ByokInv
  <1>5. ASSUME NEW c \in Callers, SetAliases(c)
        PROVE  ByokInv'
    <2>1. call'[c].op = call[c].op /\ faults' = faults
      BY <1>5, SetAliasesIs
    <2>2. ~Stored(c)' /\ call[c].pc # "store"
      BY <1>0, <1>5, <2>1 DEF Stored, At, SetAliases, OnPath
    <2>3. \E id : db'.ext = UpdateModelAliases(db.ext, call[c].inst, id)
      BY <1>5 DEF SetAliases, TypeInv, DbInv
    <2>4. \A n : GetForInstallation(db.ext, n) # {} => GetForInstallation(db'.ext, n) # {}
      BY <1>0, <2>3, AliasesKeep
    <2>5. \A d \in Callers \ {c} : call'[d] = call[d]
      BY <1>5, <1>b DEF Step
    <2> QED BY <2>1, <2>2, <2>4, <2>5, ByokStep
  <1>6. ASSUME NEW c \in Callers, Begin(c)
        PROVE  ByokInv'
    <2>1. /\ call[c].op = "none" /\ call[c].pc = "idle" /\ UNCHANGED <<db, faults>>
          /\ call'[c].pc \notin {"invalidate", "remove", "cookie", "done"}
      BY <1>0, <1>6, BeginIs DEF OnPath
    <2>2. ~Stored(c)'
      BY <2>1 DEF Stored, At
    <2> QED BY <1>b, <1>6, <2>1, <2>2, ByokStep
  <1>7. CASE UNCHANGED <<db, call, faults>>
    BY <1>7 DEF ByokInv, Stored, At
  <1> QED
    BY <1>1, <1>2, <1>3, <1>4, <1>5, <1>6, <1>7
    DEF Next, vars, Age, AgeNegative, FailuresExpire, ForgetIdentity

-----------------------------------------------------------------------------
(* The theorems.                                                            *)

AuthInv ==
    /\ TypeInv /\ RotInv /\ LockInv /\ IdxInv /\ DelInv
    /\ HomeInv /\ PeopleInv /\ ByokInv

\* Before the first call nobody is on any path and nothing is cached.
LEMMA AuthInit ==
  ASSUME Init
  PROVE  AuthInv
  <1>1. /\ \A c \in Callers : call[c] = Idle
        /\ failures = 0 /\ ids = {} /\ cache.pos = <<>>
        /\ db.sessions = {} /\ db.users = {}
        /\ db.accounts = {[id |-> 1, user |-> CHOOSE u \in Users : TRUE]}
        /\ db.insts = {[id |-> 1, owner |-> 1, settings |-> 0, live |-> TRUE]}
    BY DEF Init
  <1>2. \A c \in Callers : /\ call[c].op = "none" /\ call[c].pc = "idle" /\ call[c].made = None
                           /\ call[c].res = "none" /\ call[c].after = {}
    BY <1>1 DEF Idle
  <1>3. RotInv
    BY <1>2 DEF RotInv, Won, At
  <1>4. LockInv
    <2>1. Refused = {}
      BY <1>2 DEF Refused
    <2> QED BY <1>1, <1>2, <2>1, FS_EmptySet DEF LockInv, At
  <1>5. IdxInv
    BY <1>1, <1>2 DEF IdxInv, At
  <1>6. DelInv
    BY <1>2 DEF DelInv, Past, Drained, Deleting, Verifies, DeletedKeyRefused, Done
  <1>7. HomeInv
    BY <1>1, <1>2 DEF HomeInv, Active, House
  <1>8. PeopleInv
    BY <1>1, <1>2 DEF PeopleInv, OnePerson, Done
  <1>9. ByokInv
    BY <1>2 DEF ByokInv, Stored
  <1> QED BY <1>3, <1>4, <1>5, <1>6, <1>7, <1>8, <1>9, TypeInit DEF AuthInv

\* Every reachable state of auth.Service satisfies AuthInv: each call carries
\* what its place promises, and the tables and the cache agree with the calls.
THEOREM Inductive == Spec => []AuthInv
  <1>1. ASSUME AuthInv, [Next]_vars
        PROVE  AuthInv'
    BY <1>1, TypeNext, RotNext, LockNext, IdxNext, DelNext, HomeNext, PeopleNext, ByokNext
    DEF AuthInv
  <1>2. Init => AuthInv
    BY AuthInit
  <1> QED BY <1>1, <1>2, PTL DEF Spec

\* RotateAPIKey, for any number of callers: the soft delete takes the key from
\* all rotations but one, so one key has at most one successor.
THEOREM OneSuccessor == Spec => []RotateOneSuccessor
  <1>1. AuthInv => RotateOneSuccessor
    BY DEF AuthInv, RotInv, Won, RotateOneSuccessor
  <1> QED BY <1>1, Inductive, PTL

\* login.go: every failure counted against the peer is a key that was refused.
THEOREM LockoutIsEarned == Spec => []LockoutEarned
  <1>1. AuthInv => LockoutEarned
    BY DEF AuthInv, LockInv, Refused, LockoutEarned
  <1> QED BY <1>1, Inductive, PTL

\* apikey_cache.go: with any capacity and any number of callers, what is cached
\* is reached by the next invalidation, unless an eviction raced its Set.
THEOREM IndexComplete == Spec => []IndexTracksCache
  <1>1. AuthInv => IndexTracksCache
    <2>1. ASSUME TypeInv, NEW h \in DOMAIN cache.pos
          PROVE  cache.pos[h].inst = 1
      BY <2>1 DEF TypeInv, CacheInv, CacheOk, Whole, Entries
    <2> QED BY <2>1 DEF AuthInv, IdxInv, IndexTracksCache
  <1> QED BY <1>1, Inductive, PTL

\* VerifyAPIKey and VerifyAnalyticsAPIKey: the surfaces never serve each other's
\* keys, what is cached has its restrictions, a deleted key is refused.
THEOREM AdmissionIsSound == Spec => []AdmissionSound
  <1>1. AuthInv => AdmissionSound
    <2>1. TypeInv => SurfacesSeparate
      BY DEF TypeInv, CallInv, Local, SurfacesSeparate, Done, At
    <2>2. TypeInv => RestrictionsNeverDropped
      BY DEF TypeInv, CacheInv, CacheOk, Whole, RestrictionsNeverDropped
    <2>3. DelInv => DeletedKeyRefused
      BY DEF DelInv
    <2> QED BY <2>1, <2>2, <2>3 DEF AuthInv, AdmissionSound
  <1> QED BY <1>1, Inductive, PTL

\* Accounts, installations and user rows: one per user, account and address,
\* whatever logins and requests race.
THEOREM IdentityIsStable == Spec => []IdentityStable
  <1>1. AuthInv => IdentityStable
    <2>1. HomeInv => LoginsConverge
      BY DEF HomeInv, House, LoginsConverge
    <2>2. ASSUME PeopleInv, TypeInv PROVE EmailUserStable
      <3> SUFFICES ASSUME NEW c \in Callers, NEW d \in Callers,
                          Done(c, "resolve", "ok"), Done(d, "resolve", "ok"),
                          call[c].arg[1] # None, call[c].arg[1] = call[d].arg[1]
                   PROVE  call[c].made = call[d].made
        BY DEF EmailUserStable
      <3>1. PICK u \in db.users : u.email = call[c].arg[1] /\ u.id = call[c].made
        BY <2>2 DEF PeopleInv, Person
      <3>2. PICK v \in db.users : v.email = call[d].arg[1] /\ v.id = call[d].made
        BY <2>2 DEF PeopleInv, Person
      <3>3. u = v
        BY <2>2, <3>1, <3>2 DEF PeopleInv, OnePerson, None
      <3> QED BY <3>1, <3>2, <3>3
    <2> QED BY <2>1, <2>2 DEF AuthInv, IdentityStable
  <1> QED BY <1>1, Inductive, PTL

\* UpsertExternalAPIKey: an installation that has stored a provider key has one
\* whenever no replacement is between its two statements.
THEOREM ByokIsKept == Spec => []ByokSurvives
  <1>1. AuthInv => ByokSurvives
    BY DEF AuthInv, ByokInv, Stored, ByokSurvives, Done, At
  <1> QED BY <1>1, Inductive, PTL
=============================================================================
