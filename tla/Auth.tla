-------------------------------- MODULE Auth --------------------------------
(***************************************************************************)
(* auth.Service: concurrent calls of one router process over the identity  *)
(* tables (AuthStore) and the in-process key cache (KeyCache).  A step is  *)
(* one database statement or one critical section of the cache, so calls   *)
(* interleave between them as goroutines do.  Any call may be the last:    *)
(* the caller's context may end it at a statement that fails.              *)
(***************************************************************************)
EXTENDS AuthStore

CONSTANTS
    Calls,          \* requests, numbered as they arrive; each makes one call
    Mixes,          \* operations considered together: any two of one mix overlap
    Users,          \* aiand users; the first has an account, the others none
    Insts,          \* installation ids, 1 .. n
    Capacity,       \* positive entries the cache holds
    MaxFailures,    \* loginMaxFailures
    MaxFaults       \* failing statements, at most

ASSUME AuthConstants ==
    /\ Calls \in Nat /\ Users # {} /\ Insts \subseteq Nat /\ 1 \in Insts
    /\ {Capacity, MaxFailures} \subseteq Nat \ {0} /\ MaxFaults \in Nat

Cache == INSTANCE KeyCache

VARIABLES
    db,         \* the tables
    cache,      \* the key cache
    mu,         \* who holds the cache's mutex between two steps, or none
    ids,        \* the identity cache: <<installation, identity>> -> user id
    failures,   \* failed logins counted against the peer
    faults,     \* statements that have failed
    call,       \* what each caller is doing, or has done
    overlap,    \* history: keys verified while they were being deleted
    raced       \* history: keys whose index entry an eviction took under a Set

vars == <<db, cache, mu, ids, failures, faults, call, overlap, raced>>

None == 0
Callers == 1 .. Calls

\* A call: its operation and argument, where it is, and its locals.
Idle == [op |-> "none", arg |-> None, pc |-> "idle", inst |-> None, entry |-> None,
         pregen |-> 0, todo |-> {}, made |-> None, res |-> "none", after |-> {}]

\* Before the first call: one installation with a routing and an analytics key.
Init ==
    /\ db = [ accounts |-> {[id |-> 1, user |-> CHOOSE u \in Users : TRUE]},
              insts    |-> {[id |-> 1, owner |-> 1, settings |-> 0, live |-> TRUE]},
              keys     |-> {[id |-> 1, inst |-> 1, scope |-> "routing", name |-> "own", live |-> TRUE],
                            [id |-> 2, inst |-> 1, scope |-> "analytics", name |-> "own", live |-> TRUE]},
              ext      |-> {}, sessions |-> {}, users |-> {} ]
    /\ cache = [pos |-> <<>>, neg |-> {}, index |-> {}, gen |-> [i \in Insts |-> 0]]
    /\ mu = None /\ ids = {} /\ failures = 0 /\ faults = 0
    /\ call = [c \in Callers |-> Idle]
    /\ overlap = {} /\ raced = {}

-----------------------------------------------------------------------------
\* The shapes of a step.

At(c, pc) == call[c].pc = pc
Goto(c, pc) == call' = [call EXCEPT ![c].pc = pc]
Return(c, res) == call' = [call EXCEPT ![c].pc = "done", ![c].res = res]

\* A database error: the call returns it, and nothing was written.
Fails(c) ==
    /\ faults < MaxFaults
    /\ faults' = faults + 1
    /\ Return(c, "error")
    /\ UNCHANGED <<db, cache, mu, ids, failures, overlap, raced>>

\* A statement whose error the caller swallows: it goes on as if no row had come.
Answers(rows, stored) ==
    /\ rows = stored \/ (rows = {} /\ faults < MaxFaults)
    /\ faults' = IF rows = stored THEN faults ELSE faults + 1

\* Calls that are about to add an entry for hash that the index has already.
Adding(hash) == { c \in Callers : At(c, "add") /\ call[c].arg = hash }

Raced(hash, c) == IF Adding(hash) \ {c} # {} THEN {hash} ELSE {}

Verifies(c, key) == call[c].op \in {"verify", "analytics"} /\ call[c].arg = key
                    /\ ~At(c, "done")
\* The keys whose DeleteAPIKey has returned and that no invalidation, its own
\* or another's that drained the index before it, has still to remove.
Removing(key) == \E c \in Callers : At(c, "remove") /\ key \in call[c].todo

Deleted ==
    LET returned == { d \in Callers : call[d].op = "delete" /\ call[d].res = "ok" /\ At(d, "done") } IN
    { key \in { call[d].arg : d \in returned } : ~Removing(key) }

Deletes(c, key) == call[c].op = "delete" /\ call[c].arg = key /\ ~At(c, "done")

-----------------------------------------------------------------------------
\* The calls.  inst is resolved by the caller's session or key beforehand.

Ops == [ verify     |-> "get",      analytics |-> "get",
         rotate     |-> "list",     delete    |-> "list",    playground |-> "list",
         settings   |-> "update",   aliases   |-> "alias",   dropByok   |-> "drop",
         byok       |-> "replace",  login     |-> "limit",   dashboard  |-> "session",
         resolve    |-> "identity", issue     |-> "mint" ]

ASSUME MixesAssumption == UNION Mixes \subseteq DOMAIN Ops

\* A token nobody issued; an identity is <<e-mail, client account>>.
Unknown == 99

Args(op) ==
    CASE op \in {"verify", "analytics"} -> { k.id : k \in db.keys } \union {Unknown}
      [] op \in {"rotate", "delete"}    -> {1}
      [] op = "login"                   -> Users
      [] op = "resolve"                 -> {<<1, 0>>, <<1, 1>>, <<0, 1>>}
      [] OTHER                          -> {None}

Begin(c) ==
    /\ At(c, "idle") /\ (c - 1 \in Callers => ~At(c - 1, "idle"))
    /\ \E mix \in Mixes : \E op \in mix : \E arg \in Args(op) :
         LET other(P(_)) == \E d \in Callers \ {c} : P(d) IN
         /\ { call[d].op : d \in Callers } \subseteq mix \union {"none"}
         /\ call' = [call EXCEPT ![c] =
                        [Idle EXCEPT !.op = op, !.arg = arg, !.pc = Ops[op], !.inst = 1,
                                     !.after = Deleted]]
         /\ overlap' = overlap \union
             (IF \/ op \in {"verify", "analytics"} /\ other(LAMBDA d : Deletes(d, arg))
                 \/ op = "delete" /\ other(LAMBDA d : Verifies(d, arg))
              THEN {arg} ELSE {})
    /\ UNCHANGED <<db, cache, mu, ids, failures, faults, raced>>

\* Input that does not validate is refused before the first statement.
Refuse(c) ==
    /\ At(c, Ops.settings) \/ At(c, Ops.aliases) \/ (At(c, Ops.byok) /\ call[c].op = "byok")
    /\ Return(c, "bad")
    /\ UNCHANGED <<db, cache, mu, ids, failures, faults, overlap, raced>>

-----------------------------------------------------------------------------
\* VerifyAPIKey and VerifyAnalyticsAPIKey.

Scope(op) == IF op = "verify" THEN "routing" ELSE "analytics"

\* The token names its scope; the routing surface takes either prefix and
\* checks the scope itself.
HasPrefix(c) ==
    call[c].op = "analytics" => \A k \in db.keys : k.id = call[c].arg => k.scope = "analytics"

\* What a cached entry gives the caller.
FromCache(c, entry) ==
    IF entry.scope = Scope(call[c].op) THEN "accepted" ELSE "wrong_scope"

LookUp(c) ==
    /\ At(c, "get")
    /\ LET hash == call[c].arg
           got  == Cache!Get(cache, hash) IN
       call' = [call EXCEPT ![c] =
          IF ~HasPrefix(c) THEN [@ EXCEPT !.pc = "done", !.res = "bad_prefix"]
          ELSE IF got = "hit"
          THEN [@ EXCEPT !.pc = "done", !.entry = cache.pos[hash],
                         !.res = FromCache(c, cache.pos[hash])]
          ELSE IF got = "negative" THEN [@ EXCEPT !.pc = "done", !.res = "invalid"]
          ELSE [@ EXCEPT !.pc = "read"]]
    /\ UNCHANGED <<db, cache, mu, ids, failures, faults, overlap, raced>>

\* The joined row of key and installation.  A miss is cached at once; a key of
\* the other scope is never cached.
ReadKey(c) ==
    /\ At(c, "read")
    /\ LET rows == GetActiveByHash(db.keys, db.insts, call[c].arg)
           Entry(k) == [ key |-> k.id, scope |-> k.scope, inst |-> k.inst, fresh |-> TRUE,
                         settings |-> (CHOOSE i \in db.insts : i.id = k.inst).settings,
                         byok |-> {}, lists |-> "slim" ] IN
       /\ cache' = IF rows = {} THEN Cache!SetNegative(cache, call[c].arg) ELSE cache
       /\ call' = [call EXCEPT ![c] =
            IF rows = {} THEN [@ EXCEPT !.pc = "done", !.res = "invalid"]
            ELSE LET k == CHOOSE k \in rows : TRUE IN
                 IF k.scope # Scope(@.op)
                 THEN [@ EXCEPT !.pc = "done", !.res = "wrong_scope"]
                 ELSE [@ EXCEPT !.inst = k.inst, !.entry = Entry(k),
                                !.pc = IF call[c].op = "verify" THEN "byok" ELSE "lock"]]
    /\ UNCHANGED <<db, mu, ids, failures, faults, overlap, raced>>

\* Provider keys: a failed read is not fatal, and is cached as if there were none.
ReadByok(c) ==
    /\ At(c, "byok")
    /\ \E rows \in {GetForInstallation(db.ext, call[c].inst), {}} :
         /\ Answers(rows, GetForInstallation(db.ext, call[c].inst))
         /\ call' = [call EXCEPT ![c].entry.byok = { x.id : x \in rows }, ![c].pc = "lists"]
    /\ UNCHANGED <<db, cache, mu, ids, failures, overlap, raced>>

\* Per-cluster lists: when the read fails the caller is served without them,
\* and nothing is cached.
AfterLists(ok) == IF ok THEN "lock" ELSE "done"

ReadLists(c) ==
    /\ At(c, "lists")
    /\ \E ok \in BOOLEAN :
         /\ ok \/ faults < MaxFaults
         /\ faults' = IF ok THEN faults ELSE faults + 1
         /\ call' = [call EXCEPT ![c].entry.lists = IF ok THEN "read" ELSE "missed",
                                 ![c].pc = AfterLists(ok), ![c].res = "accepted"]
    /\ UNCHANGED <<db, cache, mu, ids, failures, overlap, raced>>

\* Set: take the mutex, index the key and release it ...
SetLock(c) ==
    /\ At(c, "lock") /\ mu = None
    /\ mu' = c
    /\ Goto(c, "index")
    /\ UNCHANGED <<db, cache, ids, failures, faults, overlap, raced>>

SetIndexMutant(c) ==
    /\ At(c, "index")
    /\ cache' = Cache!SetIndex(cache, call[c].inst, call[c].arg)
    /\ call' = [call EXCEPT ![c].pregen = cache.gen[call[c].inst], ![c].pc = "add"]
    /\ UNCHANGED <<db, mu, ids, failures, faults, overlap, raced>>

SetIndex(c) ==
    /\ At(c, "index")
    /\ cache' = Cache!SetIndex(cache, call[c].inst, call[c].arg)
    /\ call' = [call EXCEPT ![c].pregen = cache.gen[call[c].inst], ![c].pc = "add"]
    /\ mu' = None
    /\ UNCHANGED <<db, ids, failures, faults, overlap, raced>>

\* ... add the entry, dropping another one if the LRU is full: the callback
\* needs the mutex ...
SetAdd(c) ==
    /\ At(c, "add")
    /\ LET hash == call[c].arg
           out  == Cache!Victims(cache, hash, Capacity) IN
       \/ /\ out = {}
          /\ cache' = Cache!Add(cache, hash, call[c].entry)
          /\ UNCHANGED raced
       \/ \E v \in out :
            /\ mu = None
            /\ cache' = Cache!Add(Cache!Remove(cache, v), hash, call[c].entry)
            /\ raced' = raced \union Raced(v, c)
    /\ Goto(c, "check")
    /\ UNCHANGED <<db, mu, ids, failures, faults, overlap>>

\* ... and undo both when the installation was invalidated in between.
SetCheck(c) ==
    /\ At(c, "check") /\ mu = None
    /\ LET hash == call[c].arg IN
       IF Cache!Orphaned(cache, call[c].inst, call[c].pregen)
       THEN /\ cache' = Cache!Unindex(cache, call[c].inst, hash)
            /\ raced' = raced \union Raced(hash, c)
            /\ call' = [call EXCEPT ![c].todo = {hash}, ![c].pc = "remove"]
       ELSE Return(c, "accepted") /\ UNCHANGED <<cache, raced>>
    /\ UNCHANGED <<db, mu, ids, failures, faults, overlap>>

-----------------------------------------------------------------------------
\* InvalidateInstallation: under the mutex, then the removals one by one.  A
\* login goes on from here; every other caller has its result already.

AfterInvalidate(c) == IF call[c].op = "login" THEN "cookie" ELSE "done"

Invalidate(c) ==
    /\ At(c, "invalidate") /\ mu = None
    /\ LET found == Cache!Tracked(cache, call[c].inst) IN
       /\ cache' = Cache!Drain(cache, call[c].inst)
       /\ call' = [call EXCEPT ![c].todo = found,
                               ![c].pc = IF found = {} THEN AfterInvalidate(c) ELSE "remove"]
    /\ UNCHANGED <<db, mu, ids, failures, faults, overlap, raced>>

RemoveOne(c) ==
    /\ At(c, "remove")
    /\ \E hash \in call[c].todo :
         /\ hash \in DOMAIN cache.pos => mu = None
         /\ cache' = Cache!Remove(cache, hash)
         /\ raced' = IF hash \in DOMAIN cache.pos THEN raced \union Raced(hash, c) ELSE raced
         /\ call' = [call EXCEPT ![c].todo = @ \ {hash},
                                 ![c].pc = IF call[c].todo = {hash} THEN AfterInvalidate(c)
                                           ELSE "remove"]
    /\ UNCHANGED <<db, mu, ids, failures, faults, overlap>>

\* The LRU's own clock and goroutine.
Age(hash) ==
    /\ hash \in DOMAIN cache.pos
    /\ IF cache.pos[hash].fresh
       THEN cache' = Cache!Expire(cache, hash) /\ UNCHANGED raced
       ELSE mu = None /\ cache' = Cache!Remove(cache, hash)
            /\ raced' = raced \union Raced(hash, None)
    /\ UNCHANGED <<db, mu, ids, failures, faults, call, overlap>>

AgeNegative(hash) ==
    /\ hash \in cache.neg
    /\ cache' = Cache!ExpireNegative(cache, hash)
    /\ UNCHANGED <<db, mu, ids, failures, faults, call, overlap, raced>>

-----------------------------------------------------------------------------
\* Router keys: rotate, delete, and the playground's own key.

\* The handlers list first: a key that is not there is not found.
ListKeys(c) ==
    /\ At(c, "list")
    /\ LET keys == ListAPIKeys(db.keys, call[c].inst) IN
       IF call[c].op = "playground"
       THEN LET own == { k \in keys : k.name = "Playground" /\ k.scope = "routing" } IN
            IF own # {}
            THEN \E k \in own : call' = [call EXCEPT ![c].made = k.id, ![c].pc = "done", ![c].res = "ok"]
            ELSE Goto(c, "mint")
       ELSE IF \E k \in keys : k.id = call[c].arg
            THEN Goto(c, "softdelete")
            ELSE Return(c, "not_found")
    /\ UNCHANGED <<db, cache, mu, ids, failures, faults, overlap, raced>>

\* Rotation stops when the key was deleted or rotated since; deletion does not.
AfterSoftDeleteMutant(op, rows) == IF op = "rotate" THEN "mint" ELSE "invalidate"

AfterSoftDelete(op, rows) ==
    IF op = "delete" THEN "invalidate" ELSE IF rows = {} THEN "done" ELSE "mint"

SoftDeleteAPIKeyMutant(c) ==
    /\ At(c, "softdelete")
    /\ LET rows == SoftDeleted(db.keys, call[c].inst, call[c].arg)
           next == IF call[c].op = "delete" \/ rows = {} THEN "done" ELSE "mint" IN
       /\ db' = [db EXCEPT !.keys = Kill(@, rows)]
       /\ call' = [call EXCEPT ![c].pc = next, ![c].todo = {},
                               ![c].res = IF rows = {} THEN "not_found" ELSE "ok"]
    /\ UNCHANGED <<cache, mu, ids, failures, faults, overlap, raced>>

SoftDeleteAPIKey(c) ==
    /\ At(c, "softdelete")
    /\ LET rows == SoftDeleted(db.keys, call[c].inst, call[c].arg)
           next == AfterSoftDelete(call[c].op, rows) IN
       /\ db' = [db EXCEPT !.keys = Kill(@, rows)]
       /\ call' = [call EXCEPT ![c].pc = next, ![c].todo = {},
                               ![c].res = IF next = "done" THEN "not_found" ELSE "ok"]
    /\ UNCHANGED <<cache, mu, ids, failures, faults, overlap, raced>>

\* IssueScopedAPIKey; the successor keeps the scope and name of its predecessor.
MintKey(c) ==
    /\ At(c, "mint")
    /\ LET old == CHOOSE k \in db.keys : k.id = call[c].arg
           scopes == CASE call[c].op = "rotate"     -> {old.scope}
                       [] call[c].op = "playground" -> {"routing"}
                       [] call[c].op = "issue"      -> {"routing", "analytics"}
           name == CASE call[c].op = "rotate"     -> old.name
                     [] call[c].op = "playground" -> "Playground"
                     [] call[c].op = "issue"      -> "own" IN
       \E scope \in scopes :
         db' = [db EXCEPT !.keys = CreateAPIKey(@, call[c].inst, scope, name)]
    /\ call' = [call EXCEPT ![c].made = Fresh(db.keys), ![c].res = "ok",
                            ![c].pc = IF call[c].op = "rotate" THEN "invalidate" ELSE "done"]
    /\ UNCHANGED <<cache, mu, ids, failures, faults, overlap, raced>>

-----------------------------------------------------------------------------
\* Installation settings and provider keys.

UpdateSettings(c) ==
    /\ At(c, "update")
    /\ db' = [db EXCEPT !.insts = UpdateInstallation(@, call[c].inst)]
    /\ call' = [call EXCEPT ![c].pc = "invalidate", ![c].res = "ok"]
    /\ UNCHANGED <<cache, mu, ids, failures, faults, overlap, raced>>

\* UpsertExternalAPIKey: two statements, not one transaction.
ReplaceByok(c) ==
    /\ At(c, "replace")
    /\ db' = [db EXCEPT !.ext = SoftDeleteByProvider(@, call[c].inst)]
    /\ Goto(c, "store")
    /\ UNCHANGED <<cache, mu, ids, failures, faults, overlap, raced>>

StoreByokMutant(c) ==
    /\ At(c, "store")
    /\ LET row == CreateExternalAPIKey(db.ext, call[c].inst) IN
       /\ db' = [db EXCEPT !.ext = SoftDeleteByProvider(@ \union row, call[c].inst)]
       /\ IF row = {} THEN Return(c, "conflict")
          ELSE call' = [call EXCEPT ![c].pc = "invalidate", ![c].res = "ok"]
    /\ UNCHANGED <<cache, mu, ids, failures, faults, overlap, raced>>

StoreByok(c) ==
    /\ At(c, "store")
    /\ LET row == CreateExternalAPIKey(db.ext, call[c].inst) IN
       /\ db' = [db EXCEPT !.ext = @ \union row]
       /\ IF row = {} THEN Return(c, "conflict")
          ELSE call' = [call EXCEPT ![c].pc = "invalidate", ![c].res = "ok"]
    /\ UNCHANGED <<cache, mu, ids, failures, faults, overlap, raced>>

DropByok(c) ==
    /\ At(c, "drop")
    /\ \E id \in { x.id : x \in db.ext } \union {Unknown} :
         db' = [db EXCEPT !.ext = SoftDeleteExternal(@, call[c].inst, id)]
    /\ call' = [call EXCEPT ![c].pc = "invalidate", ![c].res = "ok"]
    /\ UNCHANGED <<cache, mu, ids, failures, faults, overlap, raced>>

SetAliases(c) ==
    /\ At(c, "alias")
    /\ \E id \in { x.id : x \in db.ext } \union {Unknown} :
         /\ db' = [db EXCEPT !.ext = UpdateModelAliases(@, call[c].inst, id)]
         /\ IF db'.ext = db.ext THEN Return(c, "not_found")
            ELSE call' = [call EXCEPT ![c].pc = "invalidate", ![c].res = "ok"]
    /\ UNCHANGED <<cache, mu, ids, failures, faults, overlap, raced>>

-----------------------------------------------------------------------------
\* LoginHandler and LoginWithKey.  The identity service is external: it names
\* the user, refuses the key, or is unavailable.

CheckLimit(c) ==
    /\ At(c, "limit")
    /\ IF failures >= MaxFailures THEN Return(c, "limited") ELSE Goto(c, "validate")
    /\ UNCHANGED <<db, cache, mu, ids, failures, faults, overlap, raced>>

\* Which answers of the identity service count against the peer.
CountsAsFailureMutant(answer) == answer # "known"

CountsAsFailure(answer) == answer = "refused"

\* NoteLoginFailure reads the count here and writes it in NoteFailure.
ValidateKey(c) ==
    /\ At(c, "validate")
    /\ \E answer \in {"known", "refused", "no_credits", "unavailable"} :
         IF answer = "known" THEN Goto(c, "account")
         ELSE call' = [call EXCEPT ![c].res = answer, ![c].pregen = failures,
                                   ![c].pc = IF CountsAsFailure(answer) THEN "note" ELSE "done"]
    /\ UNCHANGED <<db, cache, mu, ids, failures, faults, overlap, raced>>

NoteFailure(c) ==
    /\ At(c, "note")
    /\ failures' = call[c].pregen + 1
    /\ Goto(c, "done")
    /\ UNCHANGED <<db, cache, mu, ids, faults, overlap, raced>>

FailuresExpire ==
    /\ failures > 0
    /\ failures' = 0
    /\ UNCHANGED <<db, cache, mu, ids, faults, call, overlap, raced>>

UpsertByAiandUser(c) ==
    /\ At(c, "account")
    /\ db' = [db EXCEPT !.accounts = UpsertAccount(@, call[c].arg)]
    /\ call' = [call EXCEPT ![c].made = (CHOOSE a \in db'.accounts : a.user = call[c].arg).id,
                            ![c].pc = "find"]
    /\ UNCHANGED <<cache, mu, ids, failures, faults, overlap, raced>>

\* EnsureAccountInstallation: find it, or create it, or, whatever the error of
\* the insert was, look again for the winner's.
AfterEnsure(c) == IF call[c].op = "login" THEN "replace" ELSE "done"

FindInstallation(c) ==
    /\ At(c, "find") \/ At(c, "refind")
    /\ LET found == ListInstallations(db.insts, call[c].made) IN
       IF found # {}
       THEN \E i \in found : call' = [call EXCEPT ![c].inst = i.id, ![c].pc = AfterEnsure(c)]
       ELSE IF At(c, "find") THEN Goto(c, "create") ELSE Return(c, "error")
    /\ UNCHANGED <<db, cache, mu, ids, failures, faults, overlap, raced>>

EnsureInstallation(c) ==
    /\ At(c, "create")
    /\ \E row \in {CreateInstallation(db.insts, call[c].made), {}} :
         /\ Answers(row, CreateInstallation(db.insts, call[c].made))
         /\ db' = [db EXCEPT !.insts = @ \union row]
         /\ IF row = {} THEN Goto(c, "refind")
            ELSE \E i \in row : call' = [call EXCEPT ![c].inst = i.id, ![c].pc = AfterEnsure(c)]
    /\ UNCHANGED <<cache, mu, ids, failures, overlap, raced>>

\* IssueLoginSession; a success also clears the peer's failures.
IssueLoginSession(c) ==
    /\ At(c, "cookie")
    /\ db' = [db EXCEPT !.sessions = InsertSession(@, call[c].made, call[c].inst)]
    /\ failures' = 0
    /\ Return(c, "ok")
    /\ UNCHANGED <<cache, mu, ids, faults, overlap, raced>>

\* WithAccountCookie: the session names account and installation.  An
\* installation that is gone, or cannot be read, is looked for by the account.
OpenDashboard(c) ==
    /\ At(c, "session")
    /\ \/ /\ db.sessions = {} /\ Return(c, "invalid")
          /\ UNCHANGED faults
       \/ \E s \in UNION { GetActiveSession(db.sessions, t.id) : t \in db.sessions } :
            LET stored == GetInstallation(db.insts, s.account, s.inst) IN
            \E row \in {stored, {}} :
              /\ Answers(row, stored)
              /\ call' = [call EXCEPT ![c] =
                            [@ EXCEPT !.made = s.account, !.inst = IF row = {} THEN None ELSE s.inst,
                                      !.pc = IF row = {} THEN "find" ELSE "done", !.res = "ok"]]
    /\ UNCHANGED <<db, cache, mu, ids, failures, overlap, raced>>

-----------------------------------------------------------------------------
\* ResolveAndStashUser: the identity cache, then an upsert by e-mail or by
\* client account.  A failure leaves the request without a user.

Identity(arg) == IF arg[1] # None THEN <<"email", arg[1]>> ELSE <<"account", arg[2]>>

ResolveUser(c) ==
    /\ At(c, "identity")
    /\ LET id   == Identity(call[c].arg)
           hits == { e \in ids : e[1] = id } IN
       IF hits # {}
       THEN /\ \E e \in hits : call' = [call EXCEPT ![c].made = e[2], ![c].pc = "done", ![c].res = "ok"]
            /\ UNCHANGED <<db, ids>>
       ELSE LET email == call[c].arg[1]
                account == call[c].arg[2]
                users == IF email # None THEN UpsertUserByEmail(db.users, call[c].inst, email, account)
                         ELSE UpsertUserByAccount(db.users, call[c].inst, account) IN
            \E u \in users :
              /\ u.email = email /\ (email = None => u.account = account)
              /\ db' = [db EXCEPT !.users = users]
              /\ ids' = ids \union {<<id, u.id>>}
              /\ call' = [call EXCEPT ![c].made = u.id, ![c].pc = "done", ![c].res = "ok"]
    /\ UNCHANGED <<cache, mu, failures, faults, overlap, raced>>

ForgetIdentity ==
    /\ ids # {}
    /\ \E e \in ids : ids' = ids \ {e}
    /\ UNCHANGED <<db, cache, mu, failures, faults, call, overlap, raced>>

-----------------------------------------------------------------------------
\* Where a statement may fail and the call ends with its error.
Fallible == {"read", "list", "softdelete", "mint", "update", "replace", "store", "drop",
             "alias", "account", "find", "refind", "cookie", "session", "identity"}

Fail(c) ==
    /\ call[c].pc \in Fallible
    /\ Fails(c)

Step(c) ==
    \/ LookUp(c) \/ ReadKey(c) \/ ReadByok(c) \/ ReadLists(c)
    \/ SetLock(c) \/ SetIndex(c) \/ SetAdd(c) \/ SetCheck(c)
    \/ Invalidate(c) \/ RemoveOne(c)
    \/ ListKeys(c) \/ SoftDeleteAPIKey(c) \/ MintKey(c)
    \/ UpdateSettings(c) \/ ReplaceByok(c) \/ StoreByok(c) \/ DropByok(c) \/ SetAliases(c)
    \/ CheckLimit(c) \/ ValidateKey(c) \/ NoteFailure(c) \/ UpsertByAiandUser(c)
    \/ FindInstallation(c) \/ EnsureInstallation(c) \/ IssueLoginSession(c) \/ OpenDashboard(c)
    \/ ResolveUser(c)

Next ==
    \/ \E c \in Callers : Begin(c) \/ Refuse(c) \/ Step(c) \/ Fail(c)
    \/ \E hash \in DOMAIN cache.pos : Age(hash)
    \/ \E hash \in cache.neg : AgeNegative(hash)
    \/ FailuresExpire \/ ForgetIdentity

\* Goroutines that have started are scheduled; nothing obliges a caller to come.
Spec == Init /\ [][Next]_vars /\ \A c \in Callers : WF_vars(Step(c))

-----------------------------------------------------------------------------
Done(c, op, res) == call[c].op = op /\ At(c, "done") /\ call[c].res = res

\* RotateAPIKey: however rotations and deletions of one key race, at most one
\* of them mints a successor, so no credential is live that nobody was told of
\* (service.go:208-212, rotate_race_test.go).
RotateOneSuccessor ==
    \A c, d \in Callers :
        call[c].op = "rotate" /\ call[d].op = "rotate" /\ call[c].arg = call[d].arg
        /\ call[c].made # None /\ call[d].made # None => c = d

\* apikey_cache.go:34-43: once no Set or invalidation is at work on a key, a
\* cached entry is in the index, so the next invalidation reaches it.  The one
\* exception is an eviction of the old entry that ran under a Set: its callback
\* takes the new entry out of the index.
IndexTracksCache ==
    \A h \in DOMAIN cache.pos :
        \/ h \in raced \/ <<cache.pos[h].inst, h>> \in cache.index \/ Removing(h)
        \/ \E c \in Callers : At(c, "check") /\ call[c].arg = h

\* service.go:573-582: a key's cluster restrictions are never lost to a failed
\* read for longer than the request that met it: what is cached was read.
RestrictionsNeverDropped ==
    \A h \in DOMAIN cache.pos : cache.pos[h].scope = "routing" => cache.pos[h].lists = "read"

\* analytics_key.go:14-17: whichever surface filled the cache, a routing call is
\* never served by an analytics key or by a record without its provider keys,
\* and an analytics call never sees provider keys.
SurfacesSeparate ==
    \A c \in Callers :
        /\ Done(c, "verify", "accepted") =>
              call[c].entry.scope = "routing" /\ call[c].entry.lists # "slim"
        /\ Done(c, "analytics", "accepted") =>
              call[c].entry.scope = "analytics" /\ call[c].entry.byok = {}

\* account_login.go:170-172 and UpsertAccount: concurrent first logins of one
\* user end in one account and one installation, and every session that was
\* issued opens the installation of its own account.
LoginsConverge ==
    /\ \A a, b \in db.accounts : a.user = b.user => a = b
    /\ \A i, j \in Active(db.insts) : i.owner = j.owner => i = j
    /\ \A s \in db.sessions : \E i \in db.insts : i.id = s.inst /\ i.owner = s.account

\* UpsertExternalAPIKey replaces a key in two statements: whatever races it, an
\* installation that has stored a provider key has one when all is quiet,
\* unless it was deleted or a statement failed.
ByokSurvives ==
    \A c \in Callers :
        (Done(c, "byok", "ok") \/ Done(c, "login", "ok"))
        /\ faults = 0 /\ (\A d \in Callers : call[d].op # "dropByok" /\ ~At(d, "store"))
        => GetForInstallation(db.ext, call[c].inst) # {}

\* login.go:77-99: the peer is locked out by keys that were refused, never by
\* an outage of the identity service, a lack of credits or a database error.
LockoutEarned ==
    failures <= Cardinality({ c \in Callers : call[c].op = "login" /\ call[c].res = "refused" })

\* UpsertModelRouterUserByEmail: an e-mail address has one user row, and every
\* request that carried it was attributed to that row.
EmailUserStable ==
    \A c, d \in Callers :
        Done(c, "resolve", "ok") /\ Done(d, "resolve", "ok")
        /\ call[c].arg[1] # None /\ call[c].arg[1] = call[d].arg[1]
        => call[c].made = call[d].made

\* One person is one account, one installation and one user row.
IdentityStable == LoginsConverge /\ EmailUserStable

\* service.go:243-246: a verification that starts after DeleteAPIKey returned
\* refuses the key, if no verification of it was under way during the delete and
\* every invalidation that was under way is over.
DeletedKeyRefused ==
    \A c \in Callers :
        (Done(c, "verify", "accepted") \/ Done(c, "analytics", "accepted"))
        /\ call[c].arg \in call[c].after
        => call[c].arg \in overlap \union raced

\* What a verification lets in: keys of its own surface, with the restrictions
\* of their installation, and no key deleted before.
AdmissionSound == SurfacesSeparate /\ RestrictionsNeverDropped /\ DeletedKeyRefused

\* apikey_cache.go:41-43: the mutex is never held while the LRU calls back, so
\* every call that has begun returns.
CallsReturn ==
    \A c \in Callers : (call[c].pc # "idle") ~> At(c, "done")
=============================================================================
