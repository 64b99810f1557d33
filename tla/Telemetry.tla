----------------------------- MODULE Telemetry -----------------------------
(* Writers and readers of the request telemetry: turns that fire their row  *)
(* from a goroutine with a deadline, the analytics export that pages        *)
(* through the table, the dashboard, and the feedback command that names a  *)
(* turn by its number.                                                      *)
EXTENDS TelemetryTable

CONSTANTS Scenarios,      \* who reads, the turns that write and their row ids, the database's
                          \* clock lag, the last moment
          Strategies,     \* strategies with a feedback reporter
          Strategy,       \* the strategy of a feedback command's request
          InsertTimeout, Holdback, Skew, PageLimit

\* Ids are primary keys.  A session key is derived from the API key that signs
\* its requests: its turns are of one installation.
ASSUME ExportConstants ==
    /\ {InsertTimeout, Holdback, Skew} \subseteq Nat /\ PageLimit \in Nat \ {0}
    /\ InsertTimeout + Skew < Holdback
    /\ \A s \in Scenarios :
         /\ s.lag \in 0..Skew /\ s.end \in Nat
         /\ DOMAIN s.turn \subseteq Nat \ {0} /\ s.id \in Injection(DOMAIN s.turn, Nat)
         /\ \A t \in DOMAIN s.turn :
              /\ s.turn[t].kind \in {"served", "semantic", "auxiliary"}
              /\ \A u \in DOMAIN s.turn : s.turn[u].key = s.turn[t].key => s.turn[u].inst = s.turn[t].inst

VARIABLES
    scenario,  \* the scenario of this behaviour
    now,       \* the router's clock
    turns,     \* turn -> phase, event time, firing time, ingest time
    shown,     \* turns in the order their answers reached the client
    rows,      \* the table
    export,    \* the consumer of an installation: cursor, the page asked for, what it has stored
    board,     \* the summary being assembled from two statements
    feedback   \* request_feedback, router_feedback and what reporters were told

telemetryVars == <<scenario, now, turns, shown, rows, export, board, feedback>>

\* Turns and auxiliary calls are numbered; the number is the request id.
Turn  == scenario.turn
Turns == DOMAIN Turn
MaxTime == scenario.end
Insts == { Turn[t].inst : t \in Turns }
Keys  == { Turn[t].key : t \in Turns }
Main(t) == Turn[t].kind # "auxiliary"

TelemetryInit ==
    /\ scenario \in Scenarios
    /\ now = Skew /\ shown = <<>>
    /\ turns = [t \in Turns |-> [phase |-> "idle", time |-> 0, fired |-> 0, created |-> 0]]
    /\ rows = {}
    /\ export \in [ inst : IF scenario.reader = "export" THEN Insts ELSE {Null},
                    cursor : {NoCursor}, to : {Null}, got : {<<>>} ]
    /\ board = [inst |-> Null, rows |-> {}, summary |-> Null, rollup |-> Null]
    /\ feedback = [thumbs |-> [t \in Turns |-> Null], told |-> {}, last |-> Null]

-----------------------------------------------------------------------------
(* Turns.  The client of a session waits for an answer before its next turn. *)

StartTurn(t) ==
    /\ turns[t].phase = "idle"
    /\ \A o \in Turns : Turn[o].key = Turn[t].key /\ Main(o) /\ turns[o].phase # "idle" =>
          turns[o].phase # "running" /\ turns[o].time < now
    /\ turns' = [turns EXCEPT ![t].phase = "running", ![t].time = now]
    /\ UNCHANGED <<scenario, now, shown, rows, export, board, feedback>>

\* fireTelemetry hands the row to a goroutine.  A served turn is stamped with its
\* start, a semantic-cache hit and an auxiliary call with the moment they fire.
FireTelemetry(t) ==
    /\ turns[t].phase = "running"
    /\ turns' = [turns EXCEPT ![t].phase = "fired", ![t].fired = now,
                              ![t].time = IF Turn[t].kind = "served" THEN @ ELSE now]
    /\ shown' = IF Main(t) THEN Append(shown, t) ELSE shown
    /\ UNCHANGED <<scenario, now, rows, export, board, feedback>>

\* The statement starts: created_at is the database's clock, the id is random.
BeginInsert(t) ==
    /\ turns[t].phase = "fired"
    /\ turns' = [turns EXCEPT ![t].phase = "inserting", ![t].created = now - scenario.lag]
    /\ UNCHANGED <<scenario, now, shown, rows, export, board, feedback>>

ServedRow(t) ==
    LET u == Turn[t]
    IN [ inst |-> u.inst, req |-> t, id |-> scenario.id[t],
         model |-> u.model, provider |-> u.provider,
         time |-> turns[t].time, created |-> turns[t].created,
         span |-> "upstream", key |-> u.key, sess |-> u.key, turn |-> "main_loop",
         strategy |-> u.strategy, hit |-> Null, tokens |-> u.tokens,
         requested |-> u.requested, actual |-> u.actual, write |-> u.write, read |-> u.read ]

\* A semantic-cache hit carries no usage, no session id and no strategy.
SemanticRow(t) ==
    [ServedRow(t) EXCEPT !.sess = Null, !.strategy = Null, !.hit = TRUE, !.tokens = 0,
                         !.requested = 0, !.actual = 0, !.write = Null, !.read = Null]

\* An auxiliary call is billed to the session, at the same price on both sides.
AuxiliaryRow(t) ==
    [ServedRow(t) EXCEPT !.span = "auxiliary", !.key = Null, !.turn = Null, !.strategy = Null,
                         !.requested = Turn[t].actual]

RowOf(t) == CASE Turn[t].kind = "served"    -> ServedRow(t)
              [] Turn[t].kind = "semantic"  -> SemanticRow(t)
              [] Turn[t].kind = "auxiliary" -> AuxiliaryRow(t)

\* The goroutine is gone: only the event time is looked at again.
Settled(t, phase) == [t EXCEPT !.phase = phase, !.fired = 0, !.created = 0]

\* The insert commits, or fails; it is over when the goroutine's deadline passes.
CommitInsert(t) ==
    /\ turns[t].phase = "inserting"
    /\ rows' = InsertRequestTelemetry(rows, RowOf(t))
    /\ turns' = [turns EXCEPT ![t] = Settled(@, "done")]
    /\ UNCHANGED <<scenario, now, shown, export, board, feedback>>

FailInsert(t) ==
    /\ turns[t].phase \in {"fired", "inserting"}
    /\ turns' = [turns EXCEPT ![t] = Settled(@, "lost")]
    /\ UNCHANGED <<scenario, now, shown, rows, export, board, feedback>>

Tick ==
    /\ now < MaxTime
    /\ \A t \in Turns : turns[t].phase \in {"fired", "inserting"} => now < turns[t].fired + InsertTimeout
    /\ now' = now + 1
    /\ UNCHANGED <<scenario, turns, shown, rows, export, board, feedback>>

-----------------------------------------------------------------------------
(* The export of an installation, from the beginning, following cursors.    *)

\* Without the holdback.
ExportBeginMutant ==
    /\ export.to = Null
    /\ export' = [export EXCEPT !.to = now]
    /\ UNCHANGED <<scenario, now, turns, shown, rows, board, feedback>>

\* ExportRoutingDecisions fixes the upper bound of the window ...
ExportBegin ==
    /\ export.to = Null
    /\ export' = [export EXCEPT !.to = now - Holdback]
    /\ UNCHANGED <<scenario, now, turns, shown, rows, board, feedback>>

\* ... then asks for one row more than the page holds.
ExportPage ==
    LET after == export.cursor
        from  == IF after = NoCursor THEN 0 ELSE after[1]
        found == IF from >= export.to THEN <<>>
                 ELSE GetRoutingDecisionsForExport(rows, export.inst, from, export.to, after, PageLimit + 1)
    IN SubSeq(found, 1, Min({PageLimit, Len(found)}))

\* The consumer stores the page and takes its cursor if it has one; after a
\* short read or an error it keeps what it had and retries.
ExportEnd ==
    /\ export.to # Null
    /\ LET page == ExportPage
       IN \/ export' = [export EXCEPT
                !.cursor = IF page = <<>> THEN @ ELSE KeyOf(Last(page)),
                !.to     = Null,
                !.got    = @ \o [i \in DOMAIN page |-> page[i].id]]
          \/ export' = [export EXCEPT !.to = Null]
    /\ UNCHANGED <<scenario, now, turns, shown, rows, board, feedback>>

-----------------------------------------------------------------------------
(* The dashboard: a summary is two statements, rows may arrive in between.   *)

SummaryRead(inst) ==
    /\ board.summary = Null
    /\ board' = [ inst |-> inst, rows |-> rows, rollup |-> Null,
                  summary |-> IF inst = Null THEN GetTelemetrySummaryAll(rows, 0, MaxTime + 1)
                              ELSE GetTelemetrySummary(rows, inst, 0, MaxTime + 1) ]
    /\ UNCHANGED <<scenario, now, turns, shown, rows, export, feedback>>

SavingsRead ==
    /\ board.summary # Null /\ board.rollup = Null
    /\ board' = [board EXCEPT !.rollup =
            IF board.inst = Null THEN GetTelemetryCacheReadRollupAll(rows, 0, MaxTime + 1)
            ELSE GetTelemetryCacheReadRollup(rows, board.inst, 0, MaxTime + 1)]
    /\ UNCHANGED <<scenario, now, turns, shown, rows, export, feedback>>

-----------------------------------------------------------------------------
(* /rf: rates the turn a sequence number names, or the session's last model. *)

\* The request id the command is about, Null when the lookup failed or no number
\* was given, NoTurn when there is no such turn.
NoTurn == 0

Resolved(inst, key, seq, lookupFails) ==
    IF seq = 0 \/ lookupFails THEN Null
    ELSE LET req == GetTelemetryBySessionSequence(rows, inst, key, seq)
         IN IF req = Null THEN NoTurn ELSE req

\* A turn without a strategy of its own is credited to the command's.
Credited(inst, req) ==
    LET own == IF req = Null THEN Null
               ELSE (CHOOSE r \in Upstream(rows) : r.inst = inst /\ r.req = req).strategy
    IN IF own = Null THEN Strategy ELSE own

\* router_feedback is written first and its failure ends the command; the thumb
\* of the request and the report to the strategy follow, best effort.
RouterFeedback(inst, key, seq, rating) ==
    /\ \E lookupFails, thumbFails \in BOOLEAN :
         LET req == Resolved(inst, key, seq, lookupFails)
             who == Credited(inst, req)
         IN IF req = NoTurn THEN feedback' = [feedback EXCEPT !.last = [key |-> key, seq |-> seq, req |-> req]]
            ELSE feedback' =
                   [ thumbs |-> IF req = Null \/ rating = Null \/ thumbFails THEN feedback.thumbs
                                ELSE [feedback.thumbs EXCEPT ![req] = rating],
                     told |-> IF who \in Strategies
                              THEN feedback.told \union {[strategy |-> who, req |-> req]}
                              ELSE feedback.told,
                     last |-> [key |-> key, seq |-> seq, req |-> req] ]
    /\ UNCHANGED <<scenario, now, turns, shown, rows, export, board>>

-----------------------------------------------------------------------------
TurnNext ==
    \/ \E t \in Turns : \/ StartTurn(t) \/ FireTelemetry(t) \/ BeginInsert(t)
                        \/ CommitInsert(t) \/ FailInsert(t)
    \/ Tick

ReaderNext ==
    \/ scenario.reader = "export" /\ (ExportBegin \/ ExportEnd)
    \/ scenario.reader = "dashboard" /\ (SavingsRead \/ \E inst \in Insts \union {Null} : SummaryRead(inst))
    \/ scenario.reader = "feedback" /\
         \E t \in Turns, seq \in -2..2, rating \in {Null, "up"} :
            RouterFeedback(Turn[t].inst, Turn[t].key, seq, rating)
=============================================================================
