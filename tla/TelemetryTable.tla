--------------------------- MODULE TelemetryTable ---------------------------
(* The request telemetry table and the statements over it.  A table is a set *)
(* of rows; a statement is an operator from the table to its result.  Token  *)
(* and cost columns are added up per row as the statements add them, a NULL  *)
(* cache counter is Null and is skipped by SUM.  Event time is counted in    *)
(* hours, of which a day has HoursPerDay and a week DaysPerWeek times that.  *)
EXTENDS Integers, FiniteSetsExt, SequencesExt, TLC

CONSTANTS Null, HoursPerDay, DaysPerWeek,
          Int32Max,      \* stands for 2^31 - 1
          SavedPerToken  \* <<model, provider>> -> saving of one cached input token; 0: no price

ASSUME TableConstants ==
    {HoursPerDay, DaysPerWeek, Int32Max} \subseteq Nat \ {0} /\ Null \notin Int

Granularities == {"hour", "day", "week"}

\* InsertRequestTelemetry: ON CONFLICT (installation, request, span) DO NOTHING.
InsertRequestTelemetry(rows, r) ==
    IF \E o \in rows : o.inst = r.inst /\ o.req = r.req /\ o.span = r.span
    THEN rows ELSE rows \union {r}

-----------------------------------------------------------------------------
(* Aggregates of the dashboard.                                             *)

Upstream(rows) == { r \in rows : r.span = "upstream" }

\* The WHERE clause of the per-installation statements, and of the others.
Window(rows, inst, from, to) ==
    { r \in Upstream(rows) : r.inst = inst /\ r.time >= from /\ r.time < to }

\* Without the span filter it counts auxiliary calls as served turns.
WindowAllMutant(rows, from, to) == { r \in rows : r.time >= from /\ r.time < to }

WindowAll(rows, from, to) == { r \in Upstream(rows) : r.time >= from /\ r.time < to }

\* COALESCE(SUM(column), 0)
Total(rs, col) == MapThenSumSet(LAMBDA r : r[col], { r \in rs : r[col] # Null })

\* The columns of the per-model buckets; summary and buckets add the requested cost.
Usage(rs) ==
    [ count |-> Cardinality(rs), tokens |-> Total(rs, "tokens"), actual |-> Total(rs, "actual"),
      write |-> Total(rs, "write"), read |-> Total(rs, "read") ]

Totals(rs) == Usage(rs) @@ [ requested |-> Total(rs, "requested") ]

Summary(rs) ==
    Totals(rs) @@ [ savings |-> Total(rs, "requested") - Total(rs, "actual"),
                    hits |-> Cardinality({ r \in rs : r.hit = TRUE }) ]

GetTelemetrySummary(rows, inst, from, to) == Summary(Window(rows, inst, from, to))
GetTelemetrySummaryAll(rows, from, to) == Summary(WindowAll(rows, from, to))

\* date_trunc
Trunc(unit, t) ==
    LET len == CASE unit = "hour" -> 1
                 [] unit = "day" -> HoursPerDay
                 [] unit = "week" -> HoursPerDay * DaysPerWeek
    IN t - (t % len)

\* GROUP BY key ... ORDER BY key: one line per key, with the key in front.
Grouped(rs, Key(_), Before(_, _), Columns(_)) ==
    LET line(k) == [key |-> k, of |-> Columns({ r \in rs : Key(r) = k })]
    IN SetToSortSeq({ line(Key(r)) : r \in rs }, LAMBDA a, b : Before(a.key, b.key))

Timeseries(rs, unit) == Grouped(rs, LAMBDA r : Trunc(unit, r.time), LAMBDA a, b : a < b, Totals)

\* The order of models within a bucket is that of their names: left open.
ModelBreakdown(rs, unit) ==
    Grouped(rs, LAMBDA r : <<Trunc(unit, r.time), r.model>>, LAMBDA a, b : a[1] < b[1], Usage)

GetTelemetryTimeseriesHourly(rows, inst, from, to) == Timeseries(Window(rows, inst, from, to), "hour")
GetTelemetryTimeseriesDaily(rows, inst, from, to)  == Timeseries(Window(rows, inst, from, to), "day")
GetTelemetryTimeseriesWeekly(rows, inst, from, to) == Timeseries(Window(rows, inst, from, to), "week")
GetTelemetryTimeseriesHourlyAll(rows, from, to)    == Timeseries(WindowAll(rows, from, to), "hour")
GetTelemetryTimeseriesDailyAll(rows, from, to)     == Timeseries(WindowAll(rows, from, to), "day")
GetTelemetryTimeseriesWeeklyAll(rows, from, to)    == Timeseries(WindowAll(rows, from, to), "week")

GetTelemetryModelBreakdownHourly(rows, inst, from, to) == ModelBreakdown(Window(rows, inst, from, to), "hour")
GetTelemetryModelBreakdownDaily(rows, inst, from, to)  == ModelBreakdown(Window(rows, inst, from, to), "day")
GetTelemetryModelBreakdownWeekly(rows, inst, from, to) == ModelBreakdown(Window(rows, inst, from, to), "week")
GetTelemetryModelBreakdownHourlyAll(rows, from, to)    == ModelBreakdown(WindowAll(rows, from, to), "hour")
GetTelemetryModelBreakdownDailyAll(rows, from, to)     == ModelBreakdown(WindowAll(rows, from, to), "day")
GetTelemetryModelBreakdownWeeklyAll(rows, from, to)    == ModelBreakdown(WindowAll(rows, from, to), "week")

\* The repository picks the statement; anything but week and day is hourly.
GetTelemetryTimeseries(rows, inst, from, to, unit) ==
    CASE unit = "week" -> GetTelemetryTimeseriesWeekly(rows, inst, from, to)
      [] unit = "day"  -> GetTelemetryTimeseriesDaily(rows, inst, from, to)
      [] OTHER         -> GetTelemetryTimeseriesHourly(rows, inst, from, to)

GetTelemetryTimeseriesAll(rows, from, to, unit) ==
    CASE unit = "week" -> GetTelemetryTimeseriesWeeklyAll(rows, from, to)
      [] unit = "day"  -> GetTelemetryTimeseriesDailyAll(rows, from, to)
      [] OTHER         -> GetTelemetryTimeseriesHourlyAll(rows, from, to)

GetTelemetryModelBreakdown(rows, inst, from, to, unit) ==
    CASE unit = "week" -> GetTelemetryModelBreakdownWeekly(rows, inst, from, to)
      [] unit = "day"  -> GetTelemetryModelBreakdownDaily(rows, inst, from, to)
      [] OTHER         -> GetTelemetryModelBreakdownHourly(rows, inst, from, to)

GetTelemetryModelBreakdownAll(rows, from, to, unit) ==
    CASE unit = "week" -> GetTelemetryModelBreakdownWeeklyAll(rows, from, to)
      [] unit = "day"  -> GetTelemetryModelBreakdownDailyAll(rows, from, to)
      [] OTHER         -> GetTelemetryModelBreakdownHourlyAll(rows, from, to)

\* The latest rows of a window, at most limit of them.
Latest(rs, limit) ==
    LET s == SetToSortSeq(rs, LAMBDA a, b : a.time > b.time)
    IN SubSeq(s, 1, Min({limit, Len(s)}))

GetTelemetryRows(rows, inst, from, to, limit) == Latest(Window(rows, inst, from, to), limit)
GetTelemetryRowsAll(rows, from, to, limit) == Latest(WindowAll(rows, from, to), limit)

-----------------------------------------------------------------------------
(* Savings of prompt-cache reads, from totals per binding of model and       *)
(* provider: prices are those of a binding.                                  *)

BindingOf(r) == <<r.model, r.provider>>

Rollup(rs) ==
    LET hit == { r \in rs : r.read # Null /\ r.read > 0 }
    IN { [binding |-> b, read |-> Total({ r \in hit : BindingOf(r) = b }, "read")] :
            b \in { BindingOf(r) : r \in hit } }

GetTelemetryCacheReadRollup(rows, inst, from, to) == Rollup(Window(rows, inst, from, to))
GetTelemetryCacheReadRollupAll(rows, from, to) == Rollup(WindowAll(rows, from, to))

\* int32(x) of a 64-bit total: the low bits, as a signed number.
AsInt32(x) ==
    LET span == 2 * (Int32Max + 1)
        low == x % span
    IN IF low > Int32Max THEN low - span ELSE low

\* A binding without a price saves nothing.
CacheInputSavings(binding, read) == read * SavedPerToken[binding]

SumCacheInputSavings(rollup) ==
    MapThenSumSet(LAMBDA g : CacheInputSavings(g.binding, AsInt32(g.read)), rollup)

-----------------------------------------------------------------------------
\* ORDER BY columns that tell any two of the rows apart.
Ordered(rs, Before(_, _)) ==
    CHOOSE s \in [1 .. Cardinality(rs) -> rs] :
        \A i, j \in 1 .. Cardinality(rs) : i < j => Before(s[i], s[j])

(* A session's cost and the turn a sequence number names.                    *)

Billed(rows, inst, sess) ==
    { r \in rows : r.inst = inst /\ r.sess = sess /\ r.span \in {"upstream", "auxiliary"} }

\* No row, unknown session and foreign session look the same.
GetSessionCost(rows, inst, sess) ==
    LET rs == Billed(rows, inst, sess)
    IN IF rs = {} THEN [found |-> FALSE]
       ELSE [ found |-> TRUE, count |-> Cardinality(rs), tokens |-> Total(rs, "tokens"),
              actual |-> Total(rs, "actual"), requested |-> Total(rs, "requested"),
              read |-> Total(rs, "read"), recorded |-> Max({ r.created : r \in rs }) ]

\* The user-visible turns of a session's role.
MainTurns(rows, inst, key) ==
    { r \in Upstream(rows) : r.inst = inst /\ r.key = key /\ r.turn = "main_loop" }

\* By ingest time: a late insert changes places.
TurnBeforeMutant(a, b) == a.created < b.created \/ (a.created = b.created /\ a.req < b.req)

TurnBefore(a, b) == a.time < b.time \/ (a.time = b.time /\ a.req < b.req)
TurnAfter(a, b)  == TurnBefore(b, a)

GetTelemetryBySessionAsc(rows, inst, key, offset) ==
    LET s == Ordered(MainTurns(rows, inst, key), TurnBefore)
    IN IF offset < Len(s) THEN s[offset + 1].req ELSE Null

GetTelemetryBySessionDesc(rows, inst, key, offset) ==
    LET s == Ordered(MainTurns(rows, inst, key), TurnAfter)
    IN IF offset < Len(s) THEN s[offset + 1].req ELSE Null

\* 1 is the first turn, -1 the last.
GetTelemetryBySessionSequence(rows, inst, key, seq) ==
    IF seq > 0 THEN GetTelemetryBySessionAsc(rows, inst, key, seq - 1)
    ELSE GetTelemetryBySessionDesc(rows, inst, key, -seq - 1)

-----------------------------------------------------------------------------
(* The export.                                                              *)

NoCursor == <<-1, -1>>

KeyOf(r) == <<r.created, r.id>>
Precedes(a, b) == a[1] < b[1] \/ (a[1] = b[1] /\ a[2] < b[2])

\* The rows of [from, to) by ingest time, strictly after the cursor ...
Exportable(rows, inst, from, to, after) ==
    { r \in Upstream(rows) : /\ r.inst = inst /\ r.created >= from /\ r.created < to
                             /\ after = NoCursor \/ Precedes(after, KeyOf(r)) }

\* ... and one keyset page of them.
GetRoutingDecisionsForExport(rows, inst, from, to, after, limit) ==
    LET s == Ordered(Exportable(rows, inst, from, to, after),
                     LAMBDA a, b : Precedes(KeyOf(a), KeyOf(b)))
    IN SubSeq(s, 1, Min({limit, Len(s)}))
=============================================================================
