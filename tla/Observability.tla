--------------------------- MODULE Observability ---------------------------
(* The telemetry table and the OTLP emitter.  They share no state, and the  *)
(* readers of the table write nothing another reader sees: a behaviour      *)
(* exercises one reader, or the emitter, and leaves the others alone.       *)
EXTENDS Telemetry, OtelEmitter, Loops

vars == <<telemetryVars, emitterVars>>

\* Bound: a behaviour ends with the answer of its dashboard or feedback request.
Answered == board.rollup # Null \/ feedback.last # Null

Init == TelemetryInit /\ NewEmitter

Next ==
    \/ scenario.reader # "spans" /\ ~Answered /\ (TurnNext \/ ReaderNext) /\ UNCHANGED emitterVars
    \/ scenario.reader = "spans" /\ EmitterNext /\ UNCHANGED telemetryVars

Spec == Init /\ [][Next]_vars

-----------------------------------------------------------------------------
(* The export.  Rows are immutable and pages are keyset pages: a consumer    *)
(* that follows the cursors stores every row of its installation once, in    *)
(* order, and no other; and a row that commits late never lands behind the   *)
(* cursor it already holds (analytics/service.go, Holdback).                 *)
ExportExactlyOnce ==
    LET row(id) == CHOOSE r \in rows : r.id = id
    IN /\ \A i \in DOMAIN export.got :
             \E r \in Upstream(rows) : r.id = export.got[i] /\ r.inst = export.inst
       /\ \A i, j \in DOMAIN export.got : i < j =>
             Precedes(KeyOf(row(export.got[i])), KeyOf(row(export.got[j])))
       /\ \A r \in Upstream(rows) :
             r.inst = export.inst /\ export.cursor # NoCursor /\ ~Precedes(export.cursor, KeyOf(r)) =>
                \E i \in DOMAIN export.got : export.got[i] = r.id

(* The dashboard.  At every granularity the buckets, and the per-model       *)
(* buckets in the columns they have, add up to the summary of the same       *)
(* window; the all-installations statements add up over the installations;   *)
(* the rows of the details page are the rows counted; the costs of an        *)
(* installation's sessions are those of its turns plus the auxiliary calls;  *)
(* and the savings of a summary, read by a second statement from totals per  *)
(* model and provider, are those of the rows counted by the first plus rows  *)
(* that arrived in between, as long as a binding's total fits an int32       *)
(* (postgres/telemetry.go, cache_savings.go).                                *)
UsageColumns == {"count", "tokens", "actual", "write", "read"}
CostColumns  == UsageColumns \union {"requested"}

SumOf(lines, cols) == [ c \in cols |-> FoldSeq(LAMBDA l, acc : l.of[c] + acc, 0, lines) ]

Counted(summary) == [ c \in CostColumns |-> summary[c] ]

MaxRows == Cardinality(Turns)

SavedBy(rs) ==
    MapThenSumSet(LAMBDA r : CacheInputSavings(BindingOf(r), r.read), { r \in rs : r.read # Null })

DashboardConsistent ==
    scenario.reader = "dashboard" =>
      /\ \A from \in {0, 2}, to \in {MaxTime + 1}, unit \in Granularities :
           LET all == Counted(GetTelemetrySummaryAll(rows, from, to))
               of(inst) == Counted(GetTelemetrySummary(rows, inst, from, to))
               used(summary) == [ c \in UsageColumns |-> summary[c] ]
           IN /\ \A inst \in Insts :
                   /\ SumOf(GetTelemetryTimeseries(rows, inst, from, to, unit), CostColumns) = of(inst)
                   /\ SumOf(GetTelemetryModelBreakdown(rows, inst, from, to, unit), UsageColumns)
                        = used(of(inst))
                   /\ Len(GetTelemetryRows(rows, inst, from, to, MaxRows)) = of(inst).count
              /\ Len(GetTelemetryRowsAll(rows, from, to, MaxRows)) = all.count
              /\ SumOf(GetTelemetryTimeseriesAll(rows, from, to, unit), CostColumns) = all
              /\ SumOf(GetTelemetryModelBreakdownAll(rows, from, to, unit), UsageColumns) = used(all)
              /\ \A c \in DOMAIN all : all[c] = MapThenSumSet(LAMBDA inst : of(inst)[c], Insts)
      /\ \A inst \in Insts :
           LET cost(k) == LET c == GetSessionCost(rows, inst, k) IN IF c.found THEN c.actual ELSE 0
           IN MapThenSumSet(cost, Keys) =
                Counted(GetTelemetrySummary(rows, inst, 0, MaxTime + 1)).actual
              + Total({ r \in rows : r.inst = inst /\ r.span = "auxiliary" }, "actual")
      /\ board.rollup # Null /\ (\A g \in board.rollup : g.read <= Int32Max) =>
           LET mine(rs) == { r \in Upstream(rs) : board.inst \in {Null, r.inst} }
           IN /\ SumCacheInputSavings(board.rollup) >= SavedBy(mine(board.rows))
              /\ SumCacheInputSavings(board.rollup) <= SavedBy(mine(rows))

(* /rf N rates the turn the user saw N-th, /rf -N the N-th from the end, once *)
(* the rows of the turns seen so far are in; a turn that carries its own      *)
(* strategy is reported to no other (proxy/router_feedback.go).               *)
SeenOf(key) == Keep(shown, {t \in Turns : Turn[t].key = key})

AllIn(key) == \A t \in Range(SeenOf(key)) : turns[t].phase = "done"

FeedbackHitsTurn ==
    [][ LET c == feedback'.last
            seen == SeenOf(c.key)
            n == IF c.seq > 0 THEN c.seq ELSE Len(seen) + 1 + c.seq
        IN feedback' # feedback =>
             /\ AllIn(c.key) /\ c.seq # 0 /\ c.req # Null =>
                   c.req = IF n \in DOMAIN seen THEN seen[n] ELSE NoTurn
             /\ \A m \in feedback'.told :
                   m.req # Null /\ Turn[m.req].kind = "served" /\ Turn[m.req].strategy # Null =>
                      m.strategy = Turn[m.req].strategy ]_feedback

(* Spans.  Every span and log record a request flushes is in one place: still *)
(* pending, queued, in a worker's batch, dropped, or posted once; no send     *)
(* meets a closed channel; and a Shutdown that drained leaves nothing that    *)
(* was accepted unposted (otel/emitter.go).                                  *)
Places(i) ==
      Cardinality({ k \in Kinds : Contains(queue[k], i) })
    + Cardinality({ w \in WorkerIds : Contains(batch[w], i) })
    + Cardinality({ r \in Requests : Contains(pending[r], i) })
    + (IF i \in dropped THEN 1 ELSE 0) + posted[i]

SpansAccounted ==
    /\ ~panicked
    /\ \A i \in Items : i.req \in flushed =>
          /\ Places(i) = 1
          /\ shutdown = "drained" => i \in dropped \/ posted[i] = 1 \/ Contains(pending[i.req], i)
=============================================================================
