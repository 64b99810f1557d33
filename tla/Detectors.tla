------------------------------ MODULE Detectors ------------------------------
(* What the router reads out of a conversation: the tool-call and narration *)
(* signals behind its interventions, and the kind of turn a request is.     *)
(*                                                                          *)
(* A conversation is a sequence of messages: a role; whether a user message *)
(* holds something a person typed, an injected wrapper or neither; an       *)
(* assistant's narration; its tool calls; and a user message's results.     *)
(* Inputs, paths and texts are opaque and compared for equality, as their   *)
(* hashes are.  Ratios are percentages.                                     *)
EXTENDS Integers, SequencesExt

CONSTANTS
  cyclicLoopWindowSize, cyclicLoopMinCalls, cyclicLoopMaxDistinctPct,
  spiralMinToolCalls, spiralErrStreakThreshold, spiralSameFileEditThreshold,
  spiralRepeatWindow, spiralRepeatMinCalls, spiralRepeatPct,
  spiralMonologueThreshold, spiralPingPongThreshold, spiralNoProgressThreshold,
  textRepetitionWindow, textRepetitionThreshold, Brief,
  noProgressWindowSize, noProgressMatchThreshold, noProgressTimeWindow,
  compactionMinHistoryMessages,
  struggleEarlyTurns, struggleEarlyWall, struggleLateTurns, struggleLateWall

ASSUME ThresholdAssumption ==
  /\ struggleEarlyTurns <= struggleLateTurns /\ struggleEarlyWall <= struggleLateWall
  /\ cyclicLoopMinCalls <= cyclicLoopWindowSize
  /\ noProgressMatchThreshold <= noProgressWindowSize

None == "none"
editToolNames == {"Edit", "Write"}

-----------------------------------------------------------------------------
(* Sequences cut from the end. *)
LastN(s, n) == IF Len(s) > n THEN SubSeq(s, Len(s) - n + 1, Len(s)) ELSE s

(* The messages after the last one that P holds of. *)
Since(c, P(_)) ==
  LET hits == {i \in DOMAIN c : P(c[i])}
  IN  IF hits = {} THEN c ELSE SubSeq(c, Max(hits) + 1, Len(c))

Count(s, v) == Cardinality({i \in DOMAIN s : s[i] = v})

Typed(m) == m.role = "user" /\ m.typed = "typed"

CallsOf(c) == FlattenSeq([i \in DOMAIN c |-> IF c[i].role = "assistant" THEN c[i].calls ELSE <<>>])
ResultsOf(c) == FlattenSeq([i \in DOMAIN c |-> IF c[i].role = "user" THEN c[i].results ELSE <<>>])
Named(calls) == SelectSeq(calls, LAMBDA k : k.name # None)

(* A typed prompt starts the window anew; calls without input are skipped. *)
AssistantToolCallSignatures(c) ==
  LET kept == SelectSeq(Named(CallsOf(Since(c, Typed))), LAMBDA k : k.input # None)
  IN  [i \in DOMAIN kept |-> <<kept[i].name, kept[i].input>>]

-----------------------------------------------------------------------------
(* The loop detectors. *)
detectCyclicToolCallLoop(c) ==
  LET sigs == AssistantToolCallSignatures(c)
      window == LastN(sigs, cyclicLoopWindowSize)
  IN  /\ Len(sigs) >= cyclicLoopMinCalls
      /\ \A s \in Range(window) : s[1] \notin editToolNames
      /\ 100 * Cardinality(Range(window)) < cyclicLoopMaxDistinctPct * Len(window)

TrailingErrStreak(c) == Len(Since(ResultsOf(c), LAMBDA r : ~r.errored))

AssistantToolCallOutcomes(c) ==
  LET calls == Named(CallsOf(c))
      answers(k) == SelectSeq(ResultsOf(c), LAMBDA r : r.id = k.id)
  IN  [i \in DOMAIN calls |->
        [name |-> calls[i].name, resolved |-> answers(calls[i]) # <<>>,
         errored |-> answers(calls[i]) # <<>> /\ Last(answers(calls[i])).errored]]

EditAttempted(c) == \E o \in Range(AssistantToolCallOutcomes(c)) : o.name \in editToolNames

(* An edit still in flight counts as progress. *)
stepsSinceProgress(c) ==
  Len(Since(AssistantToolCallOutcomes(c),
            LAMBDA o : o.name \in editToolNames /\ (~o.resolved \/ ~o.errored)))

EditedPaths(c) ==
  SelectSeq(Named(CallsOf(c)), LAMBDA k : k.path # None /\ k.name \in editToolNames)

maxSameFileEdits(c) ==
  LET paths == [i \in DOMAIN EditedPaths(c) |-> EditedPaths(c)[i].path]
  IN  IF paths = <<>> THEN 0 ELSE Max({Count(paths, p) : p \in Range(paths)})

(* Assistant messages since the last tool call or the last user content. *)
TrailingAssistantMonologue(c) ==
  Len(SelectSeq(Since(c, LAMBDA m : \/ m.role = "assistant" /\ m.calls # <<>>
                                    \/ m.role = "user" /\ m.typed # None),
                LAMBDA m : m.role = "assistant"))

repeatsEnough(sigs) ==
  LET window == LastN(sigs, spiralRepeatWindow)
      repeated == Cardinality({i \in DOMAIN window : Count(window, window[i]) > 1})
  IN  /\ Len(sigs) >= spiralRepeatWindow
      /\ 100 * repeated >= spiralRepeatPct * Len(window)

(* The trailing run in which every signature is the one two before it. *)
trailingPingPongLen(sigs) ==
  LET n == Len(sigs)
      run == Len(SubSeq(sigs, Max({0} \cup {i \in 1..n - 2 : sigs[i] # sigs[i + 2]}) + 1, n))
  IN  IF n < 4 \/ sigs[n] = sigs[n - 1] \/ run < 4 THEN 0 ELSE run

spiralReasons(c) ==
  LET sigs == AssistantToolCallSignatures(c)
      n == Len(sigs)
      crossed(r) ==
        CASE r = "err_streak"       -> TrailingErrStreak(c) >= spiralErrStreakThreshold
          [] r = "same_file_thrash" -> maxSameFileEdits(c) >= spiralSameFileEditThreshold
          [] r = "repetition"       -> n >= spiralRepeatMinCalls /\ repeatsEnough(sigs)
          [] r = "monologue"        -> TrailingAssistantMonologue(c) >= spiralMonologueThreshold
          [] r = "ping_pong"        -> trailingPingPongLen(sigs) >= spiralPingPongThreshold
          [] r = "no_progress"      -> EditAttempted(c) /\ stepsSinceProgress(c) >= spiralNoProgressThreshold
  IN  IF n < spiralMinToolCalls THEN <<>>
      ELSE SelectSeq(<<"err_streak", "same_file_thrash", "repetition", "monologue",
                       "ping_pong", "no_progress">>, crossed)

TrailingAssistantTexts(c) ==
  LET said == SelectSeq(Since(c, Typed), LAMBDA m : m.role = "assistant" /\ m.text # None)
  IN  [i \in DOMAIN said |-> said[i].text]

detectTextRepetition(c) ==
  LET window == LastN(TrailingAssistantTexts(c), textRepetitionWindow)
  IN  \E t \in Range(window) \ Brief : Count(window, t) >= textRepetitionThreshold

(* The highest operating point the session has crossed; late supersedes early. *)
struggleReason(turnCount, wall) ==
  CASE turnCount >= struggleLateTurns /\ wall >= struggleLateWall -> "late"
    [] ~(turnCount >= struggleLateTurns /\ wall >= struggleLateWall)
       /\ turnCount >= struggleEarlyTurns /\ wall >= struggleEarlyWall -> "early"
    [] OTHER -> None

-----------------------------------------------------------------------------
(* Detectors that remember earlier requests, one memory per replica. *)
toolProgressMarker(c) ==
  LET sigs == AssistantToolCallSignatures(c)
  IN  IF sigs = <<>> THEN <<>> ELSE <<Len(sigs), Last(sigs)>>

computeNoProgressFingerprint(model, c) ==
  <<model, IF toolProgressMarker(c) = <<>> THEN Len(c) ELSE 0, toolProgressMarker(c)>>

fingerprintRing(ring, fp, now) == LastN(Append(ring, [fp |-> fp, when |-> now]), noProgressWindowSize)

recordAndDetect(ring, fp, now) ==
  LET r == fingerprintRing(ring, fp, now)
  IN  Cardinality({i \in DOMAIN r : r[i].fp = fp /\ r[i].when >= now - noProgressTimeWindow})
        >= noProgressMatchThreshold

CountsOf(c) == [msgs |-> Len(c), calls |-> Len(AssistantToolCallSignatures(c))]

(* compactionTracker.checkAndRecord: history the client cut, by either count. *)
prefixTrimmed(last, counts) ==
  \/ counts.msgs < last.msgs /\ last.msgs >= compactionMinHistoryMessages
  \/ counts.calls < last.calls /\ counts.msgs >= compactionMinHistoryMessages

-----------------------------------------------------------------------------
(* The kind of a turn: the first mark that applies, else how the request ends. *)
DetectFromEnvelope(q) ==
  LET marks == SelectSeq(<<"probe", "title_gen", "compaction", "sub_agent_dispatch", "classifier">>,
                         LAMBDA k : k \in q.marks)
  IN  CASE marks # <<>> -> Head(marks)
        [] marks = <<>> /\ q.conv # <<>> /\ Last(q.conv).results # <<>> -> "tool_result"
        [] OTHER -> "main_loop"

toolBearingTurn(c) ==
  \/ AssistantToolCallSignatures(c) # <<>>
  \/ \E i \in DOMAIN c : /\ c[i].role = "user" /\ c[i].results # <<>>
                         /\ \A j \in i + 1..Len(c) : c[j].role # "user"
=============================================================================
