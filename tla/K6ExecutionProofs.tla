------------------------- MODULE K6ExecutionProofs -------------------------
(***************************************************************************)
(* What the k6 adapter promises of one execution, from the documents it is *)
(* prepared with to the runtime evidence of the run.                       *)
(*                                                                         *)
(* The run.  The callbacks of ProcessLifecycle are operators on the        *)
(* closure's record, and they nest: a kill may settle the run in the       *)
(* middle of the callback that sent it.  Its invariant is stated on        *)
(* records, and each callback is shown to keep it, for any record it may   *)
(* be given: the record finish() builds passes its own evidence contract,  *)
(* names the cause that came first, and is built once.                     *)
(*                                                                         *)
(* The documents.  A caller may hand over documents of an earlier          *)
(* execution, or damaged ones, to any operation.  The invariant says that  *)
(* each document that was made has a set of documents that is closed under *)
(* naming and holds one version of each kind; each operation is shown to   *)
(* check enough for what it makes to join such a set.  No document then    *)
(* descends from two executions, and the evidence of a run passes          *)
(* validation exactly with the documents it was made of.                   *)
(***************************************************************************)
EXTENDS K6Execution, SourceBundlePublisher, FiniteSetTheorems, TLAPS

Evidences ==
  [terminalState : TerminalStates, events : Seq(EventTypes), observations : SUBSET Observations]

Runs ==
  [spawned : BOOLEAN, reason : Reasons, pending : BOOLEAN, listening : BOOLEAN,
   events : Seq(EventTypes), observations : SUBSET Observations, timers : SUBSET TimerNames,
   evidence : {NoEvidence} \cup Evidences]

\* The events a run ends with, a child's error apart.
Endings ==
  {"CANCELLED_BEFORE_START", "PROCESS_START_FAILED", "PROCESS_EXITED", "FORCE_SETTLEMENT_EXPIRED"}

CauseOf(reason) ==
  CASE reason = "ABORT" -> "CANCELLATION_REQUESTED"
    [] reason = "TIMEOUT" -> "TIMEOUT_REACHED"
    [] reason = "START_TIMEOUT" -> "PROCESS_START_TIMEOUT"
    [] OTHER -> "none"

\* The log of a run: each event once, matching the observations, and the reason
\* is the first cause among the events.
LogSound(r) ==
  /\ r \in Runs
  /\ r.events # <<>> /\ Head(r.events) = "COMMAND_ACCEPTED" /\ IsInjective(r.events)
  /\ ObservationsMatch(r)
  /\ r.reason = "none" => ToSet(r.events) \cap Causes = {}
  /\ r.reason # "none" => CameFirst(r.events, CauseOf(r.reason))
  /\ "CANCELLATION_REQUESTED" \in ToSet(r.events) => r.reason = "ABORT"
  /\ "TIMEOUT_REACHED" \in ToSet(r.events) => r.reason = "TIMEOUT"

\* What a run that is not settled has been through.
Underway(r) ==
  LET has(type) == type \in ToSet(r.events)
      seen(name) == name \in r.observations
  IN /\ ~ Settled(r)
     /\ ToSet(r.events) \cap Endings = {}
     /\ r.listening => seen("processStartAttempted")
     /\ r.spawned <=> seen("processStarted")
     /\ r.pending <=> r.reason \in {"ABORT", "TIMEOUT"}
     /\ r.reason = "TIMEOUT" => r.spawned
     /\ seen("forceKillSignalRequested") => r.reason # "none"
     /\ seen("cooperativeSignalRequested") => r.pending /\ r.spawned
     /\ has("PROCESS_ERROR") =>
          r.reason = "START_TIMEOUT" /\ seen("forceKillSignalRequested")
     /\ "startup" \in r.timers => ~ has("PROCESS_START_TIMEOUT") /\ ~ r.spawned
     /\ "timeout" \in r.timers => r.spawned
     /\ "force" \in r.timers => r.pending
     /\ "forceSettle" \in r.timers => seen("forceKillSignalRequested")

\* What a cause calls for has been done: a child that runs has been asked to
\* stop, and one that did not start in time has been killed.
CauseFollowed(r) ==
  /\ r.spawned /\ r.pending => "cooperativeSignalRequested" \in r.observations
  /\ r.reason = "START_TIMEOUT" => "forceKillSignalRequested" \in r.observations

StatesOf(reason) ==
  CASE reason = "ABORT" -> {"CANCELLED", "CANCELLED_FORCE_TERMINATED",
                            "CANCELLED_FORCE_UNCONFIRMED", "START_FAILED", "PROCESS_ERROR"}
    [] reason = "TIMEOUT" -> {"TIMED_OUT", "TIMED_OUT_FORCE_TERMINATED",
                              "TIMED_OUT_FORCE_UNCONFIRMED", "PROCESS_ERROR"}
    [] reason = "START_TIMEOUT" -> {"START_TIMED_OUT_FORCE_TERMINATED",
                                    "START_TIMED_OUT_FORCE_UNCONFIRMED", "PROCESS_ERROR"}
    [] OTHER -> {"CANCELLED_BEFORE_START", "EXITED", "START_FAILED", "PROCESS_ERROR"}

\* A settled run: its evidence is its log, and its terminal state fits both.
Over(r) ==
  /\ Settled(r)
  /\ r.evidence.events = r.events /\ r.evidence.observations = r.observations
  /\ Len(r.events) >= 2
  /\ TerminalMatches(r.evidence)
  /\ r.evidence.terminalState \in StatesOf(r.reason)
  /\ "CANCELLED_BEFORE_START" \in ToSet(r.events) =>
       r.evidence.terminalState = "CANCELLED_BEFORE_START"

RunSound(r) ==
  /\ LogSound(r)
  /\ IF Settled(r) THEN Over(r) ELSE Underway(r) /\ CauseFollowed(r)

\* What a callback leaves of a run, unless it settles it.
KeptSound(q, r) ==
  /\ RunSound(q)
  /\ ~ Settled(q) => ~ Settled(r) /\ q.spawned = r.spawned /\ q.listening = r.listening

\* The run and the process it is about.
Inv ==
  /\ phase \in {"called", "waiting", "rejected"}
  /\ child \in ChildStates
  /\ aborted \in BOOLEAN
  /\ RunSound(run)
  /\ phase # "waiting" =>
       /\ ~ Settled(run) /\ run.timers = {} /\ run.observations = {} /\ child = "none"
       /\ run.reason = "none" /\ run.events = <<"COMMAND_ACCEPTED">>
  /\ ~ Settled(run) => (run.spawned <=> child = "running")
  /\ ~ Settled(run) /\ child # "none" => run.listening

-----------------------------------------------------------------------------
(* Sequences of events                                                       *)

\* What an event adds to a log.
LEMMA Logged ==
  ASSUME NEW s \in Seq(EventTypes), s # <<>>, NEW type \in EventTypes
  PROVE  LET t == Append(s, type) IN
         /\ t \in Seq(EventTypes) /\ t # <<>> /\ Len(t) = Len(s) + 1 /\ Len(t) >= 2
         /\ Head(t) = Head(s) /\ Last(t) = type
         /\ ToSet(t) = ToSet(s) \cup {type}
         /\ IsInjective(s) /\ type \notin ToSet(s) => IsInjective(t)
         /\ \A cause : CameFirst(s, cause) => CameFirst(t, cause)
         /\ ToSet(s) \cap Causes = {} /\ type \in Causes => CameFirst(t, type)
<1> PICK t : t = Append(s, type) OBVIOUS
<1>1. /\ t \in Seq(EventTypes) /\ Len(t) = Len(s) + 1 /\ Len(s) \in Nat /\ Len(s) # 0
      /\ DOMAIN t = 1..(Len(s) + 1) /\ DOMAIN s = 1..Len(s)
      /\ t[Len(s) + 1] = type /\ \A i \in 1..Len(s) : t[i] = s[i]
  OBVIOUS
<1>2. t # <<>> /\ Len(t) >= 2 BY <1>1
<1>3. Head(t) = Head(s) BY <1>1
<1>4. Last(t) = type BY <1>1 DEF Last
<1>5. ToSet(t) = ToSet(s) \cup {type} BY <1>1 DEF ToSet
<1>6. ASSUME IsInjective(s), type \notin ToSet(s) PROVE IsInjective(t)
  BY <1>1, <1>6 DEF IsInjective, ToSet
<1>7. ASSUME NEW cause, CameFirst(s, cause) PROVE CameFirst(t, cause)
  BY <1>1, <1>7 DEF CameFirst
<1>8. ASSUME ToSet(s) \cap Causes = {}, type \in Causes PROVE CameFirst(t, type)
  BY <1>1, <1>8 DEF CameFirst, ToSet
<1> QED BY <1>1, <1>2, <1>3, <1>4, <1>5, <1>6, <1>7, <1>8

\* Only one cause came first.
LEMMA OneCameFirst ==
  ASSUME NEW s \in Seq(EventTypes), NEW c \in Causes, NEW d \in Causes,
         CameFirst(s, c), CameFirst(s, d)
  PROVE  c = d
<1>1. PICK i \in DOMAIN s : s[i] = c /\ \A j \in 1..(i - 1) : s[j] \notin Causes
  BY DEF CameFirst
<1>2. PICK k \in DOMAIN s : s[k] = d /\ \A j \in 1..(k - 1) : s[j] \notin Causes
  BY DEF CameFirst
<1>3. i \in Nat \ {0} /\ k \in Nat \ {0} OBVIOUS
<1>4. ~ (i < k) /\ ~ (k < i) BY <1>1, <1>2, <1>3
<1> QED BY <1>1, <1>2, <1>3, <1>4

\* A log that names no event twice is within the contract's limit.
LEMMA LogIsShort ==
  ASSUME NEW s \in Seq(EventTypes), IsInjective(s)
  PROVE  Len(s) <= 16
<1> PICK U : U = 1..12 OBVIOUS
<1>1. IsFiniteSet(U) /\ Cardinality(U) = 12
  <2>1. IsFiniteSet(1..12) /\ Cardinality(1..12) = IF 1 > 12 THEN 0 ELSE 12 - 1 + 1
    <3>1. 1 \in Int /\ 12 \in Int OBVIOUS
    <3> QED BY <3>1, FS_Interval, Zenon
  <2> QED BY <2>1
<1>2. PICK f : f \in Surjection(U, EventTypes)
  <2> DEFINE f == [i \in U |->
      CASE i = 1 -> "COMMAND_ACCEPTED" [] i = 2 -> "CANCELLED_BEFORE_START"
        [] i = 3 -> "PROCESS_SPAWNED" [] i = 4 -> "PROCESS_START_TIMEOUT"
        [] i = 5 -> "TIMEOUT_REACHED" [] i = 6 -> "CANCELLATION_REQUESTED"
        [] i = 7 -> "COOPERATIVE_SIGNAL_REQUESTED" [] i = 8 -> "FORCE_KILL_SIGNAL_REQUESTED"
        [] i = 9 -> "PROCESS_EXITED" [] i = 10 -> "PROCESS_START_FAILED"
        [] i = 11 -> "PROCESS_ERROR" [] OTHER -> "FORCE_SETTLEMENT_EXPIRED"]
  <2>1. \A i \in U : f[i] \in EventTypes BY DEF EventTypes
  <2>2. \A i \in {1, 2, 3, 4, 5, 6, 7, 8, 9, 10, 11, 12} : i \in U OBVIOUS
  <2>3. \A e \in EventTypes : \E i \in U : f[i] = e
    <3>1. f[1] = "COMMAND_ACCEPTED" /\ f[2] = "CANCELLED_BEFORE_START" BY <2>2
    <3>2. f[3] = "PROCESS_SPAWNED" /\ f[4] = "PROCESS_START_TIMEOUT" BY <2>2
    <3>3. f[5] = "TIMEOUT_REACHED" /\ f[6] = "CANCELLATION_REQUESTED" BY <2>2
    <3>4. f[7] = "COOPERATIVE_SIGNAL_REQUESTED" /\ f[8] = "FORCE_KILL_SIGNAL_REQUESTED" BY <2>2
    <3>5. f[9] = "PROCESS_EXITED" /\ f[10] = "PROCESS_START_FAILED" BY <2>2
    <3>6. f[11] = "PROCESS_ERROR" /\ f[12] = "FORCE_SETTLEMENT_EXPIRED" BY <2>2
    <3> HIDE DEF f
    <3> QED BY <2>2, <3>1, <3>2, <3>3, <3>4, <3>5, <3>6 DEF EventTypes
  <2>4. f \in [U -> EventTypes] BY <2>1
  <2> HIDE DEF f
  <2> QED BY <2>3, <2>4 DEF Surjection
<1>3. IsFiniteSet(EventTypes) /\ Cardinality(EventTypes) <= 12
  <2>1. IsFiniteSet(EventTypes) /\ Cardinality(EventTypes) <= Cardinality(U)
    BY <1>1, <1>2, FS_Surjection, Zenon
  <2> QED BY <1>1, <2>1
<1>4. s \in Injection(1..Len(s), EventTypes) BY DEF Injection, IsInjective
<1>5. IsFiniteSet(1..Len(s)) /\ Cardinality(1..Len(s)) <= Cardinality(EventTypes)
  BY <1>3, <1>4, FS_Injection
<1>6. Cardinality(1..Len(s)) = Len(s)
  <2>1. 1 \in Int /\ Len(s) \in Int /\ Len(s) >= 0 OBVIOUS
  <2>2. Cardinality(1..Len(s)) = IF 1 > Len(s) THEN 0 ELSE Len(s) - 1 + 1
    BY <2>1, FS_Interval, Zenon
  <2> QED BY <2>1, <2>2
<1>7. Cardinality(EventTypes) \in Nat BY <1>3, FS_CardinalityType
<1> QED BY <1>3, <1>5, <1>6, <1>7

-----------------------------------------------------------------------------
(* The helpers of the closure                                                *)

\* A log grows by an event that is new to it, and by a cause only with its reason.
LEMMA LogGrows ==
  ASSUME NEW r, LogSound(r), NEW q \in Runs, NEW type \in EventTypes \ ToSet(r.events),
         q.events = Append(r.events, type), ObservationsMatch(q),
         \/ /\ q.reason = r.reason
            /\ type \notin {"CANCELLATION_REQUESTED", "TIMEOUT_REACHED"}
            /\ r.reason = "none" => type \notin Causes
         \/ r.reason = "none" /\ q.reason # "none" /\ type = CauseOf(q.reason)
  PROVE  LogSound(q)
<1>1. r \in Runs /\ r.events \in Seq(EventTypes) /\ r.events # <<>> BY DEF LogSound, Runs
<1>2. q.events # <<>> /\ Head(q.events) = "COMMAND_ACCEPTED" /\ IsInjective(q.events)
  BY <1>1, Logged DEF LogSound
<1>3. ToSet(q.events) = ToSet(r.events) \cup {type} BY <1>1, Logged
<1>4. q.reason \in Reasons BY DEF Runs
<1>5. q.reason = "none" => ToSet(q.events) \cap Causes = {} BY <1>3 DEF LogSound
<1>6. ASSUME q.reason # "none" PROVE CameFirst(q.events, CauseOf(q.reason))
  <2>1. CASE q.reason = r.reason BY <1>1, <1>6, <2>1, Logged DEF LogSound
  <2>2. CASE r.reason = "none" /\ type = CauseOf(q.reason)
    <3>1. type \in Causes BY <1>4, <1>6, <2>2 DEF Reasons, CauseOf, Causes
    <3>2. ToSet(r.events) \cap Causes = {} BY <2>2 DEF LogSound
    <3> QED BY <1>1, <2>2, <3>1, <3>2, Logged
  <2> QED BY <2>1, <2>2
<1>7. /\ "CANCELLATION_REQUESTED" \in ToSet(q.events) => q.reason = "ABORT"
      /\ "TIMEOUT_REACHED" \in ToSet(q.events) => q.reason = "TIMEOUT"
  <2>1. CASE q.reason = r.reason /\ type \notin {"CANCELLATION_REQUESTED", "TIMEOUT_REACHED"}
    BY <1>3, <2>1 DEF LogSound
  <2>2. CASE r.reason = "none" /\ type = CauseOf(q.reason) /\ q.reason # "none"
    BY <1>3, <1>4, <2>2 DEF LogSound, CauseOf, Reasons, Causes
  <2> QED BY <2>1, <2>2
<1> QED BY <1>2, <1>5, <1>6, <1>7 DEF LogSound

\* Nothing a log says changes with the fields it does not mention.
LEMMA LogKept ==
  ASSUME NEW r, LogSound(r), NEW q \in Runs,
         q.events = r.events, q.observations = r.observations, q.reason = r.reason
  PROVE  LogSound(q)
  BY DEF LogSound, ObservationsMatch

\* finish() on a log that its terminal state fits.
LEMMA Finished ==
  ASSUME NEW r, LogSound(r), ~ Settled(r), Len(r.events) >= 2,
         NEW state \in StatesOf(r.reason),
         "CANCELLED_BEFORE_START" \in ToSet(r.events) => state = "CANCELLED_BEFORE_START",
         TerminalMatches([terminalState |-> state, events |-> r.events,
                          observations |-> r.observations])
  PROVE  RunSound(Finish(r, state)) /\ Settled(Finish(r, state))
<1> PICK e : e = [terminalState |-> state, events |-> r.events, observations |-> r.observations]
  OBVIOUS
<1> PICK q : q = Finish(r, state) OBVIOUS
<1>1. r \in Runs BY DEF LogSound
<1>2. state \in TerminalStates BY <1>1 DEF Runs, Reasons, StatesOf, TerminalStates
<1>3. e \in Evidences BY <1>1, <1>2 DEF Runs, Evidences
<1>4. e # NoEvidence BY <1>2 DEF NoEvidence, TerminalStates
<1>5. q = [r EXCEPT !.timers = {}, !.listening = FALSE, !.evidence = e] BY DEF Finish
<1>6. /\ q \in Runs /\ q.evidence = e
      /\ q.events = r.events /\ q.observations = r.observations /\ q.reason = r.reason
  BY <1>1, <1>3, <1>5 DEF Runs
<1>7. Settled(q) BY <1>4, <1>6 DEF Settled
<1>8. LogSound(q) BY <1>6, LogKept
<1>9. Over(q) BY <1>6, <1>7 DEF Over
<1> QED BY <1>7, <1>8, <1>9 DEF RunSound

\* A timer that is armed for what has been done, or fires.
LEMMA TimersSound ==
  ASSUME NEW r, RunSound(r), NEW timers \in SUBSET TimerNames,
         "startup" \in timers => "startup" \in r.timers,
         "timeout" \in timers => "timeout" \in r.timers \/ r.spawned,
         "force" \in timers => "force" \in r.timers \/ r.pending,
         "forceSettle" \in timers =>
           "forceSettle" \in r.timers \/ "forceKillSignalRequested" \in r.observations
  PROVE  RunSound([r EXCEPT !.timers = timers])
<1> PICK q : q = [r EXCEPT !.timers = timers] OBVIOUS
<1>1. r \in Runs BY DEF RunSound, LogSound
<1>2. /\ q \in Runs /\ q.timers = timers /\ q.evidence = r.evidence
      /\ q.events = r.events /\ q.observations = r.observations /\ q.reason = r.reason
      /\ q.spawned = r.spawned /\ q.pending = r.pending /\ q.listening = r.listening
  BY <1>1 DEF Runs
<1>3. LogSound(q) BY <1>2, LogKept DEF RunSound
<1>4. Settled(q) <=> Settled(r) BY <1>2 DEF Settled
<1>5. CASE Settled(r) BY <1>2, <1>3, <1>4, <1>5 DEF RunSound, Over
<1>6. CASE ~ Settled(r)
  <2>1. Underway(q) BY <1>2, <1>4, <1>6 DEF RunSound, Underway
  <2>2. CauseFollowed(q) BY <1>2, <1>6 DEF RunSound, CauseFollowed
  <2> QED BY <1>3, <1>4, <1>6, <2>1, <2>2 DEF RunSound
<1> QED BY <1>5, <1>6

\* An event that is only noted, with observations that match it.
LEMMA Noted ==
  ASSUME NEW r, LogSound(r), NEW type \in EventTypes \ ToSet(r.events),
         NEW q, q \in Runs, q.events = Append(r.events, type)
  PROVE  /\ q.events # <<>> /\ Len(q.events) >= 2 /\ Last(q.events) = type
         /\ ToSet(q.events) = ToSet(r.events) \cup {type}
<1>1. r.events \in Seq(EventTypes) /\ r.events # <<>> BY DEF LogSound, Runs
<1> QED BY <1>1, Logged

\* onError on a run that is not settled: it settles the run, or adds the error to
\* the log of a child that is being killed because it did not start.
LEMMA ErrorSound ==
  ASSUME NEW r, LogSound(r), Underway(r), CauseFollowed(r),
         "PROCESS_ERROR" \notin ToSet(r.events)
  PROVE  /\ RunSound(OnError(r))
         /\ ~ Settled(OnError(r)) => OnError(r) = PushEvent(r, "PROCESS_ERROR")
<1>1. r \in Runs /\ ~ Settled(r) BY DEF LogSound, Underway
<1>2. r.events \in Seq(EventTypes) /\ r.reason \in Reasons BY <1>1 DEF Runs
<1>3. ASSUME NEW type \in {"PROCESS_ERROR", "PROCESS_START_FAILED"}, type \notin ToSet(r.events)
      PROVE  LET q == PushEvent(r, type) IN
             /\ LogSound(q) /\ ~ Settled(q) /\ Len(q.events) >= 2 /\ Last(q.events) = type
             /\ q = [r EXCEPT !.events = q.events]
             /\ ToSet(q.events) = ToSet(r.events) \cup {type}
  <2> PICK q : q = PushEvent(r, type) OBVIOUS
  <2>1. type \in EventTypes BY <1>3 DEF EventTypes
  <2>2. Append(r.events, type) \in Seq(EventTypes) BY <1>2, <2>1
  <2>3. /\ q \in Runs /\ q.events = Append(r.events, type) /\ q.reason = r.reason
        /\ q.observations = r.observations /\ q.evidence = r.evidence
        /\ q = [r EXCEPT !.events = q.events]
    BY <1>1, <2>2 DEF PushEvent, Runs
  <2>4. /\ Len(q.events) >= 2 /\ Last(q.events) = type
        /\ ToSet(q.events) = ToSet(r.events) \cup {type}
    <3>1. type \in EventTypes \ ToSet(r.events) BY <1>3, <2>1
    <3>2. q \in Runs /\ q.events = Append(r.events, type) BY <2>3
    <3> QED BY <3>1, <3>2, Noted, ZenonT(60)
  <2>5. ObservationsMatch(q) BY <1>3, <2>3, <2>4 DEF LogSound, ObservationsMatch
  <2>6. LogSound(q) BY <1>3, <2>1, <2>3, <2>5, LogGrows DEF Causes
  <2> QED BY <1>1, <2>3, <2>4, <2>6 DEF Settled
<1>4. CASE r.reason = "START_TIMEOUT" /\ ~ r.spawned
  <2> PICK q : q = PushEvent(r, "PROCESS_ERROR") OBVIOUS
  <2>1. /\ LogSound(q) /\ ~ Settled(q) /\ q = [r EXCEPT !.events = q.events]
        /\ ToSet(q.events) = ToSet(r.events) \cup {"PROCESS_ERROR"}
    BY <1>3
  <2>2. /\ q.spawned = r.spawned /\ q.pending = r.pending /\ q.reason = r.reason
        /\ q.observations = r.observations /\ q.timers = r.timers /\ q.listening = r.listening
    BY <1>1, <2>1 DEF Runs
  <2>3. CauseFollowed(q) BY <2>2 DEF CauseFollowed
  <2>4. Underway(q) BY <1>4, <2>1, <2>2 DEF Underway, CauseFollowed, Endings
  <2>5. OnError(r) = q BY <1>1, <1>4 DEF OnError
  <2> QED BY <2>1, <2>3, <2>4, <2>5 DEF RunSound
<1>5. CASE r.spawned
  <2> PICK q : q = PushEvent(r, "PROCESS_ERROR") OBVIOUS
  <2>1. /\ LogSound(q) /\ ~ Settled(q) /\ q = [r EXCEPT !.events = q.events]
        /\ Len(q.events) >= 2 /\ Last(q.events) = "PROCESS_ERROR"
        /\ "CANCELLED_BEFORE_START" \notin ToSet(q.events)
    BY <1>3 DEF Underway, Endings
  <2>2. q.reason = r.reason /\ q.observations = r.observations BY <1>1, <2>1 DEF Runs
  <2>3. "processStarted" \in q.observations BY <1>5, <2>2 DEF Underway
  <2>4. "PROCESS_ERROR" \in StatesOf(q.reason) BY <1>2, <2>2 DEF StatesOf, Reasons
  <2>5. TerminalMatches([terminalState |-> "PROCESS_ERROR", events |-> q.events,
                         observations |-> q.observations])
    BY <2>1, <2>3 DEF TerminalMatches
  <2>6. OnError(r) = Finish(q, "PROCESS_ERROR") BY <1>1, <1>5 DEF OnError
  <2> QED BY <2>1, <2>4, <2>5, <2>6, Finished
<1>6. CASE ~ r.spawned /\ r.reason # "START_TIMEOUT"
  <2> PICK q : q = PushEvent(r, "PROCESS_START_FAILED") OBVIOUS
  <2>1. /\ LogSound(q) /\ ~ Settled(q) /\ q = [r EXCEPT !.events = q.events]
        /\ Len(q.events) >= 2 /\ Last(q.events) = "PROCESS_START_FAILED"
        /\ "CANCELLED_BEFORE_START" \notin ToSet(q.events)
    BY <1>3 DEF Underway, Endings
  <2>2. q.reason = r.reason /\ q.observations = r.observations BY <1>1, <2>1 DEF Runs
  <2>3. "processStarted" \notin q.observations BY <1>6, <2>2 DEF Underway
  <2>4. "START_FAILED" \in StatesOf(q.reason)
    BY <1>2, <1>6, <2>2 DEF StatesOf, Reasons, Underway
  <2>5. TerminalMatches([terminalState |-> "START_FAILED", events |-> q.events,
                         observations |-> q.observations])
    BY <2>1, <2>3 DEF TerminalMatches
  <2>6. OnError(r) = Finish(q, "START_FAILED") BY <1>1, <1>6 DEF OnError
  <2> QED BY <2>1, <2>4, <2>5, <2>6, Finished
<1> QED BY <1>4, <1>5, <1>6
\* safeKill and the timer armed after it, once the signal is noted as requested.
LEMMA KillSound ==
  ASSUME NEW r, LogSound(r), Underway(r), CauseFollowed(r),
         "PROCESS_ERROR" \notin ToSet(r.events),
         NEW sent, NEW timer, NEW result \in KillResults,
         \/ /\ sent = "cooperativeSignalSent" /\ timer = "force"
            /\ r.pending /\ "cooperativeSignalRequested" \in r.observations
         \/ /\ sent = "forceKillSignalSent" /\ timer = "forceSettle"
            /\ "forceKillSignalRequested" \in r.observations
  PROVE  KeptSound(Armed(SafeKill(r, sent, result), timer), r)
<1> PICK k : k = SafeKill(r, sent, result) OBVIOUS
<1>1. r \in Runs /\ ~ Settled(r) BY DEF LogSound, Underway
<1>2. /\ KeptSound(k, r) /\ k \in Runs
      /\ k.pending = r.pending /\ r.observations \subseteq k.observations
  <2>1. CASE result = "sent"
    <3>1. k = [r EXCEPT !.observations = r.observations \cup {sent}]
      BY <2>1 DEF SafeKill, Observed
    <3>2. sent \in Observations BY DEF Observations
    <3>3. /\ k \in Runs /\ k.observations = r.observations \cup {sent}
          /\ k.events = r.events /\ k.reason = r.reason /\ k.evidence = r.evidence
          /\ k.timers = r.timers /\ k.pending = r.pending
          /\ k.spawned = r.spawned /\ k.listening = r.listening
      BY <1>1, <3>1, <3>2 DEF Runs
    <3>4. LogSound(k) BY <3>3 DEF LogSound, ObservationsMatch
    <3>5. ~ Settled(k) BY <1>1, <3>3 DEF Settled
    <3>6. Underway(k) BY <3>3, <3>5 DEF Underway
    <3>7. CauseFollowed(k) BY <3>3 DEF CauseFollowed
    <3> QED BY <1>1, <3>3, <3>4, <3>5, <3>6, <3>7 DEF RunSound, KeptSound
  <2>2. CASE result = "refused"
    <3>1. k = r BY <2>2 DEF SafeKill
    <3> QED BY <1>1, <3>1 DEF RunSound, KeptSound
  <2>3. CASE result = "error"
    <3>1. k = OnError(r) BY <2>3 DEF SafeKill
    <3>2. RunSound(k) /\ k \in Runs BY <3>1, ErrorSound DEF RunSound, LogSound
    <3>3. /\ k.pending = r.pending /\ k.observations = r.observations
          /\ ~ Settled(k) => k.spawned = r.spawned /\ k.listening = r.listening
      <4>1. k.pending = r.pending /\ k.observations = r.observations
        BY <1>1, <3>1 DEF OnError, Finish, PushEvent, Runs
      <4>2. ~ Settled(k) => k.spawned = r.spawned /\ k.listening = r.listening
        BY <1>1, <3>1, ErrorSound DEF PushEvent, Runs
      <4> QED BY <4>1, <4>2
    <3> QED BY <1>1, <3>2, <3>3 DEF KeptSound
  <2> QED BY <2>1, <2>2, <2>3 DEF KillResults
<1> PICK q : q = [k EXCEPT !.timers = k.timers \cup {timer}] OBVIOUS
<1>3. /\ k.timers \cup {timer} \in SUBSET TimerNames
      /\ q.evidence = k.evidence /\ q.spawned = k.spawned /\ q.listening = k.listening
  BY <1>2 DEF Runs, TimerNames
<1>4. RunSound(q) BY <1>2, <1>3, TimersSound DEF KeptSound
<1>5. q = Armed(SafeKill(r, sent, result), timer) BY DEF Armed
<1> QED BY <1>2, <1>3, <1>4, <1>5 DEF KeptSound, Settled

\* A run that has a reason to end is killed at most once.
LEMMA ForceKillSound ==
  ASSUME NEW r, LogSound(r), Underway(r), r.reason # "none",
         r.spawned /\ r.pending => "cooperativeSignalRequested" \in r.observations,
         NEW result \in KillResults
  PROVE  KeptSound(ForceKillRequested(r, result), r)
<1>1. r \in Runs /\ ~ Settled(r) BY DEF LogSound, Underway
<1>2. CASE "forceKillSignalRequested" \in r.observations
  <2>1. CauseFollowed(r) BY <1>2 DEF CauseFollowed
  <2> QED BY <1>1, <1>2, <2>1 DEF ForceKillRequested, RunSound, KeptSound
<1>3. CASE "forceKillSignalRequested" \notin r.observations
  <2> PICK q : q = PushEvent(Observed(r, {"forceKillSignalRequested"}),
                             "FORCE_KILL_SIGNAL_REQUESTED")
    OBVIOUS
  <2>1. /\ "forceKillSignalRequested" \in Observations
        /\ "FORCE_KILL_SIGNAL_REQUESTED" \in EventTypes \ ToSet(r.events)
    BY <1>3 DEF LogSound, ObservationsMatch, Observations, EventTypes
  <2>2. Append(r.events, "FORCE_KILL_SIGNAL_REQUESTED") \in Seq(EventTypes)
    BY <1>1, <2>1 DEF Runs
  <2>3. /\ q \in Runs /\ q.events = Append(r.events, "FORCE_KILL_SIGNAL_REQUESTED")
        /\ q.observations = r.observations \cup {"forceKillSignalRequested"}
        /\ q.reason = r.reason /\ q.evidence = r.evidence /\ q.timers = r.timers
        /\ q.pending = r.pending /\ q.spawned = r.spawned /\ q.listening = r.listening
    BY <1>1, <2>1, <2>2 DEF PushEvent, Observed, Runs
  <2>4. ToSet(q.events) = ToSet(r.events) \cup {"FORCE_KILL_SIGNAL_REQUESTED"}
    <3>1. \A type \in EventTypes \ ToSet(r.events) :
            q.events = Append(r.events, type) => ToSet(q.events) = ToSet(r.events) \cup {type}
      BY <2>3, Noted
    <3> QED BY <2>1, <2>3, <3>1
  <2>5. ObservationsMatch(q) BY <2>3, <2>4 DEF LogSound, ObservationsMatch
  <2>6. LogSound(q) BY <2>1, <2>3, <2>5, LogGrows DEF Causes
  <2>7. ~ Settled(q) BY <1>1, <2>3 DEF Settled
  <2>8. Underway(q) BY <2>3, <2>4, <2>7 DEF Underway, Endings
  <2>9. CauseFollowed(q) BY <2>3 DEF CauseFollowed
  <2>10. "PROCESS_ERROR" \notin ToSet(q.events) BY <1>3, <2>4 DEF Underway
  <2>11. KeptSound(Armed(SafeKill(q, "forceKillSignalSent", result), "forceSettle"), q)
    BY <2>3, <2>6, <2>8, <2>9, <2>10, KillSound
  <2>12. ForceKillRequested(r, result)
           = Armed(SafeKill(q, "forceKillSignalSent", result), "forceSettle")
    BY <1>3 DEF ForceKillRequested
  <2> QED BY <1>1, <2>3, <2>11, <2>12 DEF KeptSound
<1> QED BY <1>2, <1>3

\* A child that runs is asked to stop once; one that has not been announced is
\* left to onSpawn.
LEMMA CooperativeSound ==
  ASSUME NEW r, LogSound(r), Underway(r), r.pending, NEW result \in KillResults
  PROVE  KeptSound(SendCooperativeCancellation(r, result), r)
<1>1. r \in Runs /\ ~ Settled(r) BY DEF LogSound, Underway
<1>2. r.reason \in {"ABORT", "TIMEOUT"} BY DEF Underway
<1>3. CASE ~ r.spawned \/ "cooperativeSignalRequested" \in r.observations
  <2>1. CauseFollowed(r) BY <1>2, <1>3 DEF CauseFollowed
  <2>2. SendCooperativeCancellation(r, result) = r BY <1>3 DEF SendCooperativeCancellation
  <2> QED BY <1>1, <2>1, <2>2 DEF RunSound, KeptSound
<1>4. CASE r.spawned /\ "cooperativeSignalRequested" \notin r.observations
  <2> PICK q : q = PushEvent(Observed(r, {"cooperativeSignalRequested"}),
                             "COOPERATIVE_SIGNAL_REQUESTED")
    OBVIOUS
  <2>1. /\ "cooperativeSignalRequested" \in Observations
        /\ "COOPERATIVE_SIGNAL_REQUESTED" \in EventTypes \ ToSet(r.events)
    BY <1>4 DEF LogSound, ObservationsMatch, Observations, EventTypes
  <2>2. Append(r.events, "COOPERATIVE_SIGNAL_REQUESTED") \in Seq(EventTypes)
    BY <1>1, <2>1 DEF Runs
  <2>3. /\ q \in Runs /\ q.events = Append(r.events, "COOPERATIVE_SIGNAL_REQUESTED")
        /\ q.observations = r.observations \cup {"cooperativeSignalRequested"}
        /\ q.reason = r.reason /\ q.evidence = r.evidence /\ q.timers = r.timers
        /\ q.pending = r.pending /\ q.spawned = r.spawned /\ q.listening = r.listening
    BY <1>1, <2>1, <2>2 DEF PushEvent, Observed, Runs
  <2>4. ToSet(q.events) = ToSet(r.events) \cup {"COOPERATIVE_SIGNAL_REQUESTED"}
    BY <2>1, <2>3, Noted, ZenonT(60)
  <2>5. ObservationsMatch(q) BY <2>3, <2>4 DEF LogSound, ObservationsMatch
  <2>6. LogSound(q) BY <2>1, <2>3, <2>5, LogGrows DEF Causes
  <2>7. ~ Settled(q) BY <1>1, <2>3 DEF Settled
  <2>8. Underway(q) BY <1>4, <2>3, <2>4, <2>7 DEF Underway, Endings
  <2>9. CauseFollowed(q) BY <1>2, <2>3 DEF CauseFollowed
  <2>10. "PROCESS_ERROR" \notin ToSet(q.events) BY <1>2, <2>4 DEF Underway
  <2>11. KeptSound(Armed(SafeKill(q, "cooperativeSignalSent", result), "force"), q)
    BY <2>3, <2>6, <2>8, <2>9, <2>10, KillSound
  <2>12. SendCooperativeCancellation(r, result)
           = Armed(SafeKill(q, "cooperativeSignalSent", result), "force")
    BY <1>1, <1>4 DEF SendCooperativeCancellation
  <2> QED BY <1>1, <2>3, <2>11, <2>12 DEF KeptSound
<1> QED BY <1>3, <1>4

\* The first reason to cancel, and the signal it calls for.
LEMMA CancellationSound ==
  ASSUME NEW r, RunSound(r), NEW reason \in {"ABORT", "TIMEOUT"},
         ~ Settled(r) /\ reason = "TIMEOUT" => r.spawned, NEW result \in KillResults
  PROVE  KeptSound(RequestCancellation(r, reason, result), r)
<1>1. r \in Runs BY DEF RunSound, LogSound
<1>2. CASE Settled(r) \/ r.reason # "none" BY <1>1, <1>2 DEF RequestCancellation, KeptSound
<1>3. CASE ~ Settled(r) /\ r.reason = "none"
  <2> PICK seen : seen = IF reason = "TIMEOUT" THEN "timeoutTriggered" ELSE "abortRequested"
    OBVIOUS
  <2> PICK type : type = CauseOf(reason) OBVIOUS
  <2> PICK q : q = CancellationNoted(r, reason) OBVIOUS
  <2>1. LogSound(r) /\ Underway(r) BY <1>3 DEF RunSound
  <2>2. /\ reason = "TIMEOUT" => type = "TIMEOUT_REACHED" /\ seen = "timeoutTriggered"
        /\ reason = "ABORT" => type = "CANCELLATION_REQUESTED" /\ seen = "abortRequested"
    BY DEF CauseOf
  <2>3. type \in EventTypes \ ToSet(r.events) /\ type \in Causes /\ seen \in Observations
    <3>1. type \in EventTypes /\ type \in Causes /\ seen \in Observations
      BY <2>2 DEF EventTypes, Causes, Observations
    <3>2. ToSet(r.events) \cap Causes = {} BY <1>3, <2>1 DEF LogSound
    <3> QED BY <3>1, <3>2
  <2>4. Append(r.events, type) \in Seq(EventTypes) BY <1>1, <2>3 DEF Runs
  <2>5. reason \in Reasons /\ reason # "none" BY DEF Reasons
  <2>6. /\ q \in Runs /\ q.events = Append(r.events, type)
        /\ q.observations = r.observations \cup {seen}
        /\ q.reason = reason /\ q.evidence = r.evidence /\ q.timers = r.timers
        /\ q.pending /\ q.spawned = r.spawned /\ q.listening = r.listening
    <3>1. q = [r EXCEPT !.reason = reason, !.pending = TRUE, !.events = Append(r.events, type),
                        !.observations = r.observations \cup {seen}]
      <4>1. CASE reason = "TIMEOUT"
        BY <1>1, <2>2, <4>1 DEF CancellationNoted, PushEvent, Observed, Runs
      <4>2. CASE reason = "ABORT"
        BY <1>1, <2>2, <4>2 DEF CancellationNoted, PushEvent, Observed, Runs
      <4> QED BY <4>1, <4>2
    <3> QED BY <1>1, <2>3, <2>4, <2>5, <3>1 DEF Runs
  <2>7. ToSet(q.events) = ToSet(r.events) \cup {type}
    <3>1. q \in Runs /\ q.events = Append(r.events, type) BY <2>6
    <3>2. type \in EventTypes \ ToSet(r.events) BY <2>3
    <3> QED BY <2>1, <3>1, <3>2, Noted, ZenonT(60)
  <2>8. ObservationsMatch(q)
    <3>1. CASE reason = "TIMEOUT"
      BY <2>1, <2>2, <2>6, <2>7, <3>1 DEF LogSound, ObservationsMatch
    <3>2. CASE reason = "ABORT"
      BY <2>1, <2>2, <2>6, <2>7, <3>2 DEF LogSound, ObservationsMatch
    <3> QED BY <3>1, <3>2
  <2>9. LogSound(q) BY <1>3, <2>1, <2>3, <2>5, <2>6, <2>8, LogGrows
  <2>10. ~ Settled(q) BY <1>3, <2>6 DEF Settled
  <2>11. Underway(q)
    BY <1>3, <2>1, <2>2, <2>5, <2>6, <2>7, <2>10 DEF Underway, Endings
  <2>12. KeptSound(SendCooperativeCancellation(q, result), q)
    BY <2>6, <2>9, <2>11, CooperativeSound
  <2>13. RequestCancellation(r, reason, result) = SendCooperativeCancellation(q, result)
    BY <1>3 DEF RequestCancellation
  <2> QED BY <1>3, <2>6, <2>12, <2>13 DEF KeptSound
<1> QED BY <1>2, <1>3

\* A child whose start is not acknowledged in time is killed, whatever else it
\* was asked before.
LEMMA StartupTimeoutSound ==
  ASSUME NEW r, RunSound(r),
         ~ Settled(r) => /\ ~ r.spawned /\ "startup" \notin r.timers
                         /\ "PROCESS_START_TIMEOUT" \notin ToSet(r.events),
         NEW result \in KillResults
  PROVE  KeptSound(OnStartupTimeout(r, result), r)
<1>1. r \in Runs BY DEF RunSound, LogSound
<1>2. CASE Settled(r) BY <1>1, <1>2 DEF OnStartupTimeout, KeptSound
<1>3. CASE ~ Settled(r)
  <2> PICK seen : seen = {"startupTimeoutTriggered", "processStartUnknown"} OBVIOUS
  <2> PICK reason : reason = IF r.reason = "none" THEN "START_TIMEOUT" ELSE r.reason OBVIOUS
  <2> PICK q : q = [StartTimeoutNoted(r) EXCEPT !.reason = reason] OBVIOUS
  <2>1. LogSound(r) /\ Underway(r) /\ CauseFollowed(r) BY <1>3 DEF RunSound
  <2>2. /\ "PROCESS_START_TIMEOUT" \in EventTypes \ ToSet(r.events)
        /\ seen \subseteq Observations /\ reason \in Reasons /\ reason # "none"
    BY <1>1, <1>3 DEF EventTypes, Observations, Runs, Reasons
  <2>3. Append(r.events, "PROCESS_START_TIMEOUT") \in Seq(EventTypes)
    BY <1>1, <2>2 DEF Runs
  <2>4. /\ q \in Runs /\ q.events = Append(r.events, "PROCESS_START_TIMEOUT")
        /\ q.observations = r.observations \cup seen
        /\ q.reason = reason /\ q.evidence = r.evidence /\ q.timers = r.timers
        /\ q.pending = r.pending /\ q.spawned = r.spawned /\ q.listening = r.listening
    BY <1>1, <2>2, <2>3 DEF StartTimeoutNoted, PushEvent, Observed, Runs
  <2>5. ToSet(q.events) = ToSet(r.events) \cup {"PROCESS_START_TIMEOUT"}
    <3>1. q \in Runs /\ q.events = Append(r.events, "PROCESS_START_TIMEOUT") BY <2>4
    <3>2. "PROCESS_START_TIMEOUT" \in EventTypes \ ToSet(r.events) BY <2>2
    <3> QED BY <2>1, <3>1, <3>2, Noted, ZenonT(60)
  <2>6. "PROCESS_SPAWNED" \notin ToSet(q.events)
    BY <1>3, <2>1, <2>5 DEF LogSound, Underway, ObservationsMatch
  <2>7. ObservationsMatch(q) BY <2>1, <2>4, <2>5, <2>6 DEF LogSound, ObservationsMatch
  <2>8. LogSound(q)
    <3>1. CASE r.reason = "none"
      <4>1. "PROCESS_START_TIMEOUT" = CauseOf(q.reason) BY <2>4, <3>1 DEF CauseOf
      <4> QED BY <2>1, <2>2, <2>4, <2>7, <3>1, <4>1, LogGrows
    <3>2. CASE r.reason # "none" BY <2>1, <2>2, <2>4, <2>7, <3>2, LogGrows
    <3> QED BY <3>1, <3>2
  <2>9. ~ Settled(q) BY <1>3, <2>4 DEF Settled
  <2>10. Underway(q) BY <1>3, <2>1, <2>2, <2>4, <2>5, <2>9 DEF Underway, Endings
  <2>11. KeptSound(ForceKillRequested(q, result), q)
    BY <1>3, <2>2, <2>4, <2>8, <2>10, ForceKillSound
  <2>12. OnStartupTimeout(r, result) = ForceKillRequested(q, result)
    <3>1. q = [StartTimeoutNoted(r) EXCEPT !.reason = IF @ = "none" THEN "START_TIMEOUT" ELSE @]
      BY <1>1 DEF StartTimeoutNoted, PushEvent, Observed, Runs
    <3> QED BY <1>3, <2>9, <3>1 DEF OnStartupTimeout, SendForceKill
  <2> QED BY <1>3, <2>4, <2>11, <2>12 DEF KeptSound
<1> QED BY <1>2, <1>3

\* The start is acknowledged: a child that is to be stopped is signalled now.
LEMMA SpawnSound ==
  ASSUME NEW r, RunSound(r), ~ Settled(r) => ~ r.spawned /\ r.listening,
         NEW result \in KillResults
  PROVE  /\ RunSound(OnSpawn(r, result))
         /\ ~ Settled(OnSpawn(r, result)) =>
              /\ ~ Settled(r)
              /\ OnSpawn(r, result).spawned /\ OnSpawn(r, result).listening
<1>1. r \in Runs BY DEF RunSound, LogSound
<1>2. CASE Settled(r) BY <1>2 DEF OnSpawn
<1>3. CASE ~ Settled(r)
  <2> PICK seen : seen = (r.observations \ {"processStartUnknown"})
                           \cup {"processStarted", "processIdCreated"}
    OBVIOUS
  <2> PICK q : q = StartNoted(r) OBVIOUS
  <2>1. LogSound(r) /\ Underway(r) /\ CauseFollowed(r) BY <1>3 DEF RunSound
  <2>2. /\ "PROCESS_SPAWNED" \in EventTypes \ ToSet(r.events)
        /\ seen \subseteq Observations
    BY <1>1, <1>3, <2>1
    DEF EventTypes, Observations, Runs, LogSound, Underway, ObservationsMatch
  <2>3. Append(r.events, "PROCESS_SPAWNED") \in Seq(EventTypes) BY <1>1, <2>2 DEF Runs
  <2>4. /\ q \in Runs /\ q.events = Append(r.events, "PROCESS_SPAWNED")
        /\ q.observations = seen
        /\ q.reason = r.reason /\ q.evidence = r.evidence
        /\ q.timers = r.timers \ {"startup"}
        /\ q.pending = r.pending /\ q.spawned /\ q.listening = r.listening
    BY <1>1, <2>2, <2>3 DEF StartNoted, PushEvent, Runs
  <2>5. ToSet(q.events) = ToSet(r.events) \cup {"PROCESS_SPAWNED"}
    <3>1. q \in Runs /\ q.events = Append(r.events, "PROCESS_SPAWNED") BY <2>4
    <3>2. "PROCESS_SPAWNED" \in EventTypes \ ToSet(r.events) BY <2>2
    <3> QED BY <2>1, <3>1, <3>2, Noted, ZenonT(60)
  <2>6. ObservationsMatch(q)
    <3>1. "processStartAttempted" \in r.observations BY <1>3, <2>1 DEF Underway
    <3> QED BY <2>1, <2>4, <2>5, <3>1 DEF LogSound, ObservationsMatch
  <2>7. LogSound(q) BY <2>1, <2>2, <2>4, <2>6, LogGrows DEF Causes
  <2>8. ~ Settled(q) BY <1>3, <2>4 DEF Settled
  <2>9. Underway(q) BY <1>3, <2>1, <2>4, <2>5, <2>8 DEF Underway, Endings
  <2> PICK a : a = [q EXCEPT !.timers = q.timers \cup {"timeout"}] OBVIOUS
  <2>10. a = Armed(q, "timeout") BY DEF Armed
  <2>11. /\ a \in Runs /\ a.timers = q.timers \cup {"timeout"}
         /\ a.events = q.events /\ a.observations = q.observations
         /\ a.reason = q.reason /\ a.evidence = q.evidence
         /\ a.pending = q.pending /\ a.spawned /\ a.listening = q.listening
    BY <2>4 DEF Runs, TimerNames
  <2>12. LogSound(a) BY <2>7, <2>11, LogKept
  <2>13. ~ Settled(a) BY <2>8, <2>11 DEF Settled
  <2>14. Underway(a) BY <2>4, <2>9, <2>11, <2>13 DEF Underway
  <2>15. CASE r.reason = "START_TIMEOUT"
    <3>1. CauseFollowed(q) BY <2>1, <2>4, <2>15 DEF CauseFollowed, Underway
    <3>2. OnSpawn(r, result) = q BY <1>3, <2>15 DEF OnSpawn
    <3> QED BY <1>3, <2>4, <2>7, <2>8, <2>9, <3>1, <3>2 DEF RunSound
  <2>16. CASE r.reason # "START_TIMEOUT" /\ r.pending
    <3>1. OnSpawn(r, result) = SendCooperativeCancellation(a, result)
      BY <1>3, <2>10, <2>16 DEF OnSpawn
    <3>2. KeptSound(SendCooperativeCancellation(a, result), a)
      BY <2>4, <2>11, <2>12, <2>14, <2>16, CooperativeSound
    <3> QED BY <1>3, <2>4, <2>11, <3>1, <3>2 DEF KeptSound
  <2>17. CASE r.reason # "START_TIMEOUT" /\ ~ r.pending
    <3>1. OnSpawn(r, result) = a BY <1>3, <2>10, <2>17 DEF OnSpawn
    <3>2. CauseFollowed(a) BY <2>4, <2>11, <2>17 DEF CauseFollowed
    <3> QED BY <1>3, <2>4, <2>11, <2>12, <2>13, <2>14, <3>1, <3>2 DEF RunSound
  <2> QED BY <2>15, <2>16, <2>17
<1> QED BY <1>2, <1>3

\* The process ends: a run that is settled by its exit was announced, or killed.
LEMMA ExitSound ==
  ASSUME NEW r, RunSound(r),
         ~ Settled(r) => r.spawned \/ "forceKillSignalRequested" \in r.observations
  PROVE  RunSound(OnExit(r)) /\ Settled(OnExit(r))
<1>1. r \in Runs BY DEF RunSound, LogSound
<1>2. CASE Settled(r) BY <1>2 DEF OnExit
<1>3. CASE ~ Settled(r)
  <2> PICK seen : seen = {"exitObserved", "processTerminationConfirmed"} OBVIOUS
  <2> PICK q : q = PushEvent(Observed(r, seen), "PROCESS_EXITED") OBVIOUS
  <2> PICK state : state = ExitState(q) OBVIOUS
  <2>1. LogSound(r) /\ Underway(r) /\ CauseFollowed(r) BY <1>3 DEF RunSound
  <2>2. "PROCESS_EXITED" \in EventTypes \ ToSet(r.events) /\ seen \subseteq Observations
    BY <2>1 DEF EventTypes, Observations, Underway, Endings
  <2>3. Append(r.events, "PROCESS_EXITED") \in Seq(EventTypes) BY <1>1, <2>2 DEF Runs
  <2>4. /\ q \in Runs /\ q.events = Append(r.events, "PROCESS_EXITED")
        /\ q.observations = r.observations \cup seen
        /\ q.reason = r.reason /\ q.evidence = r.evidence
    BY <1>1, <2>2, <2>3 DEF PushEvent, Observed, Runs
  <2>5. /\ Len(q.events) >= 2 /\ Last(q.events) = "PROCESS_EXITED"
        /\ ToSet(q.events) = ToSet(r.events) \cup {"PROCESS_EXITED"}
    <3>1. q \in Runs /\ q.events = Append(r.events, "PROCESS_EXITED") BY <2>4
    <3>2. "PROCESS_EXITED" \in EventTypes \ ToSet(r.events) BY <2>2
    <3> QED BY <2>1, <3>1, <3>2, Noted, ZenonT(60)
  <2>6. ObservationsMatch(q) BY <2>1, <2>4, <2>5 DEF LogSound, ObservationsMatch
  <2>7. LogSound(q) BY <2>1, <2>2, <2>4, <2>6, LogGrows DEF Causes
  <2>8. ~ Settled(q) BY <1>3, <2>4 DEF Settled
  <2>9. "forceKillSignalRequested" \in q.observations
          <=> "FORCE_KILL_SIGNAL_REQUESTED" \in ToSet(q.events)
    BY <2>6 DEF ObservationsMatch
  <2>10. "forceKillSignalRequested" \notin q.observations =>
           /\ q.reason # "START_TIMEOUT"
           /\ q.reason # "none" => "COOPERATIVE_SIGNAL_REQUESTED" \in ToSet(q.events)
    <3>1. q.reason \in Reasons BY <2>4 DEF Runs
    <3>2. "COOPERATIVE_SIGNAL_REQUESTED" \in ToSet(q.events)
            <=> "cooperativeSignalRequested" \in q.observations
      BY <2>6 DEF ObservationsMatch
    <3> QED BY <1>3, <2>1, <2>4, <3>1, <3>2 DEF Underway, CauseFollowed, Reasons
  <2>11. /\ q.reason = "none" => ToSet(q.events) \cap Causes = {}
         /\ q.reason # "none" => CauseOf(q.reason) \in ToSet(q.events)
    <3>1. q.reason = "none" => ToSet(q.events) \cap Causes = {} BY <2>7 DEF LogSound
    <3>2. ASSUME q.reason # "none" PROVE CauseOf(q.reason) \in ToSet(q.events)
      BY <2>7, <3>2 DEF LogSound, CameFirst, ToSet
    <3> QED BY <3>1, <3>2
  <2> PICK e : e = [terminalState |-> state, events |-> q.events,
                    observations |-> q.observations]
    OBVIOUS
  <2>12. state \in StatesOf(q.reason) /\ TerminalMatches(e)
    <3>1. CASE q.reason = "none"
      <4>1. state = "EXITED" BY <3>1 DEF ExitState
      <4> QED BY <2>5, <2>11, <3>1, <4>1 DEF StatesOf, TerminalMatches, Causes
    <3>2. CASE q.reason = "ABORT"
      <4>1. state = IF "forceKillSignalRequested" \in q.observations
                      THEN "CANCELLED_FORCE_TERMINATED" ELSE "CANCELLED"
        BY <3>2 DEF ExitState
      <4> QED BY <2>5, <2>9, <2>10, <2>11, <3>2, <4>1 DEF StatesOf, TerminalMatches, CauseOf
    <3>3. CASE q.reason = "TIMEOUT"
      <4>1. state = IF "forceKillSignalRequested" \in q.observations
                      THEN "TIMED_OUT_FORCE_TERMINATED" ELSE "TIMED_OUT"
        BY <3>3 DEF ExitState
      <4> QED BY <2>5, <2>9, <2>10, <2>11, <3>3, <4>1 DEF StatesOf, TerminalMatches, CauseOf
    <3>4. CASE q.reason = "START_TIMEOUT"
      <4>1. state = "START_TIMED_OUT_FORCE_TERMINATED" BY <3>4 DEF ExitState
      <4> QED BY <2>5, <2>9, <2>10, <2>11, <3>4, <4>1 DEF StatesOf, TerminalMatches, CauseOf
    <3>5. q.reason \in Reasons BY <2>4 DEF Runs
    <3> QED BY <3>1, <3>2, <3>3, <3>4, <3>5 DEF Reasons
  <2>13. "CANCELLED_BEFORE_START" \notin ToSet(q.events) BY <2>1, <2>5 DEF Underway, Endings
  <2>14. RunSound(Finish(q, state)) /\ Settled(Finish(q, state))
    BY <2>5, <2>7, <2>8, <2>12, <2>13, Finished
  <2>15. OnExit(r) = Finish(q, state)
    <3>1. ExitState(q) = ExitState(r) BY <2>4 DEF ExitState
    <3> QED BY <1>3, <3>1 DEF OnExit
  <2> QED BY <2>14, <2>15
<1> QED BY <1>2, <1>3

\* The exit of a killed child is not awaited for ever.
LEMMA ForceSettleSound ==
  ASSUME NEW r, RunSound(r),
         ~ Settled(r) => "forceKillSignalRequested" \in r.observations
  PROVE  RunSound(OnForceSettle(r)) /\ Settled(OnForceSettle(r))
<1>1. r \in Runs BY DEF RunSound, LogSound
<1>2. CASE Settled(r) BY <1>2 DEF OnForceSettle
<1>3. CASE ~ Settled(r)
  <2> PICK q : q = PushEvent(r, "FORCE_SETTLEMENT_EXPIRED") OBVIOUS
  <2> PICK state : state = UnconfirmedState(q) OBVIOUS
  <2>1. LogSound(r) /\ Underway(r) /\ CauseFollowed(r) BY <1>3 DEF RunSound
  <2>2. "FORCE_SETTLEMENT_EXPIRED" \in EventTypes \ ToSet(r.events)
    BY <2>1 DEF EventTypes, Underway, Endings
  <2>3. Append(r.events, "FORCE_SETTLEMENT_EXPIRED") \in Seq(EventTypes)
    BY <1>1, <2>2 DEF Runs
  <2>4. /\ q \in Runs /\ q.events = Append(r.events, "FORCE_SETTLEMENT_EXPIRED")
        /\ q.observations = r.observations /\ q.reason = r.reason /\ q.evidence = r.evidence
    BY <1>1, <2>2, <2>3 DEF PushEvent, Runs
  <2>5. /\ Len(q.events) >= 2 /\ Last(q.events) = "FORCE_SETTLEMENT_EXPIRED"
        /\ ToSet(q.events) = ToSet(r.events) \cup {"FORCE_SETTLEMENT_EXPIRED"}
    <3>1. q \in Runs /\ q.events = Append(r.events, "FORCE_SETTLEMENT_EXPIRED") BY <2>4
    <3>2. "FORCE_SETTLEMENT_EXPIRED" \in EventTypes \ ToSet(r.events) BY <2>2
    <3> QED BY <2>1, <3>1, <3>2, Noted, ZenonT(60)
  <2>6. ObservationsMatch(q) BY <2>1, <2>4, <2>5 DEF LogSound, ObservationsMatch
  <2>7. LogSound(q) BY <2>1, <2>2, <2>4, <2>6, LogGrows DEF Causes
  <2>8. ~ Settled(q) BY <1>3, <2>4 DEF Settled
  <2>9. "FORCE_KILL_SIGNAL_REQUESTED" \in ToSet(q.events)
    BY <1>3, <2>4, <2>6 DEF ObservationsMatch
  <2>10. q.reason \in {"ABORT", "TIMEOUT", "START_TIMEOUT"}
    BY <1>3, <2>1, <2>4 DEF Underway, Runs, Reasons
  <2>11. CauseOf(q.reason) \in ToSet(q.events)
    BY <2>7, <2>10 DEF LogSound, CameFirst, ToSet
  <2>12. /\ state \in StatesOf(q.reason)
         /\ TerminalMatches([terminalState |-> state, events |-> q.events,
                             observations |-> q.observations])
    <3>1. CASE q.reason = "ABORT"
      <4>1. state = "CANCELLED_FORCE_UNCONFIRMED" BY <3>1 DEF UnconfirmedState
      <4> QED BY <2>5, <2>9, <2>11, <3>1, <4>1 DEF StatesOf, TerminalMatches, CauseOf
    <3>2. CASE q.reason = "TIMEOUT"
      <4>1. state = "TIMED_OUT_FORCE_UNCONFIRMED" BY <3>2 DEF UnconfirmedState
      <4> QED BY <2>5, <2>9, <2>11, <3>2, <4>1 DEF StatesOf, TerminalMatches, CauseOf
    <3>3. CASE q.reason = "START_TIMEOUT"
      <4>1. state = "START_TIMED_OUT_FORCE_UNCONFIRMED" BY <3>3 DEF UnconfirmedState
      <4> QED BY <2>5, <2>9, <2>11, <3>3, <4>1 DEF StatesOf, TerminalMatches, CauseOf
    <3> QED BY <2>10, <3>1, <3>2, <3>3
  <2>13. "CANCELLED_BEFORE_START" \notin ToSet(q.events) BY <2>1, <2>5 DEF Underway, Endings
  <2>14. RunSound(Finish(q, state)) /\ Settled(Finish(q, state))
    BY <2>5, <2>7, <2>8, <2>12, <2>13, Finished
  <2>15. OnForceSettle(r) = Finish(q, state)
    <3>1. UnconfirmedState(q) = UnconfirmedState(r) BY <2>4 DEF UnconfirmedState
    <3> QED BY <1>3, <3>1 DEF OnForceSettle
  <2> QED BY <2>14, <2>15
<1> QED BY <1>2, <1>3

-----------------------------------------------------------------------------
(* The run                                                                   *)

\* A run that has accepted its command satisfies the invariant.
LEMMA Begun ==
  ASSUME Init
  PROVE  Inv
<1>1. /\ run \in Runs /\ run.events = <<"COMMAND_ACCEPTED">> /\ run.observations = {}
      /\ run.reason = "none" /\ run.timers = {} /\ run.evidence = NoEvidence
      /\ ~ run.spawned /\ ~ run.pending /\ ~ run.listening
  BY DEF Init, Runs, Reasons, EventTypes
<1>2. ToSet(run.events) = {"COMMAND_ACCEPTED"} BY <1>1 DEF ToSet
<1>3. /\ run.events # <<>> /\ Head(run.events) = "COMMAND_ACCEPTED"
      /\ IsInjective(run.events)
  BY <1>1 DEF IsInjective
<1>4. ObservationsMatch(run) BY <1>1, <1>2 DEF ObservationsMatch
<1>5. LogSound(run) BY <1>1, <1>2, <1>3, <1>4 DEF LogSound, Causes
<1>6. ~ Settled(run) BY <1>1 DEF Settled
<1>7. Underway(run) /\ CauseFollowed(run)
  BY <1>1, <1>2, <1>6 DEF Underway, CauseFollowed, Endings
<1> QED BY <1>1, <1>5, <1>6, <1>7 DEF Inv, RunSound, Init, ChildStates

\* A call that ends without a child.
LEMMA EndedEarly ==
  ASSUME Inv, phase = "called", NEW r \in Runs,
         r.events = run.events, r.reason = run.reason, r.evidence = run.evidence,
         NEW end,
         \/ end = "CANCELLED_BEFORE_START" /\ r.observations = {"abortRequested"}
         \/ /\ end = "PROCESS_START_FAILED"
            /\ r.observations = {"processStartAttempted", "k6InvocationAttempted"}
  PROVE  LET state == IF end = "PROCESS_START_FAILED" THEN "START_FAILED" ELSE end
             q == Finish(PushEvent(r, end), state)
         IN RunSound(q) /\ Settled(q)
<1> PICK state : state = IF end = "PROCESS_START_FAILED" THEN "START_FAILED" ELSE end OBVIOUS
<1> PICK q : q = PushEvent(r, end) OBVIOUS
<1>1. /\ LogSound(run) /\ ~ Settled(run) /\ run.reason = "none" /\ run.observations = {}
      /\ run.events = <<"COMMAND_ACCEPTED">>
  BY DEF Inv, RunSound
<1>2. ToSet(run.events) = {"COMMAND_ACCEPTED"} BY <1>1 DEF ToSet
<1>3. end \in EventTypes \ ToSet(run.events) BY <1>2 DEF EventTypes
<1>4. Append(run.events, end) \in Seq(EventTypes)
  <2>1. run.events \in Seq(EventTypes) BY <1>1 DEF LogSound, Runs
  <2>2. end \in EventTypes BY <1>3
  <2> QED BY <2>1, <2>2
<1>5. /\ q \in Runs /\ q.events = Append(run.events, end)
      /\ q.observations = r.observations /\ q.reason = "none" /\ q.evidence = run.evidence
  <2> PICK s : s = Append(run.events, end) OBVIOUS
  <2>1. q = [r EXCEPT !.events = s] BY DEF PushEvent
  <2>2. s \in Seq(EventTypes) /\ r.reason = "none" /\ r.evidence = run.evidence
    BY <1>1, <1>4
  <2>3. r \in Runs OBVIOUS
  <2> QED BY <2>1, <2>2, <2>3 DEF Runs
<1>6. /\ Len(q.events) >= 2 /\ Last(q.events) = end
      /\ ToSet(q.events) = {"COMMAND_ACCEPTED", end}
  <2>1. run.events \in Seq(EventTypes) /\ run.events # <<>> BY <1>1 DEF LogSound, Runs
  <2>2. end \in EventTypes BY <1>3
  <2> QED BY <1>2, <1>5, <2>1, <2>2, Logged
<1>7. ObservationsMatch(q) BY <1>5, <1>6 DEF ObservationsMatch
<1>8. LogSound(q) BY <1>1, <1>3, <1>5, <1>7, LogGrows DEF Causes
<1>9. ~ Settled(q) BY <1>1, <1>5 DEF Settled
<1>10. /\ state \in StatesOf(q.reason)
       /\ "CANCELLED_BEFORE_START" \in ToSet(q.events) => state = "CANCELLED_BEFORE_START"
  BY <1>5, <1>6 DEF StatesOf
<1>11. TerminalMatches([terminalState |-> state, events |-> q.events,
                        observations |-> q.observations])
  BY <1>5, <1>6 DEF TerminalMatches
<1>12. RunSound(Finish(q, state)) /\ Settled(Finish(q, state))
  BY <1>6, <1>8, <1>9, <1>10, <1>11, Finished
<1> QED BY <1>12

\* A timer that fires is no longer armed; nothing else changes.
LEMMA FiredSound ==
  ASSUME Inv, NEW timer \in run.timers
  PROVE  /\ KeptSound(Fired(timer), run)
         /\ Fired(timer).timers = run.timers \ {timer}
         /\ Fired(timer).events = run.events /\ Fired(timer).evidence = run.evidence
         /\ Fired(timer).observations = run.observations
         /\ Fired(timer).spawned = run.spawned /\ Fired(timer).listening = run.listening
         /\ Settled(Fired(timer)) <=> Settled(run)
<1> PICK q : q = Fired(timer) OBVIOUS
<1>1. run \in Runs BY DEF Inv, RunSound, LogSound
<1>2. q = [run EXCEPT !.timers = run.timers \ {timer}] BY DEF Fired
<1>3. /\ q.timers = run.timers \ {timer} /\ q.events = run.events
      /\ q.evidence = run.evidence /\ q.observations = run.observations
      /\ q.spawned = run.spawned /\ q.listening = run.listening
  BY <1>1, <1>2 DEF Runs
<1>4. Settled(q) <=> Settled(run) BY <1>3 DEF Settled
<1>5. run.timers \ {timer} \in SUBSET TimerNames BY <1>1 DEF Runs
<1>6. RunSound(q) BY <1>2, <1>5, TimersSound DEF Inv
<1> QED BY <1>3, <1>4, <1>6 DEF KeptSound

\* A callback that keeps the run sound keeps the invariant.
LEMMA CallbackKeepsInv ==
  ASSUME Inv, phase = "waiting", KeptSound(run', run),
         phase' = phase, child' = child, aborted' \in BOOLEAN
  PROVE  Inv'
<1>1. RunSound(run)' BY DEF KeptSound
<1>2. Settled(run)' <=> Settled(run') OBVIOUS
<1> QED BY <1>1, <1>2 DEF Inv, KeptSound

\* Every step keeps the invariant.
LEMMA Stepped ==
  ASSUME Inv, [Next]_vars
  PROVE  Inv'
<1>0. RunSound(run) /\ run \in Runs BY DEF Inv, RunSound, LogSound
<1>1. CASE CancelBeforeStart
  <2> PICK r : r = Observed(run, {"abortRequested"}) OBVIOUS
  <2>1. /\ r \in Runs /\ r.events = run.events /\ r.reason = run.reason
        /\ r.evidence = run.evidence /\ r.observations = {"abortRequested"}
    BY <1>0, <1>1 DEF CancelBeforeStart, Inv, Observed, Runs, Observations
  <2>2. run' = Finish(PushEvent(r, "CANCELLED_BEFORE_START"), "CANCELLED_BEFORE_START")
    BY <1>1 DEF CancelBeforeStart
  <2>3. RunSound(run') /\ Settled(run')
    BY <1>1, <2>1, <2>2, EndedEarly DEF CancelBeforeStart
  <2> QED BY <1>1, <2>3 DEF CancelBeforeStart, Inv
<1>2. CASE ContextRefused \/ ResolverFails
  BY <1>2 DEF ContextRefused, ResolverFails, Inv
<1>3. CASE SpawnThrows
  <2> PICK r : r = Attempted(run) OBVIOUS
  <2>1. /\ r \in Runs /\ r.events = run.events /\ r.reason = run.reason
        /\ r.evidence = run.evidence
        /\ r.observations = {"processStartAttempted", "k6InvocationAttempted"}
    BY <1>0, <1>3 DEF SpawnThrows, Inv, Attempted, Observed, Runs, Observations
  <2>2. run' = Finish(PushEvent(r, "PROCESS_START_FAILED"), "START_FAILED")
    BY <1>3 DEF SpawnThrows
  <2>3. RunSound(run') /\ Settled(run')
    BY <1>3, <2>1, <2>2, EndedEarly DEF SpawnThrows
  <2> QED BY <1>3, <2>3 DEF SpawnThrows, Inv
<1>4. CASE SpawnProcess
  <2> PICK pid \in {{}, {"processIdCreated"}} :
        run' = Armed(Observed(Attempted(run), pid), "startup")
    BY <1>4 DEF SpawnProcess
  <2> PICK q : q = Armed(Observed(Attempted(run), pid), "startup") OBVIOUS
  <2>1. /\ LogSound(run) /\ Underway(run) /\ CauseFollowed(run) /\ ~ Settled(run)
        /\ run.reason = "none" /\ run.observations = {} /\ run.timers = {}
        /\ run.events = <<"COMMAND_ACCEPTED">>
    BY <1>0, <1>4 DEF SpawnProcess, Inv, RunSound
  <2> PICK seen : seen = {"processStartAttempted", "k6InvocationAttempted"} \cup pid OBVIOUS
  <2>2. seen \subseteq Observations BY DEF Observations
  <2>3. /\ q \in Runs /\ q.events = run.events /\ q.observations = seen
        /\ q.reason = run.reason /\ q.evidence = run.evidence /\ q.timers = {"startup"}
        /\ q.pending = run.pending /\ q.spawned = run.spawned /\ q.listening
    BY <1>0, <2>1, <2>2 DEF Attempted, Observed, Armed, Runs, TimerNames
  <2>4. ToSet(run.events) = {"COMMAND_ACCEPTED"} BY <2>1 DEF ToSet
  <2>5. ObservationsMatch(q) BY <2>3, <2>4 DEF ObservationsMatch
  <2>6. LogSound(q) BY <2>1, <2>3, <2>5 DEF LogSound
  <2>7. ~ Settled(q) BY <2>1, <2>3 DEF Settled
  <2>8. ~ run.spawned BY <2>1 DEF Underway
  <2>9. Underway(q) BY <2>1, <2>3, <2>4, <2>7, <2>8 DEF Underway, Endings
  <2>10. CauseFollowed(q) BY <2>1, <2>3, <2>8 DEF CauseFollowed
  <2>11. RunSound(run') /\ ~ run'.spawned /\ run'.listening
    BY <2>3, <2>6, <2>7, <2>8, <2>9, <2>10 DEF RunSound
  <2> QED BY <1>4, <2>11 DEF SpawnProcess, Inv, ChildStates
<1>5. CASE Abort
  <2>1. CASE run.listening
    <3>1. PICK result \in KillResults : run' = RequestCancellation(run, "ABORT", result)
      BY <1>5, <2>1 DEF Abort
    <3>2. KeptSound(run', run) BY <1>0, <3>1, CancellationSound
    <3> QED BY <1>5, <3>2, CallbackKeepsInv DEF Abort
  <2>2. CASE ~ run.listening
    <3>1. KeptSound(run', run) BY <1>0, <1>5, <2>2 DEF Abort, KeptSound
    <3> QED BY <1>5, <3>1, CallbackKeepsInv DEF Abort
  <2> QED BY <2>1, <2>2
<1>6. CASE StartupTimeout
  <2>1. "startup" \in run.timers /\ phase = "waiting" BY <1>6 DEF StartupTimeout, Inv
  <2> PICK f : f = Fired("startup") OBVIOUS
  <2>2. /\ KeptSound(f, run) /\ f.events = run.events /\ f.timers = run.timers \ {"startup"}
        /\ f.spawned = run.spawned /\ (Settled(f) <=> Settled(run))
    BY <2>1, FiredSound
  <2>3. PICK result \in KillResults : run' = OnStartupTimeout(f, result)
    BY <1>6 DEF StartupTimeout
  <2>4. ~ Settled(f) => /\ ~ f.spawned /\ "startup" \notin f.timers
                        /\ "PROCESS_START_TIMEOUT" \notin ToSet(f.events)
    BY <1>0, <2>1, <2>2 DEF RunSound, Underway
  <2>5. KeptSound(run', f) BY <2>2, <2>3, <2>4, StartupTimeoutSound DEF KeptSound
  <2>6. KeptSound(run', run) BY <2>2, <2>5 DEF KeptSound
  <2> QED BY <1>6, <2>1, <2>6, CallbackKeepsInv DEF StartupTimeout, Inv
<1>7. CASE ExecutionTimeout
  <2>1. "timeout" \in run.timers /\ phase = "waiting" BY <1>7 DEF ExecutionTimeout, Inv
  <2> PICK f : f = Fired("timeout") OBVIOUS
  <2>2. KeptSound(f, run) /\ f.spawned = run.spawned /\ (Settled(f) <=> Settled(run))
    BY <2>1, FiredSound
  <2>3. PICK result \in KillResults : run' = RequestCancellation(f, "TIMEOUT", result)
    BY <1>7 DEF ExecutionTimeout
  <2>4. ~ Settled(f) => f.spawned BY <1>0, <2>1, <2>2 DEF RunSound, Underway
  <2>5. KeptSound(run', f) BY <2>2, <2>3, <2>4, CancellationSound DEF KeptSound
  <2>6. KeptSound(run', run) BY <2>2, <2>5 DEF KeptSound
  <2> QED BY <1>7, <2>1, <2>6, CallbackKeepsInv DEF ExecutionTimeout, Inv
<1>8. CASE GraceExpires
  <2>1. "force" \in run.timers /\ phase = "waiting" BY <1>8 DEF GraceExpires, Inv
  <2> PICK f : f = Fired("force") OBVIOUS
  <2>2. /\ KeptSound(f, run) /\ (Settled(f) <=> Settled(run))
        /\ f.observations = run.observations
    BY <2>1, FiredSound
  <2>3. PICK result \in KillResults : run' = SendForceKill(f, result)
    BY <1>8 DEF GraceExpires
  <2>4. CASE Settled(f)
    BY <1>8, <2>1, <2>2, <2>3, <2>4, CallbackKeepsInv DEF SendForceKill, GraceExpires, Inv
  <2>5. CASE ~ Settled(f)
    <3>1. LogSound(f) /\ Underway(f) /\ CauseFollowed(f) BY <2>2, <2>5 DEF KeptSound, RunSound
    <3>2. run.pending BY <1>0, <2>1, <2>2, <2>5 DEF RunSound, Underway
    <3>3. f.reason = run.reason BY <1>0 DEF Fired, Runs
    <3>4. f.reason # "none" BY <1>0, <2>2, <2>5, <3>2, <3>3 DEF RunSound, Underway
    <3>5. KeptSound(run', f)
      BY <2>3, <2>5, <3>1, <3>4, ForceKillSound DEF SendForceKill, CauseFollowed
    <3>6. KeptSound(run', run) BY <2>2, <3>5 DEF KeptSound
    <3> QED BY <1>8, <2>1, <3>6, CallbackKeepsInv DEF GraceExpires, Inv
  <2> QED BY <2>4, <2>5
<1>9. CASE ForceSettlementExpires
  <2>1. "forceSettle" \in run.timers /\ phase = "waiting"
    BY <1>9 DEF ForceSettlementExpires, Inv
  <2> PICK f : f = Fired("forceSettle") OBVIOUS
  <2>2. /\ KeptSound(f, run) /\ (Settled(f) <=> Settled(run))
        /\ f.observations = run.observations
    BY <2>1, FiredSound
  <2>3. run' = OnForceSettle(f) BY <1>9 DEF ForceSettlementExpires
  <2>4. ~ Settled(f) => "forceKillSignalRequested" \in f.observations
    BY <1>0, <2>1, <2>2 DEF RunSound, Underway
  <2>5. RunSound(run') /\ Settled(run')
    BY <2>2, <2>3, <2>4, ForceSettleSound DEF KeptSound
  <2>6. KeptSound(run', run) BY <2>5 DEF KeptSound
  <2> QED BY <1>9, <2>1, <2>6, CallbackKeepsInv DEF ForceSettlementExpires, Inv
<1>10. CASE ChildSpawns
  <2>1. PICK result \in KillResults : run' = OnSpawn(run, result) BY <1>10 DEF ChildSpawns
  <2>2. ~ Settled(run) => ~ run.spawned /\ run.listening BY <1>10 DEF ChildSpawns, Inv
  <2>3. RunSound(run') /\ (~ Settled(run') => run'.spawned /\ run'.listening)
    BY <1>0, <2>1, <2>2, SpawnSound
  <2>4. phase = "waiting" BY <1>10 DEF ChildSpawns, Inv
  <2> QED BY <1>10, <2>3, <2>4 DEF ChildSpawns, Inv, ChildStates
<1>11. CASE ChildFails
  <2>1. run' = OnError(run) /\ child = "starting" /\ child' = "failed"
    BY <1>11 DEF ChildFails
  <2>2. CASE Settled(run)
    <3>1. run' = run BY <2>1, <2>2 DEF OnError
    <3> QED BY <1>11, <2>2, <3>1 DEF ChildFails, Inv, ChildStates
  <2>3. CASE ~ Settled(run)
    <3>1. LogSound(run) /\ Underway(run) /\ CauseFollowed(run) BY <1>0, <2>3 DEF RunSound
    <3>2. /\ RunSound(run')
          /\ ~ Settled(run') => run' = PushEvent(run, "PROCESS_ERROR")
      BY <1>11, <2>1, <3>1, ErrorSound DEF ChildFails
    <3>3. ~ run.spawned /\ run.listening BY <2>1, <2>3 DEF Inv
    <3>4. ~ Settled(run') => ~ run'.spawned /\ run'.listening
      BY <1>0, <3>2, <3>3 DEF PushEvent, Runs
    <3>5. phase = "waiting" BY <2>1 DEF Inv
    <3> QED BY <1>11, <2>1, <3>2, <3>4, <3>5 DEF ChildFails, Inv, ChildStates
  <2> QED BY <2>2, <2>3
<1>12. CASE ChildExits
  <2>1. /\ run' = OnExit(run) /\ child' = "exited"
        /\ \/ child = "running"
           \/ child = "starting" /\ "forceKillSignalRequested" \in run.observations
    BY <1>12 DEF ChildExits
  <2>2. ~ Settled(run) => run.spawned \/ "forceKillSignalRequested" \in run.observations
    BY <2>1 DEF Inv
  <2>3. RunSound(run') /\ Settled(run') BY <1>0, <2>1, <2>2, ExitSound
  <2>4. phase = "waiting" BY <2>1 DEF Inv
  <2> QED BY <1>12, <2>1, <2>3, <2>4 DEF ChildExits, Inv, ChildStates
<1>13. CASE UNCHANGED vars BY <1>13 DEF vars, Inv
<1> QED BY <1>1, <1>2, <1>3, <1>4, <1>5, <1>6, <1>7, <1>8, <1>9, <1>10, <1>11, <1>12, <1>13
        DEF Next

\* The invariant holds throughout.
THEOREM Invariance == Spec => []Inv
<1>1. Init => Inv BY Begun
<1>2. Inv /\ [Next]_vars => Inv' BY Stepped
<1> QED BY <1>1, <1>2, PTL DEF Spec

\* Every variable has its type.
THEOREM TypeCorrect == Spec => []TypeOK
<1>1. ASSUME Inv PROVE TypeOK
  <2>1. run \in Runs BY <1>1 DEF Inv, RunSound, LogSound
  <2>2. Settled(run) => run.evidence \in Evidences BY <2>1 DEF Runs, Settled
  <2>3. /\ run.spawned \in BOOLEAN /\ run.pending \in BOOLEAN /\ run.listening \in BOOLEAN
        /\ run.reason \in Reasons /\ run.events \in Seq(EventTypes)
        /\ run.observations \subseteq Observations /\ run.timers \subseteq TimerNames
    BY <2>1 DEF Runs
  <2> QED BY <1>1, <2>2, <2>3 DEF Inv, TypeOK, Evidences
<1> QED BY <1>1, Invariance, PTL

\* What the invariant says of a settled run's record.
LEMMA InvShowsEvidence ==
  ASSUME Inv
  PROVE  EvidenceValid
<1> SUFFICES ASSUME Settled(run) PROVE ValidEvidence(run.evidence)
  BY DEF EvidenceValid
<1>1. LogSound(run) /\ Over(run) BY DEF Inv, RunSound
<1>2. run.events \in Seq(EventTypes) /\ IsInjective(run.events)
  BY <1>1 DEF LogSound, Runs
<1>3. Len(run.events) \in 2..16
  <2> PICK n : n = Len(run.events) OBVIOUS
  <2>1. n \in Nat BY <1>2
  <2>2. n <= 16 BY <1>2, LogIsShort, Zenon
  <2>3. n >= 2 BY <1>1 DEF Over
  <2>4. n \in 2..16 BY ONLY <2>1, <2>2, <2>3
  <2> QED BY <2>4, Zenon
<1>4. ObservationsMatch(run.evidence) BY <1>1 DEF LogSound, Over, ObservationsMatch
<1> QED BY <1>1, <1>2, <1>3, <1>4 DEF LogSound, Over, ValidEvidence

\* Whatever order the callbacks come in, the record finish() builds passes
\* validateK6ProcessLifecycleEvidenceShape.
THEOREM EvidenceIsValid == Spec => []EvidenceValid
BY Invariance, InvShowsEvidence, PTL

\* The terminal state names the cause that came first.
THEOREM NamesTheFirstCause == Spec => []FirstCauseNamed
<1>1. ASSUME Inv PROVE FirstCauseNamed
  <2> SUFFICES ASSUME Settled(run) PROVE FirstCauseNamed
    BY DEF FirstCauseNamed
  <2>1. LogSound(run) /\ Over(run) BY <1>1 DEF Inv, RunSound
  <2> PICK s : s = run.events OBVIOUS
  <2>2. s \in Seq(EventTypes) /\ run.reason \in Reasons BY <2>1 DEF LogSound, Runs
  <2>3. run.evidence.events = s /\ run.evidence.terminalState \in StatesOf(run.reason)
    BY <2>1 DEF Over
  <2>4. /\ run.reason = "none" => ToSet(s) \cap Causes = {}
        /\ run.reason # "none" => CameFirst(s, CauseOf(run.reason))
    BY <2>1 DEF LogSound
  <2>5. run.reason # "none" => CauseOf(run.reason) \in Causes
    BY <2>2 DEF CauseOf, Causes, Reasons
  <2>6. ASSUME NEW c \in Causes, CameFirst(s, c)
        PROVE  run.reason # "none" /\ CauseOf(run.reason) = c
    <3>1. c \in ToSet(s) BY <2>6 DEF CameFirst, ToSet
    <3>2. run.reason # "none" BY <2>4, <2>6, <3>1
    <3> PICK d : d = CauseOf(run.reason) OBVIOUS
    <3>3. d \in Causes /\ CameFirst(s, d) BY <2>4, <2>5, <3>2
    <3>4. d = c BY <2>2, <2>6, <3>3, OneCameFirst
    <3> QED BY <3>2, <3>4
  <2>7. ToSet(s) \cap Causes = {} => run.reason = "none"
    BY <2>4, <2>5 DEF CameFirst, ToSet
  <2>8. CameFirst(s, "CANCELLATION_REQUESTED") => run.reason = "ABORT"
    BY <2>2, <2>6 DEF Causes, CauseOf, Reasons
  <2>9. CameFirst(s, "TIMEOUT_REACHED") => run.reason = "TIMEOUT"
    BY <2>2, <2>6 DEF Causes, CauseOf, Reasons
  <2>10. CameFirst(s, "PROCESS_START_TIMEOUT") => run.reason = "START_TIMEOUT"
    BY <2>2, <2>6 DEF Causes, CauseOf, Reasons
  <2> QED BY <2>3, <2>7, <2>8, <2>9, <2>10 DEF FirstCauseNamed, StatesOf
<1> QED BY <1>1, Invariance, PTL

\* A settled run is over: no callback, and no timer armed after the timers were
\* cleared, records an event, sends a signal or settles it again.
THEOREM SettlesOnce == Spec => SettledOnce
<1>1. ASSUME Inv, [Next]_vars, Settled(run)
      PROVE  /\ run'.events = run.events
             /\ run'.evidence = run.evidence
             /\ run'.observations = run.observations
  <2>1. CASE CancelBeforeStart \/ ContextRefused \/ ResolverFails \/ SpawnThrows \/ SpawnProcess
    BY <1>1, <2>1
    DEF Inv, CancelBeforeStart, ContextRefused, ResolverFails, SpawnThrows, SpawnProcess
  <2>2. CASE Abort BY <1>1, <2>2 DEF Abort, RequestCancellation
  <2>3. CASE StartupTimeout \/ ExecutionTimeout \/ GraceExpires \/ ForceSettlementExpires
    <3>1. PICK timer \in run.timers : run' = Fired(timer)
      <4>1. ASSUME NEW timer \in run.timers PROVE Settled(Fired(timer))
        BY <1>1, FiredSound
      <4>2. CASE StartupTimeout BY <4>1, <4>2 DEF StartupTimeout, OnStartupTimeout
      <4>3. CASE ExecutionTimeout BY <4>1, <4>3 DEF ExecutionTimeout, RequestCancellation
      <4>4. CASE GraceExpires BY <4>1, <4>4 DEF GraceExpires, SendForceKill
      <4>5. CASE ForceSettlementExpires
        BY <4>1, <4>5 DEF ForceSettlementExpires, OnForceSettle
      <4> QED BY <2>3, <4>2, <4>3, <4>4, <4>5
    <3> QED BY <1>1, <3>1, FiredSound
  <2>4. CASE ChildSpawns \/ ChildFails \/ ChildExits
    BY <1>1, <2>4 DEF ChildSpawns, ChildFails, ChildExits, OnSpawn, OnError, OnExit
  <2>5. CASE UNCHANGED vars BY <2>5 DEF vars
  <2> QED BY <1>1, <2>1, <2>2, <2>3, <2>4, <2>5 DEF Next
<1>2. Inv /\ [Next]_vars =>
        [Settled(run) => /\ run'.events = run.events
                         /\ run'.evidence = run.evidence
                         /\ run'.observations = run.observations]_vars
  BY <1>1
<1> QED BY <1>2, Invariance, PTL DEF Spec, SettledOnce

-----------------------------------------------------------------------------
(* What documents are made of, and of which of the two executions            *)

\* The kinds and what they bind, one by one.
LEMMA BindsAre ==
  /\ Binds["descriptor"] = {}
  /\ Binds["environment"] = {}
  /\ Binds["snapshot"] = {}
  /\ Binds["plan"] = {"snapshot"}
  /\ Binds["request"] = {"descriptor", "plan", "snapshot", "environment"}
  /\ Binds["result"] = {"request", "descriptor"}
  /\ Binds["executionEvidence"] = {"request", "result", "descriptor", "plan", "snapshot",
                                   "environment"}
  /\ Binds["spec"] = {"descriptor", "request", "plan", "snapshot", "environment"}
  /\ Binds["package"] = {"spec"}
  /\ Binds["compilation"] = {"descriptor", "request", "plan", "snapshot", "environment", "spec",
                             "package"}
  /\ Binds["sourceRequest"] = {"spec", "package", "compilation", "plan", "snapshot",
                               "environment"}
  /\ Binds["source"] = {"sourceRequest", "spec", "package", "compilation"}
  /\ Binds["p2"] = {"source", "sourceRequest"}
  /\ Binds["artifact"] = {"source", "p2", "sourceRequest", "spec", "package", "compilation"}
  /\ Binds["validation"] = {"artifact", "p2"}
  /\ Binds["p3"] = {"artifact", "validation"}
  /\ Binds["anchor"] = {"p3", "artifact", "validation"}
  /\ Binds["bundle"] = {"artifact", "validation", "p3", "source", "p2", "sourceRequest", "spec",
                        "package", "compilation"}
  /\ Binds["receipt"] = {"bundle", "artifact", "validation", "p3"}
  /\ Binds["publication"] = {"bundle", "receipt", "artifact", "validation", "p3"}
  /\ Binds["admission"] = {"request", "environment", "plan", "snapshot", "descriptor", "bundle",
                           "artifact", "receipt", "publication", "spec", "compilation"}
  /\ Binds["invocation"] = {"admission", "bundle"}
  /\ Binds["admissionEvidence"] = {"admission", "invocation", "request", "bundle"}
  /\ Binds["launch"] = {"admission", "invocation", "admissionEvidence"}
  /\ Binds["decision"] = {"launch"}
  /\ Binds["boundary"] = {"admission", "invocation", "admissionEvidence", "launch", "decision"}
  /\ Binds["command"] = {"admission", "invocation", "admissionEvidence", "launch", "decision",
                         "boundary", "bundle"}
  /\ Binds["lifecycle"] = {"command"}
  /\ Binds["observation"] = {"command", "lifecycle"}
  /\ Binds["outcome"] = {"command", "lifecycle", "observation"}
  /\ Binds["runtimeEvidence"] = {"admission", "invocation", "admissionEvidence", "launch",
                                 "decision", "boundary", "command", "lifecycle", "observation",
                                 "outcome"}
BY DEF Binds

\* Each kind comes after the kinds its documents are made of.
LEMMA OrderIs ==
  /\ Len(Order) = 31
  /\ Order[1] = "descriptor"
  /\ Order[2] = "environment"
  /\ Order[3] = "snapshot"
  /\ Order[4] = "plan"
  /\ Order[5] = "request"
  /\ Order[6] = "result"
  /\ Order[7] = "executionEvidence"
  /\ Order[8] = "spec"
  /\ Order[9] = "package"
  /\ Order[10] = "compilation"
  /\ Order[11] = "sourceRequest"
  /\ Order[12] = "source"
  /\ Order[13] = "p2"
  /\ Order[14] = "artifact"
  /\ Order[15] = "validation"
  /\ Order[16] = "p3"
  /\ Order[17] = "anchor"
  /\ Order[18] = "bundle"
  /\ Order[19] = "receipt"
  /\ Order[20] = "publication"
  /\ Order[21] = "admission"
  /\ Order[22] = "invocation"
  /\ Order[23] = "admissionEvidence"
  /\ Order[24] = "launch"
  /\ Order[25] = "decision"
  /\ Order[26] = "boundary"
  /\ Order[27] = "command"
  /\ Order[28] = "lifecycle"
  /\ Order[29] = "observation"
  /\ Order[30] = "outcome"
  /\ Order[31] = "runtimeEvidence"
BY DEF Order

Versions == {"earlier", "current"}

\* The request and what is only made of it may name a snapshot that is not its plan's.
Exempt(k) == IF k \in ContractKinds THEN {"snapshot"} ELSE {}

\* What the document of kind k and this version names, among the documents d.
RefsOf(d, k, version) == IF version = "current" THEN d[k].refs ELSE [j \in Binds[k] |-> "earlier"]

\* A set of documents of the two executions, with all they descend from.
Closed(d, L) ==
  \A k, v : <<k, v>> \in L =>
    /\ k \in DOMAIN d /\ v \in Versions
    /\ v = "current" => Digest(k, d[k]) = "current"
    /\ \A j \in Binds[k] : <<j, RefsOf(d, k, v)[j]>> \in L

OneVersion(L, exempt) ==
  \A k \in Kinds \ exempt : ~ (<<k, "earlier">> \in L /\ <<k, "current">> \in L)

\* The documents d name documents that were made before, and those each of them
\* descends from are of one version.
Sound(d) ==
  /\ DOMAIN d \subseteq Kinds
  /\ \A k \in DOMAIN d :
       /\ d[k] = Content(d[k].refs, d[k].own)
       /\ d[k].refs \in [Binds[k] -> Versions]
       /\ Binds[k] \subseteq DOMAIN d
       /\ \E L : Closed(d, L) /\ OneVersion(L, Exempt(k)) /\ <<k, Digest(k, d[k])>> \in L

\* A document that names only members of a closed set joins it.
LEMMA Extended ==
  ASSUME NEW d, Sound(d), NEW k \in Kinds \ DOMAIN d, NEW refs, NEW own, NEW L,
         Closed(d, L), OneVersion(L, Exempt(k)),
         refs = [j \in Binds[k] |-> refs[j]], \A j \in Binds[k] : <<j, refs[j]>> \in L,
         NEW doc, doc = Content(refs, own),
         NEW e, DOMAIN e = DOMAIN d \cup {k}, e[k] = doc, \A i \in DOMAIN d : e[i] = d[i],
         NEW M, M = L \cup {<<k, Digest(k, doc)>>}
  PROVE  Sound(e) /\ Closed(e, M) /\ OneVersion(M, Exempt(k))
<1>1. doc.refs = refs /\ doc = Content(doc.refs, doc.own) BY DEF Content
<1>2. Digest(k, doc) \in Versions /\ (Digest(k, doc) = "earlier" => doc = Earlier(k))
  BY DEF Digest, Versions
<1>3. DOMAIN d \subseteq Kinds /\ \A i \in DOMAIN d : Binds[i] \subseteq DOMAIN d BY DEF Sound
<1>4. Binds[k] \subseteq DOMAIN d /\ refs \in [Binds[k] -> Versions]
  <2>1. \A j \in Binds[k] : j \in DOMAIN d /\ refs[j] \in Versions BY DEF Closed
  <2> QED BY <2>1
<1>5. ASSUME NEW i \in DOMAIN d, NEW v PROVE RefsOf(e, i, v) = RefsOf(d, i, v)
  BY DEF RefsOf
<1>6. ASSUME NEW N, Closed(d, N) PROVE Closed(e, N)
  BY <1>5, <1>6 DEF Closed
<1>7. \A v : <<k, v>> \notin L BY DEF Closed
<1>8. Closed(e, M)
  <2>1. ASSUME NEW j \in Binds[k] PROVE <<j, RefsOf(e, k, Digest(k, doc))[j]>> \in M
    <3>1. CASE Digest(k, doc) = "current" BY <1>1, <3>1 DEF RefsOf
    <3>2. CASE Digest(k, doc) = "earlier"
      <4>1. refs = [i \in Binds[k] |-> "earlier"] BY <1>1, <1>2, <3>2 DEF Earlier
      <4> QED BY <3>2, <4>1 DEF RefsOf
    <3> QED BY <1>2, <3>1, <3>2 DEF Versions
  <2>2. ASSUME NEW i, NEW v, <<i, v>> \in M
        PROVE  /\ i \in DOMAIN e /\ v \in Versions
               /\ v = "current" => Digest(i, e[i]) = "current"
               /\ \A j \in Binds[i] : <<j, RefsOf(e, i, v)[j]>> \in M
    <3>1. CASE i = k
      <4>1. v = Digest(k, doc) BY <1>7, <2>2, <3>1
      <4> QED BY <1>2, <2>1, <3>1, <4>1
    <3>2. CASE i # k
      <4>1. <<i, v>> \in L BY <2>2, <3>2
      <4>2. Closed(e, L) BY <1>6
      <4> QED BY <4>1, <4>2 DEF Closed
    <3> QED BY <3>1, <3>2
  <2> QED BY <2>2 DEF Closed
<1>9. OneVersion(M, Exempt(k)) BY <1>7 DEF OneVersion
<1>10. Sound(e)
  <2>1. ASSUME NEW i \in DOMAIN d
        PROVE  /\ e[i] = Content(e[i].refs, e[i].own) /\ e[i].refs \in [Binds[i] -> Versions]
               /\ Binds[i] \subseteq DOMAIN e
               /\ \E N : Closed(e, N) /\ OneVersion(N, Exempt(i)) /\ <<i, Digest(i, e[i])>> \in N
    <3>1. /\ d[i] = Content(d[i].refs, d[i].own) /\ d[i].refs \in [Binds[i] -> Versions]
          /\ Binds[i] \subseteq DOMAIN d
      BY DEF Sound
    <3>2. PICK N : Closed(d, N) /\ OneVersion(N, Exempt(i)) /\ <<i, Digest(i, d[i])>> \in N
      BY DEF Sound
    <3>3. Closed(e, N) BY <1>6, <3>2
    <3> QED BY <3>1, <3>2, <3>3
  <2>2. \E N : Closed(e, N) /\ OneVersion(N, Exempt(k)) /\ <<k, Digest(k, e[k])>> \in N
    BY <1>8, <1>9
  <2>3. /\ e[k] = Content(e[k].refs, e[k].own) /\ e[k].refs \in [Binds[k] -> Versions]
        /\ Binds[k] \subseteq DOMAIN e
    BY <1>1, <1>4
  <2>4. DOMAIN e \subseteq Kinds BY <1>3
  <2> QED BY <2>1, <2>2, <2>3, <2>4 DEF Sound
<1> QED BY <1>8, <1>9, <1>10

-----------------------------------------------------------------------------
(* Documents a caller hands over                                             *)

\* The document of kind j and this version, as it was made.
AsMade(d, j, version) ==
  [ refs |-> RefsOf(d, j, version),
    own |-> IF version = "current" THEN d[j].own ELSE EarlierOwn(j),
    digest |-> version ]

\* A document a caller hands over is what its digest says.
Genuine(p, j) == p[j] = AsMade(docs, j, p[j].digest)

Handed(p, kinds) ==
  \A j \in kinds :
    /\ p[j].digest \in Versions
    /\ p[j].digest = "current" => j \in Made /\ Digest(j, docs[j]) = "current"
    /\ Intact(p, {j}) => Genuine(p, j)

\* A document a caller hands over is one of a version, and is what its digest says if
\* it passes its integrity check.
LEMMA DocumentHanded ==
  ASSUME Sound(docs), NEW j \in Kinds, NEW S \in SUBSET Made, NEW damaged, NEW p,
         p[j] = Document(j, S, damaged)
  PROVE  Handed(p, {j}) /\ (damaged # j => Intact(p, {j}))
<1>1. ASSUME j \in S
      PROVE  j \in Made /\ docs[j] = Content(docs[j].refs, docs[j].own)
  BY <1>1 DEF Sound, Made
<1>2. Earlier(j) = Content(Earlier(j).refs, Earlier(j).own) BY DEF Earlier, Content
<1>3. Digest(j, Earlier(j)) = "earlier" BY DEF Digest
<1>4. \A doc : Digest(j, doc) \in Versions BY DEF Digest, Versions
<1>5. CASE j \in S /\ j # damaged
  <2>1. p[j] = [refs |-> docs[j].refs, own |-> docs[j].own, digest |-> Digest(j, docs[j])]
    BY <1>5 DEF Document
  <2>2. Intact(p, {j}) BY <1>1, <1>5, <2>1 DEF Intact, Content
  <2>3. Genuine(p, j)
    <3>1. CASE p[j].digest = "current" BY <2>1, <3>1 DEF Genuine, AsMade, RefsOf
    <3>2. CASE p[j].digest # "current"
      <4>1. docs[j] = Earlier(j) /\ p[j].digest = "earlier" BY <2>1, <3>2 DEF Digest
      <4>2. docs[j].refs = [i \in Binds[j] |-> "earlier"] /\ docs[j].own = EarlierOwn(j)
        BY <4>1 DEF Earlier
      <4> QED BY <2>1, <4>1, <4>2 DEF Genuine, AsMade, RefsOf
    <3> QED BY <3>1, <3>2
  <2> QED BY <1>1, <1>4, <1>5, <2>1, <2>2, <2>3 DEF Handed
<1>6. CASE ~ (j \in S /\ j # damaged)
  <2>1. p[j] = [ refs |-> Earlier(j).refs, own |-> Earlier(j).own,
                 digest |-> IF j \in S THEN Digest(j, docs[j]) ELSE "earlier" ]
    BY <1>6 DEF Document
  <2>2. Intact(p, {j}) <=> p[j].digest = "earlier"
    BY <1>2, <1>3, <2>1 DEF Intact, Content
  <2>3. p[j].digest = "earlier" => Genuine(p, j)
    BY <2>1 DEF Genuine, AsMade, RefsOf, Earlier
  <2>4. p[j].digest \in Versions BY <1>4, <2>1 DEF Versions
  <2>5. p[j].digest = "current" => j \in Made /\ Digest(j, docs[j]) = "current"
    BY <1>1, <2>1
  <2> QED BY <1>6, <2>1, <2>2, <2>3, <2>4, <2>5 DEF Handed
<1> QED BY <1>5, <1>6

\* So are those of a call.
LEMMA PresentedHanded ==
  ASSUME Sound(docs), NEW kinds \in SUBSET Kinds, NEW p \in Presented(kinds)
  PROVE  Handed(p, kinds)
<1>1. PICK S \in SUBSET Made, damaged \in kinds \cup {"none"} :
        p = [k \in kinds |-> Document(k, S, damaged)]
  <2>1. PICK S \in Mixed(kinds), damaged \in kinds \cup {"none"} :
          p = [k \in kinds |-> Document(k, S, damaged)]
    BY DEF Presented
  <2>2. S \in SUBSET Made BY DEF Mixed
  <2> QED BY <2>1, <2>2
<1>2. ASSUME NEW j \in kinds PROVE Handed(p, {j})
  <2>1. p[j] = Document(j, S, damaged) BY <1>1
  <2> QED BY <2>1, DocumentHanded
<1> QED BY <1>2 DEF Handed

\* An integrity check leaves no document that is not what its digest says.
LEMMA IntactGenuine ==
  ASSUME NEW p, NEW kinds, NEW K \in SUBSET kinds, Handed(p, kinds), Intact(p, K)
  PROVE  \A j \in K : Genuine(p, j)
BY DEF Handed, Intact

\* A closed set holds what its documents name.
LEMMA Chased ==
  ASSUME NEW p, NEW j, Genuine(p, j), NEW L, Closed(docs, L), <<j, p[j].digest>> \in L
  PROVE  \A i \in Binds[j] : <<i, p[j].refs[i]>> \in L
BY DEF Closed, Genuine, AsMade

\* For a document that was handed over there is a closed set of one version.
LEMMA Begins ==
  ASSUME Sound(docs), NEW j \in Made, NEW p, Handed(p, {j})
  PROVE  \E L : Closed(docs, L) /\ OneVersion(L, Exempt(j)) /\ <<j, p[j].digest>> \in L
<1>1. CASE p[j].digest = "current" BY <1>1 DEF Handed, Sound, Made
<1>2. CASE p[j].digest = "earlier"
  <2>1. PICK L : L = {<<k, "earlier">> : k \in Made} OBVIOUS
  <2>2. \A k, v : <<k, v>> \in L <=> k \in Made /\ v = "earlier" BY <2>1
  <2>3. \A k \in Made : Binds[k] \subseteq Made BY DEF Sound, Made
  <2>4. Closed(docs, L)
    <3>1. ASSUME NEW k, NEW v, <<k, v>> \in L
          PROVE  /\ k \in DOMAIN docs /\ v \in Versions
                 /\ v # "current"
                 /\ \A i \in Binds[k] : <<i, RefsOf(docs, k, v)[i]>> \in L
      BY <2>2, <2>3, <3>1 DEF Versions, RefsOf, Made
    <3> QED BY <3>1 DEF Closed
  <2>5. OneVersion(L, Exempt(j)) BY <2>2 DEF OneVersion
  <2> QED BY <1>2, <2>2, <2>4, <2>5
<1> QED BY <1>1, <1>2 DEF Handed, Versions

\* Make keeps the documents sound.
LEMMA MadeSound ==
  ASSUME Sound(docs), NEW k \in Kinds, Due(k), NEW refs, NEW own, Make(k, refs, own), NEW L,
         Closed(docs, L), OneVersion(L, Exempt(k)),
         refs = [j \in Binds[k] |-> refs[j]], \A j \in Binds[k] : <<j, refs[j]>> \in L
  PROVE  Sound(docs')
<1> PICK d : d = docs OBVIOUS
<1> PICK doc : doc = Content(refs, own) OBVIOUS
<1> PICK e : e = docs' OBVIOUS
<1>1. docs' = Merged([j \in {k} |-> doc], docs) BY DEF Make, Add
<1>2. k \in Kinds \ DOMAIN d BY DEF Due, Made
<1>3. DOMAIN e = DOMAIN d \cup {k} /\ e[k] = doc /\ \A i \in DOMAIN d : e[i] = d[i]
  BY <1>1, <1>2 DEF Merged
<1>4. Sound(d) /\ Closed(d, L) OBVIOUS
<1> PICK M : M = L \cup {<<k, Digest(k, doc)>>} OBVIOUS
<1>5. Sound(e)
  <2> USE <1>2, <1>3, <1>4
  <2> QED BY Extended, SMTT(30)
<1> QED BY <1>5

\* The presented documents of these kinds are in a closed set.
Within(p, js, L) == \A j \in js : <<j, p[j].digest>> \in L

\* A document of a closed set that says what its digest says, and names presented
\* documents, has these in the set as well.
LEMMA NamedWithin ==
  ASSUME NEW p, NEW k, NEW js, NEW L, Closed(docs, L), Genuine(p, k), Within(p, {k}, L),
         js \subseteq Binds[k], Names(p, k, js)
  PROVE  Within(p, js, L)
BY Chased DEF Within, Names

\* A document made of presented ones that are in one closed set.
LEMMA MadeOf ==
  ASSUME Sound(docs), NEW k \in Kinds, Due(k), NEW p, NEW js, NEW i, NEW is, NEW own,
         Make(k, ToAndFrom(p, js, i, is), own), Binds[k] = js \cup is,
         NEW L, Closed(docs, L), OneVersion(L, {}), Within(p, js, L),
         \A j \in is : <<j, p[i].refs[j]>> \in L
  PROVE  Sound(docs')
<1> PICK refs : refs = ToAndFrom(p, js, i, is) OBVIOUS
<1>1. Make(k, refs, own) OBVIOUS
<1>2. /\ refs = [j \in js \cup is |-> refs[j]]
      /\ \A j \in js : refs[j] = p[j].digest
      /\ \A j \in is : j \notin js => refs[j] = p[i].refs[j]
  BY DEF ToAndFrom, To, From, Merged
<1>3. refs = [j \in Binds[k] |-> refs[j]] BY <1>2
<1>4. \A j \in Binds[k] : <<j, refs[j]>> \in L BY <1>2 DEF Within
<1>5. OneVersion(L, Exempt(k)) BY DEF OneVersion
<1> QED BY <1>1, <1>3, <1>4, <1>5, MadeSound

\* As Begins, for documents the exemption of the snapshot does not concern.
LEMMA BeginsAt ==
  ASSUME Sound(docs), NEW kinds, NEW j \in kinds \cap Made, j \notin ContractKinds, NEW p, Handed(p, kinds)
  PROVE  \E L : Closed(docs, L) /\ OneVersion(L, {}) /\ Within(p, {j}, L)
<1>1. Handed(p, {j}) BY DEF Handed
<1>2. Exempt(j) = {} BY DEF Exempt
<1> QED BY <1>1, <1>2, Begins DEF Within

\* A document that names members of a closed set is made, one of several in a step.
LEMMA Joins ==
  ASSUME NEW d, Sound(d), NEW k \in Kinds \ DOMAIN d, k \notin ContractKinds, NEW refs, NEW own,
         NEW L, Closed(d, L), OneVersion(L, {}),
         refs \in [Binds[k] -> Versions], \A j \in Binds[k] : <<j, refs[j]>> \in L,
         NEW doc, doc = Content(refs, own),
         NEW e, DOMAIN e = DOMAIN d \cup {k}, e[k] = doc, \A i \in DOMAIN d : e[i] = d[i]
  PROVE  /\ Sound(e)
         /\ \E M : /\ Closed(e, M) /\ OneVersion(M, {})
                   /\ <<k, Digest(k, doc)>> \in M /\ \A x \in L : x \in M
<1> PICK M : M = L \cup {<<k, Digest(k, doc)>>} OBVIOUS
<1>0. refs = [j \in Binds[k] |-> refs[j]] OBVIOUS
<1>1. Exempt(k) = {} BY DEF Exempt
<1>3. Sound(e) /\ Closed(e, M) /\ OneVersion(M, {})
  <2> USE <1>0, <1>1
  <2> QED BY Extended, SMTT(30)
<1> QED BY <1>3

-----------------------------------------------------------------------------
(* The operations                                                            *)

\* CreateSourceRequest keeps the documents sound.
LEMMA SourceRequestSound == ASSUME Sound(docs), CreateSourceRequest PROVE Sound(docs')
<1> DEFINE kinds == {"spec", "package", "compilation"}
           is == {"plan", "snapshot", "environment"}
<1>1. PICK p \in Presented(kinds) :
        OneCompilation(p) /\ Make("sourceRequest", ToAndFrom(p, kinds, "spec", is), Own("sourceRequest"))
  BY DEF CreateSourceRequest
<1>2. /\ Due("sourceRequest") /\ kinds \subseteq Made
      /\ kinds \subseteq Kinds /\ "sourceRequest" \in Kinds
  BY BindsAre DEF CreateSourceRequest, Due, Kinds, Binds
<1>3. Handed(p, kinds) /\ \A j \in kinds : Genuine(p, j)
  BY <1>1, <1>2, PresentedHanded, IntactGenuine DEF OneCompilation
<1>4. PICK L : Closed(docs, L) /\ OneVersion(L, {}) /\ Within(p, {"compilation"}, L)
  BY <1>2, <1>3, BeginsAt DEF ContractKinds
<1>5. Within(p, {"spec", "package"}, L)
  BY <1>1, <1>3, <1>4, NamedWithin, BindsAre DEF OneCompilation
<1>6. Within(p, kinds, L) BY <1>4, <1>5 DEF Within
<1>7. \A j \in is : <<j, p["spec"].refs[j]>> \in L
  BY <1>3, <1>4, <1>5, Chased, BindsAre DEF Within
<1>8. Binds["sourceRequest"] = kinds \cup is BY BindsAre
<1> HIDE DEF kinds, is
<1> QED BY <1>1, <1>2, <1>4, <1>6, <1>7, <1>8, MadeOf

\* CreateArtifact keeps the documents sound.
LEMMA ArtifactSound == ASSUME Sound(docs), CreateArtifact PROVE Sound(docs')
<1> DEFINE kinds == {"source", "p2"}
           js == {"source", "p2"}
           is == {"sourceRequest", "spec", "package", "compilation"}
<1>1. PICK p \in Presented(kinds) :
        /\ AcceptedSource(p)
        /\ Make("artifact", ToAndFrom(p, js, "source", is), "none")
  BY BindsAre DEF CreateArtifact
<1>2. Due("artifact") /\ js \subseteq Made /\ kinds \subseteq Kinds /\ "artifact" \in Kinds
  BY BindsAre DEF CreateArtifact, Due, Kinds, Binds
<1>3. Handed(p, kinds) /\ \A j \in {"source", "p2"} : Genuine(p, j)
  BY <1>1, <1>2, PresentedHanded, IntactGenuine DEF AcceptedSource
<1>4. PICK L : Closed(docs, L) /\ OneVersion(L, {}) /\ Within(p, {"p2"}, L)
  BY <1>2, <1>3, BeginsAt DEF ContractKinds
<1>5. Within(p, {"source"}, L)
  BY <1>1, <1>3, <1>4, NamedWithin, BindsAre DEF AcceptedSource
<1>6. Within(p, js, L) BY <1>4, <1>5 DEF Within
<1>7. \A j \in is : <<j, p["source"].refs[j]>> \in L
  BY <1>3, <1>4, <1>5, Chased, BindsAre DEF Within
<1>8. Binds["artifact"] = js \cup is BY BindsAre
<1> HIDE DEF kinds, js, is
<1> QED BY <1>1, <1>2, <1>4, <1>6, <1>7, <1>8, MadeOf

\* CreateValidation keeps the documents sound.
LEMMA ValidationSound == ASSUME Sound(docs), CreateValidation PROVE Sound(docs')
<1> DEFINE kinds == {"artifact", "source", "p2"}
           js == {"artifact"}
           is == {"p2"}
<1>1. PICK p \in Presented(kinds) :
        /\ ValidArtifact(p)
        /\ Make("validation", ToAndFrom(p, js, "artifact", is), "none")
  BY DEF CreateValidation
<1>2. Due("validation") /\ js \subseteq Made /\ kinds \subseteq Kinds /\ "validation" \in Kinds
  BY BindsAre DEF CreateValidation, Due, Kinds, Binds
<1>3. Handed(p, kinds) /\ \A j \in {"artifact"} : Genuine(p, j)
  BY <1>1, <1>2, PresentedHanded, IntactGenuine DEF ValidArtifact
<1>4. PICK L : Closed(docs, L) /\ OneVersion(L, {}) /\ Within(p, {"artifact"}, L)
  BY <1>2, <1>3, BeginsAt DEF ContractKinds
<1>5. Within(p, js, L) BY <1>4 DEF Within
<1>6. \A j \in is : <<j, p["artifact"].refs[j]>> \in L
  BY <1>3, <1>4, Chased, BindsAre DEF Within
<1>7. Binds["validation"] = js \cup is BY BindsAre
<1> HIDE DEF kinds, js, is
<1> QED BY <1>1, <1>2, <1>4, <1>5, <1>6, <1>7, MadeOf

\* CreateBundle keeps the documents sound.
LEMMA BundleSound == ASSUME Sound(docs), CreateBundle PROVE Sound(docs')
<1> DEFINE kinds == {"artifact", "validation", "p3", "anchor"}
           js == {"artifact", "validation", "p3"}
           is == {"source", "p2", "sourceRequest", "spec", "package", "compilation"}
<1>1. PICK p \in Presented(kinds) :
        /\ AcceptedP3(p)
        /\ Make("bundle", ToAndFrom(p, js, "artifact", is), "none")
  BY BindsAre DEF CreateBundle, Provenance
<1>2. Due("bundle") /\ js \subseteq Made /\ kinds \subseteq Kinds /\ "bundle" \in Kinds
  BY BindsAre DEF CreateBundle, Due, Kinds, Binds
<1>3. Handed(p, kinds) /\ \A j \in {"p3", "artifact", "validation"} : Genuine(p, j)
  BY <1>1, <1>2, PresentedHanded, IntactGenuine DEF AcceptedP3
<1>4. PICK L : Closed(docs, L) /\ OneVersion(L, {}) /\ Within(p, {"p3"}, L)
  BY <1>2, <1>3, BeginsAt DEF ContractKinds
<1>5. Within(p, {"artifact", "validation"}, L)
  BY <1>1, <1>3, <1>4, NamedWithin, BindsAre DEF AcceptedP3
<1>6. Within(p, js, L) BY <1>4, <1>5 DEF Within
<1>7. \A j \in is : <<j, p["artifact"].refs[j]>> \in L
  BY <1>3, <1>4, <1>5, Chased, BindsAre DEF Within
<1>8. Binds["bundle"] = js \cup is BY BindsAre
<1> HIDE DEF kinds, js, is
<1> QED BY <1>1, <1>2, <1>4, <1>6, <1>7, <1>8, MadeOf

\* PublishBundle keeps the documents sound.
LEMMA ReceiptSound == ASSUME Sound(docs), PublishBundle PROVE Sound(docs')
<1> DEFINE kinds == {"bundle", "anchor"}
           js == {"bundle"}
           is == {"artifact", "validation", "p3"}
<1>1. PICK p \in Presented(kinds) :
        /\ ValidBundle(p)
        /\ Make("receipt", ToAndFrom(p, js, "bundle", is), Own("receipt"))
  BY DEF PublishBundle
<1>2. Due("receipt") /\ js \subseteq Made /\ kinds \subseteq Kinds /\ "receipt" \in Kinds
  BY BindsAre DEF PublishBundle, Due, Kinds, Binds
<1>3. Handed(p, kinds) /\ \A j \in {"bundle"} : Genuine(p, j)
  BY <1>1, <1>2, PresentedHanded, IntactGenuine DEF ValidBundle, BundleIntegrity
<1>4. PICK L : Closed(docs, L) /\ OneVersion(L, {}) /\ Within(p, {"bundle"}, L)
  BY <1>2, <1>3, BeginsAt DEF ContractKinds
<1>5. Within(p, js, L) BY <1>4 DEF Within
<1>6. \A j \in is : <<j, p["bundle"].refs[j]>> \in L
  BY <1>3, <1>4, Chased, BindsAre DEF Within
<1>7. Binds["receipt"] = js \cup is BY BindsAre
<1> HIDE DEF kinds, js, is
<1> QED BY <1>1, <1>2, <1>4, <1>5, <1>6, <1>7, MadeOf

\* CreatePublication keeps the documents sound.
LEMMA PublicationSound == ASSUME Sound(docs), CreatePublication PROVE Sound(docs')
<1> DEFINE kinds == {"bundle", "receipt", "anchor"}
           js == {"bundle", "receipt"}
           is == {"artifact", "validation", "p3"}
<1>1. PICK p \in Presented(kinds) :
        /\ ValidReceipt(p)
        /\ Make("publication", ToAndFrom(p, js, "bundle", is), "none")
  BY DEF CreatePublication
<1>2. /\ Due("publication") /\ js \subseteq Made
      /\ kinds \subseteq Kinds /\ "publication" \in Kinds
  BY BindsAre DEF CreatePublication, Due, Kinds, Binds
<1>3. Handed(p, kinds) /\ \A j \in {"bundle", "receipt"} : Genuine(p, j)
  BY <1>1, <1>2, PresentedHanded, IntactGenuine DEF ValidReceipt, ValidBundle, BundleIntegrity
<1>4. PICK L : Closed(docs, L) /\ OneVersion(L, {}) /\ Within(p, {"receipt"}, L)
  BY <1>2, <1>3, BeginsAt DEF ContractKinds
<1>5. Within(p, {"bundle"}, L)
  BY <1>1, <1>3, <1>4, NamedWithin, BindsAre DEF ValidReceipt, ValidBundle, BundleIntegrity
<1>6. Within(p, js, L) BY <1>4, <1>5 DEF Within
<1>7. \A j \in is : <<j, p["bundle"].refs[j]>> \in L
  BY <1>3, <1>4, <1>5, Chased, BindsAre DEF Within
<1>8. Binds["publication"] = js \cup is BY BindsAre
<1> HIDE DEF kinds, js, is
<1> QED BY <1>1, <1>2, <1>4, <1>6, <1>7, <1>8, MadeOf

\* CreateInvocation keeps the documents sound.
LEMMA InvocationSound == ASSUME Sound(docs), CreateInvocation PROVE Sound(docs')
<1> DEFINE kinds == {"admission"}
           js == {"admission"}
           is == {"bundle"}
<1>1. PICK p \in Presented(kinds) :
        /\ Intact(p, {"admission"})
        /\ Make("invocation", ToAndFrom(p, js, "admission", is), Invocation(p["admission"].own))
  BY DEF CreateInvocation
<1>2. Due("invocation") /\ js \subseteq Made /\ kinds \subseteq Kinds /\ "invocation" \in Kinds
  BY BindsAre DEF CreateInvocation, Due, Kinds, Binds
<1>3. Handed(p, kinds) /\ \A j \in {"admission"} : Genuine(p, j)
  BY <1>1, <1>2, PresentedHanded, IntactGenuine DEF Intact
<1>4. PICK L : Closed(docs, L) /\ OneVersion(L, {}) /\ Within(p, {"admission"}, L)
  BY <1>2, <1>3, BeginsAt DEF ContractKinds
<1>5. Within(p, js, L) BY <1>4 DEF Within
<1>6. \A j \in is : <<j, p["admission"].refs[j]>> \in L
  BY <1>3, <1>4, Chased, BindsAre DEF Within
<1>7. Binds["invocation"] = js \cup is BY BindsAre
<1> HIDE DEF kinds, js, is
<1> QED BY <1>1, <1>2, <1>4, <1>5, <1>6, <1>7, MadeOf

\* CreateAdmissionEvidence keeps the documents sound.
LEMMA AdmissionEvidenceSound == ASSUME Sound(docs), CreateAdmissionEvidence PROVE Sound(docs')
<1> DEFINE kinds == {"admission", "invocation"}
           js == {"admission", "invocation"}
           is == {"request", "bundle"}
<1>1. PICK p \in Presented(kinds) :
        /\ Intact(p, {"admission"})
        /\ PlanIntact(p)
        /\ Names(p, "invocation", {"admission"})
        /\ Make("admissionEvidence", ToAndFrom(p, js, "admission", is), "none")
  BY DEF CreateAdmissionEvidence
<1>2. /\ Due("admissionEvidence") /\ js \subseteq Made
      /\ kinds \subseteq Kinds /\ "admissionEvidence" \in Kinds
  BY BindsAre DEF CreateAdmissionEvidence, Due, Kinds, Binds
<1>3. Handed(p, kinds) /\ \A j \in {"admission", "invocation"} : Genuine(p, j)
  BY <1>1, <1>2, PresentedHanded, IntactGenuine DEF PlanIntact, Intact
<1>4. PICK L : Closed(docs, L) /\ OneVersion(L, {}) /\ Within(p, {"invocation"}, L)
  BY <1>2, <1>3, BeginsAt DEF ContractKinds
<1>5. Within(p, {"admission"}, L)
  BY <1>1, <1>3, <1>4, NamedWithin, BindsAre DEF PlanIntact, Intact
<1>6. Within(p, js, L) BY <1>4, <1>5 DEF Within
<1>7. \A j \in is : <<j, p["admission"].refs[j]>> \in L
  BY <1>3, <1>4, <1>5, Chased, BindsAre DEF Within
<1>8. Binds["admissionEvidence"] = js \cup is BY BindsAre
<1> HIDE DEF kinds, js, is
<1> QED BY <1>1, <1>2, <1>4, <1>6, <1>7, <1>8, MadeOf

\* RenderSource keeps the documents sound.
LEMMA SourceSound == ASSUME Sound(docs), RenderSource PROVE Sound(docs')
<1> DEFINE kinds == {"sourceRequest", "spec", "package", "compilation"}
<1>1. PICK p \in Presented(kinds) :
        /\ ValidSourceRequest(p)
        /\ Make("source", To(p, kinds), "none")
  BY BindsAre DEF RenderSource
<1>2. Due("source") /\ kinds \subseteq Made /\ kinds \subseteq Kinds /\ "source" \in Kinds
  BY BindsAre DEF RenderSource, Due, Kinds, Binds
<1>3. Handed(p, kinds) /\ \A j \in kinds : Genuine(p, j)
  BY <1>1, <1>2, PresentedHanded, IntactGenuine DEF ValidSourceRequest, OneCompilation, Intact
<1>4. PICK L : Closed(docs, L) /\ OneVersion(L, {}) /\ Within(p, {"sourceRequest"}, L)
  BY <1>2, <1>3, BeginsAt DEF ContractKinds
<1>5. Within(p, {"spec", "package", "compilation"}, L)
  BY <1>1, <1>3, <1>4, NamedWithin, BindsAre DEF ValidSourceRequest
<1>6. \A j \in Binds["source"] : <<j, To(p, kinds)[j]>> \in L
  BY <1>4, <1>5, BindsAre DEF Within, To
<1>7. To(p, kinds) = [j \in Binds["source"] |-> To(p, kinds)[j]] BY BindsAre DEF To
<1>8. OneVersion(L, Exempt("source")) BY <1>4 DEF OneVersion
<1> QED BY <1>1, <1>2, <1>4, <1>6, <1>7, <1>8, MadeSound

\* RecordP2 keeps the documents sound.
LEMMA P2Sound == ASSUME Sound(docs), RecordP2 PROVE Sound(docs')
<1>1. Due("p2") /\ "source" \in Made /\ "source" \in Kinds /\ "p2" \in Kinds
  BY BindsAre DEF RecordP2, Due, Kinds, Binds
<1>2. PICK p : p = [source |-> Document("source", {"source"}, "none")] OBVIOUS
<1>3. Make("p2", ToAndFrom(p, {"source"}, "source", {"sourceRequest"}), "none")
  BY <1>2 DEF RecordP2
<1>4. Handed(p, {"source"}) /\ Genuine(p, "source")
  <2>1. p["source"] = Document("source", {"source"}, "none") BY <1>2
  <2> QED BY <1>1, <2>1, DocumentHanded DEF Handed
<1>5. PICK L : Closed(docs, L) /\ OneVersion(L, {}) /\ Within(p, {"source"}, L)
  BY <1>1, <1>4, BeginsAt DEF ContractKinds
<1>6. \A j \in {"sourceRequest"} : <<j, p["source"].refs[j]>> \in L
  BY <1>4, <1>5, Chased, BindsAre DEF Within
<1>7. Binds["p2"] = {"source"} \cup {"sourceRequest"} BY BindsAre
<1> QED BY <1>1, <1>3, <1>5, <1>6, <1>7, MadeOf

\* RecordP3 keeps the documents sound.
LEMMA P3Sound == ASSUME Sound(docs), RecordP3 PROVE Sound(docs')
<1> PICK d : d = docs OBVIOUS
<1>1. /\ "p3" \in Kinds \ DOMAIN d /\ "validation" \in Made /\ "validation" \in Kinds
      /\ "anchor" \in Kinds
  BY BindsAre DEF RecordP3, Due, Kinds, Binds, Made
<1>2. PICK p : p = [validation |-> Document("validation", {"validation"}, "none")] OBVIOUS
<1>3. PICK refs : refs = ToAndFrom(p, {"validation"}, "validation", {"artifact"}) OBVIOUS
<1>4. PICK p3 : p3 = Content(refs, "none") OBVIOUS
<1>own. PICK own : own = Merged(p3.refs, [p3 |-> Digest("p3", p3)]) OBVIOUS
<1>anchor. PICK anchor : anchor = Content(own, "none") OBVIOUS
<1>6. docs' = Merged([p3 |-> p3, anchor |-> anchor], d)
  BY <1>2, <1>3, <1>4, <1>own, <1>anchor DEF RecordP3, Add
<1>7. Handed(p, {"validation"}) /\ Genuine(p, "validation")
  <2>1. p["validation"] = Document("validation", {"validation"}, "none") BY <1>2
  <2> QED BY <1>1, <2>1, DocumentHanded DEF Handed
<1>8. PICK L : Closed(d, L) /\ OneVersion(L, {}) /\ Within(p, {"validation"}, L)
  BY <1>1, <1>7, BeginsAt DEF ContractKinds
<1>9. \A j \in {"artifact", "validation"} : <<j, refs[j]>> \in L
  <2>1. \A j \in {"artifact"} : <<j, p["validation"].refs[j]>> \in L
    BY <1>7, <1>8, Chased, BindsAre DEF Within
  <2> QED BY <1>3, <1>8, <2>1 DEF ToAndFrom, To, From, Merged, Within
<1>10. refs \in [Binds["p3"] -> Versions]
  <2>1. refs = [j \in Binds["p3"] |-> refs[j]] BY <1>3, BindsAre DEF ToAndFrom, To, From, Merged
  <2>2. \A j \in Binds["p3"] : refs[j] \in Versions BY <1>8, <1>9, BindsAre DEF Closed
  <2> QED BY <2>1, <2>2
<1>d1. PICK d1 : d1 = [x \in DOMAIN d \cup {"p3"} |-> IF x = "p3" THEN p3 ELSE d[x]] OBVIOUS
<1>11. PICK L1 : /\ Sound(d1) /\ Closed(d1, L1) /\ OneVersion(L1, {})
                 /\ <<"p3", Digest("p3", p3)>> \in L1 /\ \A x \in L : x \in L1
  <2>1. Sound(d) OBVIOUS
  <2>2. \A j \in Binds["p3"] : <<j, refs[j]>> \in L BY <1>9, BindsAre
  <2>9. DOMAIN d1 = DOMAIN d \cup {"p3"} /\ d1["p3"] = p3 /\ \A i \in DOMAIN d : d1[i] = d[i]
    BY <1>d1, <1>1
  <2> QED BY <1>1, <1>4, <1>8, <1>10, <2>1, <2>2, <2>9, Joins DEF ContractKinds
<1>d2. PICK d2 : d2 = [x \in DOMAIN d1 \cup {"anchor"} |->
                        IF x = "anchor" THEN anchor ELSE d1[x]]
  OBVIOUS
<1>12. "anchor" \in Kinds \ DOMAIN d1
  <2>1. "anchor" \notin DOMAIN d BY <1>1, BindsAre DEF Sound
  <2> QED BY <1>d1, <1>1, <2>1
<1>13. own \in [Binds["anchor"] -> Versions] /\ \A j \in Binds["anchor"] : <<j, own[j]>> \in L1
  <2>1. p3.refs = refs BY <1>4 DEF Content
  <2>2. DOMAIN refs = {"artifact", "validation"} BY <1>10, BindsAre
  <2>3. Binds["anchor"] = {"p3", "artifact", "validation"} BY BindsAre
  <2>4. \A j \in Binds["anchor"] : <<j, own[j]>> \in L1
    BY <1>own, <1>9, <1>11, <2>1, <2>2, <2>3 DEF Merged
  <2>5. own = [j \in Binds["anchor"] |-> own[j]] BY <1>own, <2>1, <2>2, <2>3 DEF Merged
  <2> QED BY <1>11, <2>4, <2>5 DEF Closed
<1>14. Sound(d2)
  <2>9. /\ DOMAIN d2 = DOMAIN d1 \cup {"anchor"}
        /\ d2["anchor"] = anchor
        /\ \A i \in DOMAIN d1 : d2[i] = d1[i]
    BY <1>d2, <1>12
  <2> QED BY <1>anchor, <1>11, <1>12, <1>13, <2>9, Joins DEF ContractKinds
<1>15. docs' = d2 BY <1>d1, <1>d2, <1>6 DEF Merged
<1> QED BY <1>14, <1>15

\* PrepareLaunch keeps the documents sound.
LEMMA LaunchSound == ASSUME Sound(docs), PrepareLaunch PROVE Sound(docs')
<1> PICK d : d = docs OBVIOUS
<1>1. /\ "launch" \in Kinds \ DOMAIN d /\ "decision" \in Kinds \ DOMAIN d
      /\ "boundary" \in Kinds \ DOMAIN d
      /\ RuntimeKinds \subseteq Made /\ RuntimeKinds \subseteq Kinds
  <2>1. "launch" \notin DOMAIN d BY DEF PrepareLaunch, Due, Made
  <2>2. "decision" \notin DOMAIN d /\ "boundary" \notin DOMAIN d BY <2>1, BindsAre DEF Sound
  <2> QED BY <2>1, <2>2, BindsAre DEF PrepareLaunch, Due, Kinds, Binds, Made, RuntimeKinds
<1>2. PICK p \in Presented(RuntimeKinds) :
        LET launch == Content(To(p, RuntimeKinds), p["invocation"].own)
            launchDigest == Digest("launch", launch)
            decision == Content([launch |-> launchDigest], "none")
            decided == [launch |-> launchDigest, decision |-> Digest("decision", decision)]
        IN /\ AcceptedRuntime(p)
           /\ Add([ launch |-> launch, decision |-> decision,
                    boundary |-> Content(Merged(launch.refs, decided), "none") ])
  BY DEF PrepareLaunch
<1> PICK refs : refs = To(p, RuntimeKinds) OBVIOUS
<1> PICK launch : launch = Content(refs, p["invocation"].own) OBVIOUS
<1> PICK refs2 : refs2 = [launch |-> Digest("launch", launch)] OBVIOUS
<1> PICK decision : decision = Content(refs2, "none") OBVIOUS
<1>refs3. PICK refs3 :
      refs3 = Merged(refs, [ launch |-> Digest("launch", launch),
                             decision |-> Digest("decision", decision) ])
  OBVIOUS
<1> PICK boundary : boundary = Content(refs3, "none") OBVIOUS
<1>3. launch.refs = refs BY DEF Content
<1>4. docs' = Merged([launch |-> launch, decision |-> decision, boundary |-> boundary], d)
  BY <1>refs3, <1>2, <1>3 DEF Add
<1>5. Handed(p, RuntimeKinds) /\ \A j \in RuntimeKinds : Genuine(p, j)
  BY <1>1, <1>2, PresentedHanded, IntactGenuine DEF AcceptedRuntime
<1>6. PICK L : Closed(d, L) /\ OneVersion(L, {}) /\ Within(p, {"admissionEvidence"}, L)
  BY <1>1, <1>5, BeginsAt DEF ContractKinds, RuntimeKinds
<1>7. Within(p, {"admission", "invocation"}, L)
  BY <1>2, <1>5, <1>6, NamedWithin, BindsAre DEF AcceptedRuntime, RuntimeKinds
<1>8. \A j \in RuntimeKinds : <<j, refs[j]>> \in L
  BY <1>6, <1>7 DEF Within, To, RuntimeKinds
<1>9. refs = [j \in RuntimeKinds |-> refs[j]] /\ Binds["launch"] = RuntimeKinds
  BY BindsAre DEF To, RuntimeKinds
<1>d1. PICK d1 : d1 = [x \in DOMAIN d \cup {"launch"} |-> IF x = "launch" THEN launch ELSE d[x]]
  OBVIOUS
<1>10. PICK L1 : /\ Sound(d1) /\ Closed(d1, L1) /\ OneVersion(L1, {})
                 /\ <<"launch", Digest("launch", launch)>> \in L1 /\ \A x \in L : x \in L1
  <2>1. Sound(d) OBVIOUS
  <2>2. refs \in [Binds["launch"] -> Versions] BY <1>6, <1>8, <1>9 DEF Closed
  <2>9. /\ DOMAIN d1 = DOMAIN d \cup {"launch"}
        /\ d1["launch"] = launch
        /\ \A i \in DOMAIN d : d1[i] = d[i]
    BY <1>d1, <1>1
  <2> QED BY <1>1, <1>6, <1>8, <1>9, <2>1, <2>2, <2>9, Joins DEF ContractKinds
<1>d2. PICK d2 : d2 = [x \in DOMAIN d1 \cup {"decision"} |->
                        IF x = "decision" THEN decision ELSE d1[x]]
  OBVIOUS
<1>11. PICK L2 : /\ Sound(d2) /\ Closed(d2, L2) /\ OneVersion(L2, {})
                 /\ <<"decision", Digest("decision", decision)>> \in L2
                 /\ \A x \in L1 : x \in L2
  <2>1. "decision" \in Kinds \ DOMAIN d1 BY <1>d1, <1>1
  <2>2. Binds["decision"] = {"launch"} BY BindsAre
  <2>3. \A j \in Binds["decision"] : <<j, refs2[j]>> \in L1 BY <1>10, <2>2
  <2>4. refs2 \in [Binds["decision"] -> Versions] BY <1>10, <2>2, <2>3 DEF Closed
  <2>9. /\ DOMAIN d2 = DOMAIN d1 \cup {"decision"}
        /\ d2["decision"] = decision
        /\ \A i \in DOMAIN d1 : d2[i] = d1[i]
    BY <1>d2, <2>1
  <2> QED BY <1>10, <2>1, <2>3, <2>4, <2>9, Joins DEF ContractKinds
<1>d3. PICK d3 : d3 = [x \in DOMAIN d2 \cup {"boundary"} |->
                        IF x = "boundary" THEN boundary ELSE d2[x]]
  OBVIOUS
<1>12. Sound(d3)
  <2>1. "boundary" \in Kinds \ DOMAIN d2 BY <1>d1, <1>d2, <1>1
  <2>2. Binds["boundary"] = RuntimeKinds \cup {"launch", "decision"}
    BY BindsAre DEF RuntimeKinds
  <2>3. DOMAIN refs = RuntimeKinds BY <1>9
  <2>4. refs3 = [j \in Binds["boundary"] |-> refs3[j]] BY <1>refs3, <2>2, <2>3 DEF Merged
  <2>5. \A j \in Binds["boundary"] : <<j, refs3[j]>> \in L2
    BY <1>refs3, <1>8, <1>10, <1>11, <2>2, <2>3 DEF Merged, RuntimeKinds
  <2>6. refs3 \in [Binds["boundary"] -> Versions] BY <1>11, <2>4, <2>5 DEF Closed
  <2>9. /\ DOMAIN d3 = DOMAIN d2 \cup {"boundary"}
        /\ d3["boundary"] = boundary
        /\ \A i \in DOMAIN d2 : d3[i] = d2[i]
    BY <1>d3, <2>1
  <2> QED BY <1>11, <2>1, <2>5, <2>6, <2>9, Joins DEF ContractKinds
<1>13. docs' = d3 BY <1>d1, <1>d2, <1>d3, <1>4 DEF Merged
<1> QED BY <1>12, <1>13

\* CreateCommand keeps the documents sound.
LEMMA CommandSound == ASSUME Sound(docs), CreateCommand PROVE Sound(docs')
<1>1. PICK p \in Presented(LaunchKinds) :
        /\ AcceptedBoundary(p)
        /\ Make("command", ToAndFrom(p, LaunchKinds, "admission", {"bundle"}),
                CommandOf(p["launch"].own, p["admission"].own))
  BY DEF CreateCommand
<1>2. LaunchKinds = RuntimeKinds \cup {"launch", "decision", "boundary"}
  BY BindsAre DEF LaunchKinds, RuntimeKinds
<1>3. /\ Due("command") /\ LaunchKinds \subseteq Made /\ LaunchKinds \subseteq Kinds
      /\ "command" \in Kinds
  BY BindsAre, <1>2 DEF CreateCommand, Due, Kinds, Binds, RuntimeKinds
<1>4. Handed(p, LaunchKinds) /\ \A j \in LaunchKinds : Genuine(p, j)
  BY <1>1, <1>2, <1>3, PresentedHanded, IntactGenuine
     DEF AcceptedBoundary, ValidLaunch, ValidDecision, AcceptedRuntime, Intact
<1>5. PICK L : Closed(docs, L) /\ OneVersion(L, {}) /\ Within(p, {"boundary"}, L)
  BY <1>2, <1>3, <1>4, BeginsAt DEF ContractKinds
<1>6. Within(p, Binds["boundary"], L)
  BY <1>1, <1>2, <1>4, <1>5, NamedWithin DEF AcceptedBoundary
<1>7. Within(p, LaunchKinds, L) BY <1>5, <1>6 DEF Within, LaunchKinds
<1>8. \A j \in {"bundle"} : <<j, p["admission"].refs[j]>> \in L
  BY <1>2, <1>4, <1>5, <1>7, Chased, BindsAre DEF Within, RuntimeKinds
<1>9. Binds["command"] = LaunchKinds \cup {"bundle"} BY <1>2, BindsAre DEF RuntimeKinds
<1> QED BY <1>1, <1>3, <1>5, <1>7, <1>8, <1>9, MadeOf

\* admitRuntime checks that the request, the plan and the bundle are of one execution.
LEMMA AdmissionSound == ASSUME Sound(docs), CreateAdmission PROVE Sound(docs')
<1> DEFINE kinds == {"request", "spec", "compilation", "bundle", "receipt", "publication", "anchor"}
           named == {"request", "bundle", "receipt", "publication", "spec", "compilation"}
           context == {"environment", "plan", "snapshot", "descriptor"}
<1>1. PICK p, own :
        /\ p \in Presented(kinds)
        /\ Intact(p, {"spec", "compilation"}) /\ ValidPublication(p) /\ SourceOfRequest(p)
        /\ Make("admission",
                Merged(ToAndFrom(p, named, "request", context), From(p, "bundle", {"artifact"})),
                own)
  BY DEF CreateAdmission
<1>2. /\ Due("admission") /\ "publication" \in Made /\ kinds \subseteq Kinds
      /\ "admission" \in Kinds
  BY BindsAre DEF CreateAdmission, Due, Kinds, Binds
<1>3. /\ Handed(p, kinds)
      /\ \A j \in {"publication", "receipt", "bundle", "compilation", "spec"} : Genuine(p, j)
  BY <1>1, <1>2, PresentedHanded, IntactGenuine
     DEF ValidPublication, ValidReceipt, ValidBundle, BundleIntegrity, Intact
<1>4. PICK L : Closed(docs, L) /\ OneVersion(L, {}) /\ Within(p, {"publication"}, L)
  BY <1>2, <1>3, BeginsAt DEF ContractKinds
<1>5. Within(p, {"bundle", "receipt"}, L)
  BY <1>1, <1>3, <1>4, NamedWithin, BindsAre DEF ValidPublication
<1>6. Within(p, {"bundle"}, L) BY <1>5 DEF Within
<1>7. Within(p, {"spec", "compilation"}, L)
  BY <1>1, <1>3, <1>4, <1>6, NamedWithin, BindsAre DEF SourceOfRequest
<1>8. Within(p, {"compilation"}, L) BY <1>7 DEF Within
<1>9. Within(p, {"request", "spec"}, L)
  BY <1>1, <1>3, <1>4, <1>8, NamedWithin, BindsAre DEF SourceOfRequest
<1>10. \A j \in context : <<j, p["request"].refs[j]>> \in L
  <2>1. \A j \in context : p["spec"].refs[j] = p["request"].refs[j]
    BY <1>1 DEF SourceOfRequest, Agree
  <2>2. \A j \in context : <<j, p["spec"].refs[j]>> \in L
    BY <1>3, <1>4, <1>7, Chased, BindsAre DEF Within
  <2> QED BY <2>1, <2>2
<1>11. <<"artifact", p["bundle"].refs["artifact"]>> \in L
  BY <1>3, <1>4, <1>6, Chased, BindsAre DEF Within
<1>12. Within(p, named, L) BY <1>4, <1>5, <1>7, <1>9 DEF Within
<1>refs. PICK refs :
        refs = Merged(ToAndFrom(p, named, "request", context), From(p, "bundle", {"artifact"}))
  OBVIOUS
<1>13. Binds["admission"] = named \cup context \cup {"artifact"} BY BindsAre
<1>14. refs = [j \in Binds["admission"] |-> refs[j]]
  BY <1>refs, <1>13 DEF Merged, ToAndFrom, To, From
<1>15. /\ \A j \in named : refs[j] = p[j].digest
       /\ \A j \in context : refs[j] = p["request"].refs[j]
       /\ refs["artifact"] = p["bundle"].refs["artifact"]
  BY <1>refs DEF Merged, ToAndFrom, To, From
<1>16. \A j \in Binds["admission"] : <<j, refs[j]>> \in L
  BY <1>10, <1>11, <1>12, <1>13, <1>15 DEF Within
<1>17. OneVersion(L, Exempt("admission")) BY <1>4 DEF OneVersion
<1>18. Make("admission", refs, own) BY <1>1, <1>refs
<1> QED BY <1>2, <1>4, <1>14, <1>16, <1>17, <1>18, MadeSound

\* A descriptor names nothing.
LEMMA DescriptorSound == ASSUME Sound(docs), CreateDescriptor PROVE Sound(docs')
<1> PICK refs : refs = [j \in {} |-> refs[j]] /\ refs = <<>>
  <2>1. <<>> = [j \in {} |-> 0] OBVIOUS
  <2> QED BY <2>1
<1>1. Due("descriptor") /\ Make("descriptor", refs, Own("descriptor")) BY DEF CreateDescriptor
<1>2. Binds["descriptor"] = {} /\ "descriptor" \in Kinds BY BindsAre DEF Kinds, Binds
<1>3. Closed(docs, {}) /\ OneVersion({}, Exempt("descriptor")) BY DEF Closed, OneVersion
<1>4. refs = [j \in Binds["descriptor"] |-> refs[j]]
      /\ \A j \in Binds["descriptor"] : <<j, refs[j]>> \in {}
  BY <1>2
<1> QED BY <1>1, <1>2, <1>3, <1>4, MadeSound

\* A request names a plan that names the snapshot it was planned for, and may be given
\* another one.
LEMMA RequestSound == ASSUME Sound(docs), CreateRequest PROVE Sound(docs')
<1> DEFINE kinds == {"descriptor", "plan", "snapshot", "environment"}
<1>1. PICK p \in Presented(kinds) : Make("request", To(p, kinds), Own("request"))
  BY BindsAre DEF CreateRequest
<1>2. Due("request") /\ kinds \subseteq Made /\ kinds \subseteq Kinds /\ "request" \in Kinds
  BY BindsAre DEF CreateRequest, Due, Kinds, Binds
<1>3. Handed(p, kinds) BY <1>2, PresentedHanded
<1>4. PICK v : v = RefsOf(docs, "plan", p["plan"].digest)["snapshot"] OBVIOUS
<1>5. v \in Versions /\ (v = "current" => Digest("snapshot", docs["snapshot"]) = "current")
  <2>1. Handed(p, {"plan"}) BY <1>3 DEF Handed
  <2>2. PICK N : Closed(docs, N) /\ <<"plan", p["plan"].digest>> \in N
    BY <1>2, <2>1, Begins
  <2>3. <<"snapshot", v>> \in N BY <1>4, <2>2, BindsAre DEF Closed
  <2> QED BY <2>2, <2>3 DEF Closed
<1>6. PICK L : L = {<<j, p[j].digest>> : j \in kinds} \cup {<<"snapshot", v>>} OBVIOUS
<1>7. \A k, w : <<k, w>> \in L <=> (k \in kinds /\ w = p[k].digest) \/ (k = "snapshot" /\ w = v)
  BY <1>6
<1>8. Closed(docs, L)
  <2>1. ASSUME NEW k, NEW w, <<k, w>> \in L
        PROVE  /\ k \in DOMAIN docs /\ w \in Versions
               /\ w = "current" => Digest(k, docs[k]) = "current"
               /\ \A j \in Binds[k] : <<j, RefsOf(docs, k, w)[j]>> \in L
    <3>1. CASE k \in kinds /\ w = p[k].digest
      <4>1. /\ k \in DOMAIN docs /\ w \in Versions
            /\ w = "current" => Digest(k, docs[k]) = "current"
        BY <1>2, <1>3, <3>1 DEF Handed, Made
      <4>2. ASSUME NEW j \in Binds[k] PROVE <<j, RefsOf(docs, k, w)[j]>> \in L
        <5>1. k = "plan" /\ j = "snapshot" BY <3>1, BindsAre
        <5> QED BY <1>4, <1>7, <3>1, <5>1
      <4> QED BY <4>1, <4>2
    <3>2. CASE k = "snapshot" /\ w = v
      BY <1>2, <1>5, <3>2, BindsAre DEF Made
    <3> QED BY <1>7, <2>1, <3>1, <3>2
  <2> QED BY <2>1 DEF Closed
<1>9. OneVersion(L, Exempt("request"))
  <2>1. Exempt("request") = {"snapshot"} BY DEF Exempt, ContractKinds
  <2> QED BY <1>7, <2>1 DEF OneVersion
<1>10. /\ To(p, kinds) = [j \in Binds["request"] |-> To(p, kinds)[j]]
       /\ \A j \in Binds["request"] : <<j, To(p, kinds)[j]>> \in L
  BY <1>7, BindsAre DEF To
<1> QED BY <1>1, <1>2, <1>8, <1>9, <1>10, MadeSound

\* CreateResult keeps the documents sound.
LEMMA ResultSound == ASSUME Sound(docs), CreateResult PROVE Sound(docs')
<1> DEFINE kinds == {"request", "descriptor"}
<1>1. PICK p, own :
        p \in Presented(kinds) /\ ValidRequest(p) /\ Make("result", To(p, kinds), own)
  BY DEF CreateResult
<1>2. Due("result") /\ kinds \subseteq Made /\ kinds \subseteq Kinds /\ "result" \in Kinds
  BY BindsAre DEF CreateResult, Due, Kinds, Binds
<1>3. Handed(p, kinds) /\ Genuine(p, "request")
  BY <1>1, <1>2, PresentedHanded, IntactGenuine DEF ValidRequest
<1>4. PICK L : Closed(docs, L) /\ OneVersion(L, {"snapshot"}) /\ Within(p, {"request"}, L)
  <2>1. Handed(p, {"request"}) /\ Exempt("request") = {"snapshot"}
    BY <1>3 DEF Handed, Exempt, ContractKinds
  <2> QED BY <1>2, <2>1, Begins DEF Within
<1>5. Within(p, {"descriptor"}, L)
  BY <1>1, <1>3, <1>4, NamedWithin, BindsAre DEF ValidRequest
<1>6. /\ To(p, kinds) = [j \in Binds["result"] |-> To(p, kinds)[j]]
      /\ \A j \in Binds["result"] : <<j, To(p, kinds)[j]>> \in L
  BY <1>4, <1>5, BindsAre DEF To, Within
<1>7. OneVersion(L, Exempt("result")) BY <1>4 DEF Exempt, ContractKinds
<1> QED BY <1>1, <1>2, <1>4, <1>6, <1>7, MadeSound

\* CreateExecutionEvidence keeps the documents sound.
LEMMA ExecutionEvidenceSound == ASSUME Sound(docs), CreateExecutionEvidence PROVE Sound(docs')
<1> DEFINE kinds == {"request", "result", "descriptor"}
           context == {"plan", "snapshot", "environment"}
<1>1. PICK p \in Presented(kinds) :
        ValidResult(p) /\ Make("executionEvidence", ToAndFrom(p, kinds, "request", context), "none")
  BY DEF CreateExecutionEvidence
<1>2. /\ Due("executionEvidence") /\ kinds \subseteq Made /\ kinds \subseteq Kinds
      /\ "executionEvidence" \in Kinds
  BY BindsAre DEF CreateExecutionEvidence, Due, Kinds, Binds
<1>3. Handed(p, kinds) /\ Genuine(p, "request") /\ Genuine(p, "result")
  BY <1>1, <1>2, PresentedHanded, IntactGenuine DEF ValidResult, ValidRequest, Intact
<1>4. PICK L : Closed(docs, L) /\ OneVersion(L, {"snapshot"}) /\ Within(p, {"result"}, L)
  <2>1. Handed(p, {"result"}) /\ Exempt("result") = {"snapshot"}
    BY <1>3 DEF Handed, Exempt, ContractKinds
  <2> QED BY <1>2, <2>1, Begins DEF Within
<1>5. Within(p, {"request", "descriptor"}, L)
  BY <1>1, <1>3, <1>4, NamedWithin, BindsAre DEF ValidResult
<1>6. \A j \in context : <<j, p["request"].refs[j]>> \in L
  BY <1>3, <1>4, <1>5, Chased, BindsAre DEF Within
<1>refs. PICK refs : refs = ToAndFrom(p, kinds, "request", context) OBVIOUS
<1>7. Binds["executionEvidence"] = kinds \cup context BY BindsAre
<1>8. refs = [j \in Binds["executionEvidence"] |-> refs[j]]
  BY <1>refs, <1>7 DEF ToAndFrom, To, From, Merged
<1>9. \A j \in Binds["executionEvidence"] : <<j, refs[j]>> \in L
  BY <1>refs, <1>4, <1>5, <1>6, <1>7 DEF ToAndFrom, To, From, Merged, Within
<1>10. OneVersion(L, Exempt("executionEvidence")) BY <1>4 DEF Exempt, ContractKinds
<1>11. Make("executionEvidence", refs, "none") BY <1>1, <1>refs
<1> QED BY <1>2, <1>4, <1>8, <1>9, <1>10, <1>11, MadeSound

\* A compilation makes a specification, a package and a record of both.
LEMMA CompileSound == ASSUME Sound(docs), Compile PROVE Sound(docs')
<1> DEFINE kinds == {"descriptor", "request", "plan"}
           context == {"snapshot", "environment"}
<1> PICK d : d = docs OBVIOUS
<1>1. /\ "spec" \in Kinds \ DOMAIN d /\ "package" \in Kinds \ DOMAIN d
      /\ "compilation" \in Kinds \ DOMAIN d
      /\ kinds \subseteq Made /\ kinds \subseteq Kinds
  <2>1. "spec" \notin DOMAIN d BY DEF Compile, Due, Made
  <2>2. "package" \notin DOMAIN d /\ "compilation" \notin DOMAIN d BY <2>1, BindsAre DEF Sound
  <2> QED BY <2>1, <2>2, BindsAre DEF Compile, Due, Kinds, Binds, Made
<1>2. PICK p \in Presented(kinds) :
        LET inputs == ToAndFrom(p, kinds, "request", context)
            spec == Content(inputs, "none")
            specDigest == Digest("spec", spec)
            package == Content([spec |-> specDigest], "none")
            compiled == [spec |-> specDigest, package |-> Digest("package", package)]
        IN /\ ValidRequest(p)
           /\ Intact(p, {"plan"})
           /\ CompilerBindings(p)
           /\ Add([ spec |-> spec, package |-> package,
                    compilation |-> Content(Merged(inputs, compiled), "none") ])
  BY DEF Compile
<1>3. Handed(p, kinds) /\ \A j \in kinds : Genuine(p, j)
  BY <1>1, <1>2, PresentedHanded, IntactGenuine DEF ValidRequest, Intact
<1>4. PICK N : Closed(docs, N) /\ Within(p, {"request"}, N)
  <2>1. Handed(p, {"request"}) BY <1>3 DEF Handed
  <2> QED BY <1>1, <2>1, Begins DEF Within
<1>5. \A j \in Binds["request"] : <<j, p["request"].refs[j]>> \in N
  BY <1>3, <1>4, Chased DEF Within
<1>refs. PICK refs : refs = ToAndFrom(p, kinds, "request", context) OBVIOUS
<1>6. Binds["spec"] = kinds \cup context BY BindsAre
<1>7. /\ refs = [j \in Binds["spec"] |-> refs[j]]
      /\ \A j \in kinds : refs[j] = p[j].digest
      /\ \A j \in Binds["request"] : refs[j] = p["request"].refs[j]
  BY <1>refs, <1>2, <1>6, BindsAre DEF ToAndFrom, To, From, Merged, ValidRequest, CompilerBindings, Names
<1>8. PICK L : L = {<<j, refs[j]>> : j \in Binds["spec"]} OBVIOUS
<1>9. \A k, v : <<k, v>> \in L <=> k \in Binds["spec"] /\ v = refs[k] BY <1>8
<1>10. Closed(d, L)
  <2>1. ASSUME NEW k \in Binds["spec"]
        PROVE  /\ k \in DOMAIN docs /\ refs[k] \in Versions
               /\ refs[k] = "current" => Digest(k, docs[k]) = "current"
    <3>1. CASE k = "request" BY <1>1, <1>3, <1>7, <3>1 DEF Handed, Made
    <3>2. CASE k # "request"
      <4>1. k \in Binds["request"] BY <3>2, BindsAre
      <4> QED BY <1>4, <1>5, <1>7, <4>1 DEF Closed
    <3> QED BY <3>1, <3>2
  <2>2. ASSUME NEW k \in Binds["spec"], NEW j \in Binds[k]
        PROVE  <<j, RefsOf(docs, k, refs[k])[j]>> \in L
    <3>1. CASE k = "request"
      <4>1. RefsOf(docs, k, refs[k])[j] = refs[j] BY <1>3, <1>7, <3>1 DEF Genuine, AsMade
      <4> QED BY <1>6, <1>9, <3>1, <4>1, BindsAre
    <3>2. CASE k = "plan"
      <4>1. j = "snapshot" BY <3>2, BindsAre
      <4>2. RefsOf(docs, k, refs[k])[j] = p["plan"].refs["snapshot"]
        BY <1>3, <1>7, <3>2, <4>1 DEF Genuine, AsMade
      <4>3. p["plan"].refs["snapshot"] = refs["snapshot"]
        BY <1>2, <1>7, BindsAre DEF CompilerBindings, Agree
      <4> QED BY <1>6, <1>9, <4>1, <4>2, <4>3
    <3>3. k \in {"request", "plan"} BY BindsAre
    <3> QED BY <3>1, <3>2, <3>3
  <2> QED BY <1>9, <2>1, <2>2 DEF Closed
<1>11. OneVersion(L, {}) BY <1>9 DEF OneVersion
<1>spec. PICK spec : spec = Content(refs, "none") OBVIOUS
<1>refs2. PICK refs2 : refs2 = [spec |-> Digest("spec", spec)] OBVIOUS
<1>package. PICK package : package = Content(refs2, "none") OBVIOUS
<1>refs3. PICK refs3 :
      refs3 = Merged(refs, [spec |-> Digest("spec", spec), package |-> Digest("package", package)])
  OBVIOUS
<1>compilation. PICK compilation : compilation = Content(refs3, "none") OBVIOUS
<1>12. docs' = Merged([spec |-> spec, package |-> package, compilation |-> compilation], d)
  BY <1>2, <1>refs, <1>spec, <1>refs2, <1>package, <1>refs3, <1>compilation DEF Add
<1>d1. PICK d1 : d1 = [x \in DOMAIN d \cup {"spec"} |-> IF x = "spec" THEN spec ELSE d[x]]
  OBVIOUS
<1>13. PICK L1 : /\ Sound(d1) /\ Closed(d1, L1) /\ OneVersion(L1, {})
                 /\ <<"spec", Digest("spec", spec)>> \in L1 /\ \A x \in L : x \in L1
  <2>1. Sound(d) OBVIOUS
  <2>2. \A j \in Binds["spec"] : <<j, refs[j]>> \in L BY <1>9
  <2>3. refs \in [Binds["spec"] -> Versions] BY <1>7, <1>10, <2>2 DEF Closed
  <2>9. /\ DOMAIN d1 = DOMAIN d \cup {"spec"}
        /\ d1["spec"] = spec
        /\ \A i \in DOMAIN d : d1[i] = d[i]
    BY <1>d1, <1>1
  <2> QED BY <1>spec, <1>1, <1>10, <1>11, <2>1, <2>2, <2>3, <2>9, Joins DEF ContractKinds
<1>d2. PICK d2 : d2 = [x \in DOMAIN d1 \cup {"package"} |->
                        IF x = "package" THEN package ELSE d1[x]]
  OBVIOUS
<1>14. PICK L2 : /\ Sound(d2) /\ Closed(d2, L2) /\ OneVersion(L2, {})
                 /\ <<"package", Digest("package", package)>> \in L2 /\ \A x \in L1 : x \in L2
  <2>1. "package" \in Kinds \ DOMAIN d1 BY <1>d1, <1>1
  <2>2. \A j \in Binds["package"] : <<j, refs2[j]>> \in L1 BY <1>refs2, <1>13, BindsAre
  <2>3. refs2 \in [Binds["package"] -> Versions] BY <1>refs2, <1>13, BindsAre DEF Closed
  <2>9. /\ DOMAIN d2 = DOMAIN d1 \cup {"package"}
        /\ d2["package"] = package
        /\ \A i \in DOMAIN d1 : d2[i] = d1[i]
    BY <1>d2, <2>1
  <2> QED BY <1>package, <1>13, <2>1, <2>2, <2>3, <2>9, Joins DEF ContractKinds
<1>d3. PICK d3 : d3 = [x \in DOMAIN d2 \cup {"compilation"} |->
                        IF x = "compilation" THEN compilation ELSE d2[x]]
  OBVIOUS
<1>15. Sound(d3)
  <2>1. "compilation" \in Kinds \ DOMAIN d2 BY <1>d1, <1>d2, <1>1
  <2>2. Binds["compilation"] = Binds["spec"] \cup {"spec", "package"} BY BindsAre
  <2>3. DOMAIN refs = Binds["spec"] /\ "spec" \notin DOMAIN refs /\ "package" \notin DOMAIN refs
    BY <1>6, <1>7
  <2>4. refs3 = [j \in Binds["compilation"] |-> refs3[j]] BY <1>refs3, <2>2, <2>3 DEF Merged
  <2>5. \A j \in Binds["compilation"] : <<j, refs3[j]>> \in L2
    BY <1>refs3, <1>9, <1>13, <1>14, <2>2, <2>3 DEF Merged
  <2>6. refs3 \in [Binds["compilation"] -> Versions] BY <1>14, <2>4, <2>5 DEF Closed
  <2>9. /\ DOMAIN d3 = DOMAIN d2 \cup {"compilation"}
        /\ d3["compilation"] = compilation
        /\ \A i \in DOMAIN d2 : d3[i] = d2[i]
    BY <1>d3, <2>1
  <2> QED BY <1>compilation, <1>14, <2>1, <2>5, <2>6, <2>9, Joins DEF ContractKinds
<1>16. docs' = d3 BY <1>d1, <1>d2, <1>d3, <1>12 DEF Merged
<1> QED BY <1>15, <1>16

-----------------------------------------------------------------------------
(* What is made of a settled run                                             *)

\* The command a call runs is one of those at hand, and nothing has been made of its
\* run before it is answered.
CallAtHand ==
  /\ call.state # "none" => "command" \in Made
  /\ call.command = "current" => "command" \in Made
  /\ call.state # "answered" => "lifecycle" \notin Made

\* The bindings a call was given are documents a caller handed over.
LEMMA BindingsHanded ==
  ASSUME Sound(docs), CallAtHand, NEW p \in Bindings
  PROVE  Handed(p, LaunchKinds \cup {"command"})
<1>1. LaunchKinds = RuntimeKinds \cup {"launch", "decision", "boundary"}
  BY BindsAre DEF LaunchKinds, RuntimeKinds
<1>2. LaunchKinds \subseteq Kinds /\ "command" \in Kinds /\ "command" \notin LaunchKinds
  BY <1>1 DEF Kinds, Binds, RuntimeKinds
<1>3. PICK S : S = IF call.command = "current" THEN {"command"} ELSE {} OBVIOUS
<1>4. PICK kept : kept = Document("command", S, "none") OBVIOUS
<1>5. PICK q \in Presented(LaunchKinds) : p = Merged([command |-> kept], q)
  BY <1>3, <1>4 DEF Bindings
<1>6. Handed(q, LaunchKinds) BY <1>2, PresentedHanded
<1>7. DOMAIN q = LaunchKinds BY DEF Presented
<1>8. p["command"] = kept /\ \A j \in LaunchKinds : p[j] = q[j]
  BY <1>2, <1>5, <1>7 DEF Merged
<1>9. S \in SUBSET Made BY <1>3 DEF CallAtHand
<1>10. Handed(p, {"command"}) BY <1>2, <1>4, <1>8, <1>9, DocumentHanded
<1>11. \A j \in LaunchKinds : Handed(p, {j})
  BY <1>6, <1>8 DEF Handed, Intact, Genuine
<1> QED BY <1>10, <1>11 DEF Handed

\* What Answer has validated, and the documents it makes of a settled run.
Makes(p, refs1, refs2, refs3, refs4, lifecycle, observation, outcome, evidence) ==
  /\ p \in Bindings /\ ValidCommand(p)
  /\ refs1 = [command |-> p["command"].digest]
  /\ lifecycle = Content(refs1, run.evidence)
  /\ refs2 = [ command |-> p["command"].digest,
               lifecycle |-> Digest("lifecycle", lifecycle) ]
  /\ observation = Content(refs2, ExitKept)
  /\ refs3 = [ command |-> p["command"].digest,
               lifecycle |-> Digest("lifecycle", lifecycle),
               observation |-> Digest("observation", observation) ]
  /\ outcome = Content(refs3, Classify(run.evidence.terminalState, ExitKept))
  /\ refs4 = Merged(To(p, LaunchKinds),
                    [ command |-> p["command"].digest,
                      lifecycle |-> Digest("lifecycle", lifecycle),
                      observation |-> Digest("observation", observation),
                      outcome |-> Digest("outcome", outcome) ])
  /\ evidence = Content(refs4, "none")
  /\ docs' = Merged([ lifecycle |-> lifecycle, observation |-> observation,
                      outcome |-> outcome, runtimeEvidence |-> evidence ], docs)

\* Answer makes them of some bindings.
LEMMA Answers ==
  ASSUME Answer
  PROVE  \E p, refs1, refs2, refs3, refs4, lifecycle, observation, outcome, evidence :
           Makes(p, refs1, refs2, refs3, refs4, lifecycle, observation, outcome, evidence)
<1>1. PICK p \in Bindings : ValidCommand(p) /\ docs' = Merged(RuntimeDocuments(p, ExitKept), docs)
  BY DEF Answer, BindingsStillValid
<1>refs1. PICK refs1 : refs1 = [command |-> p["command"].digest] OBVIOUS
<1>2. PICK lifecycle : lifecycle = Content(refs1, run.evidence) OBVIOUS
<1>refs2. PICK refs2 : refs2 = [ command |-> p["command"].digest,
                                 lifecycle |-> Digest("lifecycle", lifecycle) ]
  OBVIOUS
<1>3. PICK observation : observation = Content(refs2, ExitKept) OBVIOUS
<1>refs3. PICK refs3 : refs3 = [ command |-> p["command"].digest,
                                 lifecycle |-> Digest("lifecycle", lifecycle),
                                 observation |-> Digest("observation", observation) ]
  OBVIOUS
<1>4. PICK outcome : outcome = Content(refs3, Classify(run.evidence.terminalState, ExitKept))
  OBVIOUS
<1>refs4. PICK refs4 : refs4 = Merged(To(p, LaunchKinds),
                                      [ command |-> p["command"].digest,
                                        lifecycle |-> Digest("lifecycle", lifecycle),
                                        observation |-> Digest("observation", observation),
                                        outcome |-> Digest("outcome", outcome) ])
  OBVIOUS
<1>5. PICK evidence : evidence = Content(refs4, "none") OBVIOUS
<1>6. lifecycle = LifecycleOf(p)
  <2>1. To(p, {"command"}) = refs1 BY <1>refs1 DEF To
  <2> QED BY <1>2, <2>1 DEF LifecycleOf
<1>7. lifecycle.own = run.evidence /\ observation.own = ExitKept BY <1>2, <1>3 DEF Content
<1>8. observation = ObservationOf(refs2, ExitKept) BY <1>3 DEF ObservationOf
<1>9. outcome = OutcomeOf(refs3, lifecycle, observation) BY <1>4, <1>7 DEF OutcomeOf
<1>10. evidence = RuntimeEvidenceOf(p, [ command |-> p["command"].digest,
                                         lifecycle |-> Digest("lifecycle", lifecycle),
                                         observation |-> Digest("observation", observation),
                                         outcome |-> Digest("outcome", outcome) ])
  BY <1>refs4, <1>5 DEF RuntimeEvidenceOf
<1>11. RuntimeDocuments(p, ExitKept) =
         [ lifecycle |-> lifecycle, observation |-> observation,
           outcome |-> outcome, runtimeEvidence |-> evidence ]
  BY <1>6, <1>8, <1>9, <1>10, <1>refs2, <1>refs3 DEF RuntimeDocuments
<1> HIDE <1>6, <1>8, <1>9, <1>10
<1>12. docs' = Merged([ lifecycle |-> lifecycle, observation |-> observation,
                        outcome |-> outcome, runtimeEvidence |-> evidence ], docs)
  BY <1>1, <1>11
<1>13. Makes(p, refs1, refs2, refs3, refs4, lifecycle, observation, outcome, evidence)
  BY <1>1, <1>refs1, <1>2, <1>refs2, <1>3, <1>refs3, <1>4, <1>refs4, <1>5, <1>12 DEF Makes
<1> QED BY <1>13

\* The documents of a run join those its command was made of.
LEMMA AnswerSound == ASSUME Sound(docs), CallAtHand, Answer PROVE Sound(docs')
<1> PICK d : d = docs OBVIOUS
<1>1. PICK p, refs1, refs2, refs3, refs4, lifecycle, observation, outcome, evidence :
        Makes(p, refs1, refs2, refs3, refs4, lifecycle, observation, outcome, evidence)
  BY Answers
<1>0. p \in Bindings BY <1>1 DEF Makes
<1>2. LaunchKinds = RuntimeKinds \cup {"launch", "decision", "boundary"}
  BY BindsAre DEF LaunchKinds, RuntimeKinds
<1>3. /\ \A k \in {"lifecycle", "observation", "outcome", "runtimeEvidence"} : k \in Kinds \ DOMAIN d
      /\ "command" \in Made
  <2>1. call.state = "running" BY DEF Answer
  <2>2. "lifecycle" \notin DOMAIN d /\ "command" \in Made BY <2>1 DEF CallAtHand, Made
  <2>3. \A k \in {"observation", "outcome", "runtimeEvidence"} : k \notin DOMAIN d
    BY <2>2, BindsAre DEF Sound
  <2> QED BY <2>2, <2>3 DEF Kinds, Binds
<1>4. Handed(p, LaunchKinds \cup {"command"}) /\ Genuine(p, "command")
  <2>1. Intact(p, {"command"}) BY <1>1 DEF Makes, ValidCommand
  <2> QED BY <1>0, <2>1, BindingsHanded, IntactGenuine
<1>5. PICK L : Closed(d, L) /\ OneVersion(L, {}) /\ Within(p, {"command"}, L)
  BY <1>3, <1>4, BeginsAt DEF ContractKinds
<1>6. Within(p, LaunchKinds, L)
  <2>1. LaunchKinds \subseteq Binds["command"] BY <1>2, BindsAre DEF RuntimeKinds
  <2> QED BY <1>1, <1>4, <1>5, <2>1, NamedWithin DEF Makes, ValidCommand
<1>7. <<"command", p["command"].digest>> \in L BY <1>5 DEF Within
<1>d1. PICK d1 : d1 = [x \in DOMAIN d \cup {"lifecycle"} |->
                        IF x = "lifecycle" THEN lifecycle ELSE d[x]]
  OBVIOUS
<1>8. PICK L1 : /\ Sound(d1) /\ Closed(d1, L1) /\ OneVersion(L1, {})
                 /\ <<"lifecycle", Digest("lifecycle", lifecycle)>> \in L1
                 /\ \A x \in L : x \in L1
  <2>1. Sound(d) /\ Closed(d, L) /\ OneVersion(L, {}) BY <1>5
  <2>2. "lifecycle" \in Kinds \ DOMAIN d BY <1>3
  <2>3. \A j \in Binds["lifecycle"] : <<j, refs1[j]>> \in L BY <1>1, <1>7, BindsAre DEF Makes
  <2>4. refs1 \in [Binds["lifecycle"] -> Versions]
    BY <1>1, <2>1, <2>3, BindsAre DEF Makes, Closed
  <2>5. lifecycle = Content(refs1, lifecycle.own) BY <1>1 DEF Makes, Content
  <2>9. /\ DOMAIN d1 = DOMAIN d \cup {"lifecycle"}
        /\ d1["lifecycle"] = lifecycle
        /\ \A i \in DOMAIN d : d1[i] = d[i]
    BY <1>d1, <2>2
  <2> QED BY <2>1, <2>2, <2>3, <2>4, <2>5, <2>9, Joins DEF ContractKinds
<1>d2. PICK d2 : d2 = [x \in DOMAIN d1 \cup {"observation"} |->
                        IF x = "observation" THEN observation ELSE d1[x]]
  OBVIOUS
<1>9. PICK L2 : /\ Sound(d2) /\ Closed(d2, L2) /\ OneVersion(L2, {})
                 /\ <<"observation", Digest("observation", observation)>> \in L2
                 /\ \A x \in L1 : x \in L2
  <2>1. Sound(d1) /\ Closed(d1, L1) /\ OneVersion(L1, {}) BY <1>8
  <2>2. "observation" \in Kinds \ DOMAIN d1 BY <1>3, <1>d1
  <2>3. \A j \in Binds["observation"] : <<j, refs2[j]>> \in L1
    BY <1>1, <1>7, <1>8, BindsAre DEF Makes
  <2>4. refs2 \in [Binds["observation"] -> Versions]
    BY <1>1, <2>1, <2>3, BindsAre DEF Makes, Closed
  <2>5. observation = Content(refs2, observation.own) BY <1>1 DEF Makes, Content
  <2>9. /\ DOMAIN d2 = DOMAIN d1 \cup {"observation"}
        /\ d2["observation"] = observation
        /\ \A i \in DOMAIN d1 : d2[i] = d1[i]
    BY <1>d2, <2>2
  <2> QED BY <2>1, <2>2, <2>3, <2>4, <2>5, <2>9, Joins DEF ContractKinds
<1>d3. PICK d3 : d3 = [x \in DOMAIN d2 \cup {"outcome"} |->
                        IF x = "outcome" THEN outcome ELSE d2[x]]
  OBVIOUS
<1>10. PICK L3 : /\ Sound(d3) /\ Closed(d3, L3) /\ OneVersion(L3, {})
                 /\ <<"outcome", Digest("outcome", outcome)>> \in L3 /\ \A x \in L2 : x \in L3
  <2>1. Sound(d2) /\ Closed(d2, L2) /\ OneVersion(L2, {}) BY <1>9
  <2>2. "outcome" \in Kinds \ DOMAIN d2 BY <1>3, <1>d1, <1>d2
  <2>3. \A j \in Binds["outcome"] : <<j, refs3[j]>> \in L2
    BY <1>1, <1>7, <1>8, <1>9, BindsAre DEF Makes
  <2>4. refs3 \in [Binds["outcome"] -> Versions] BY <1>1, <2>1, <2>3, BindsAre DEF Makes, Closed
  <2>5. outcome = Content(refs3, outcome.own) BY <1>1 DEF Makes, Content
  <2>9. /\ DOMAIN d3 = DOMAIN d2 \cup {"outcome"}
        /\ d3["outcome"] = outcome
        /\ \A i \in DOMAIN d2 : d3[i] = d2[i]
    BY <1>d3, <2>2
  <2> QED BY <2>1, <2>2, <2>3, <2>4, <2>5, <2>9, Joins DEF ContractKinds
<1>d4. PICK d4 : d4 = [x \in DOMAIN d3 \cup {"runtimeEvidence"} |->
                        IF x = "runtimeEvidence" THEN evidence ELSE d3[x]]
  OBVIOUS
<1>11. Sound(d4)
  <2>1. Sound(d3) /\ Closed(d3, L3) /\ OneVersion(L3, {}) BY <1>10
  <2>2. "runtimeEvidence" \in Kinds \ DOMAIN d3 BY <1>3, <1>d1, <1>d2, <1>d3
  <2>3. Binds["runtimeEvidence"] = LaunchKinds \cup {"command", "lifecycle", "observation", "outcome"}
    BY <1>2, BindsAre DEF RuntimeKinds
  <2>4. DOMAIN To(p, LaunchKinds) = LaunchKinds
        /\ \A j \in LaunchKinds : To(p, LaunchKinds)[j] = p[j].digest
    BY DEF To
  <2>5. \A j \in {"command", "lifecycle", "observation", "outcome"} : j \notin LaunchKinds
    BY <1>2 DEF RuntimeKinds
  <2>6. refs4 = [j \in Binds["runtimeEvidence"] |-> refs4[j]]
    BY <1>1, <2>3, <2>4 DEF Makes, Merged
  <2>7. /\ \A j \in LaunchKinds : refs4[j] = p[j].digest
        /\ refs4["command"] = p["command"].digest
        /\ refs4["lifecycle"] = Digest("lifecycle", lifecycle)
        /\ refs4["observation"] = Digest("observation", observation)
        /\ refs4["outcome"] = Digest("outcome", outcome)
    BY <1>1, <2>4, <2>5 DEF Makes, Merged
  <2>8. \A j \in Binds["runtimeEvidence"] : <<j, refs4[j]>> \in L3
    <3>1. \A j \in LaunchKinds : <<j, refs4[j]>> \in L3
      BY <1>6, <1>8, <1>9, <1>10, <2>7 DEF Within
    <3>2. \A j \in {"command", "lifecycle", "observation", "outcome"} : <<j, refs4[j]>> \in L3
      BY <1>7, <1>8, <1>9, <1>10, <2>7
    <3> QED BY <2>3, <3>1, <3>2
  <2>10. refs4 \in [Binds["runtimeEvidence"] -> Versions] BY <2>1, <2>6, <2>8 DEF Closed
  <2>11. evidence = Content(refs4, "none") BY <1>1 DEF Makes
  <2>9. DOMAIN d4 = DOMAIN d3 \cup {"runtimeEvidence"} /\ d4["runtimeEvidence"] = evidence
        /\ \A i \in DOMAIN d3 : d4[i] = d3[i]
    BY <1>d4, <2>2
  <2> QED BY <2>1, <2>2, <2>8, <2>9, <2>10, <2>11, Joins DEF ContractKinds
<1>12. docs' = d4
  <2>1. docs' = Merged([ lifecycle |-> lifecycle, observation |-> observation,
                         outcome |-> outcome, runtimeEvidence |-> evidence ], d)
    BY <1>1 DEF Makes
  <2> QED BY <1>d1, <1>d2, <1>d3, <1>d4, <2>1 DEF Merged
<1> QED BY <1>11, <1>12

-----------------------------------------------------------------------------
(* Lineages                                                                  *)

\* Thirty-one steps.
LEMMA Steps31 ==
  ASSUME NEW T, 0 \in T, \A n \in 0..30 : n \in T => n + 1 \in T
  PROVE  30 \in T /\ 31 \in T
<1>1. 8 \in T OBVIOUS
<1>2. 16 \in T BY <1>1
<1>3. 24 \in T BY <1>2
<1> QED BY <1>3

Nothing == [k \in Kinds |-> {}]

\* The first m steps of AncestorsUpTo.
AncestorsBegun(m, f) ==
  f = [n \in 0..m |-> IF n = 0 THEN Nothing ELSE WithAncestors(f[n - 1], Order[n])]

\* All of them can be taken.
LEMMA AncestorsExist == \E f : AncestorsBegun(31, f)
<1> PICK T : T = {m \in 0..31 : \E f : AncestorsBegun(m, f)} OBVIOUS
<1>1. 0 \in T
  <2>1. PICK f : f = [n \in 0..0 |-> Nothing] OBVIOUS
  <2>2. AncestorsBegun(0, f) BY <2>1 DEF AncestorsBegun
  <2> QED BY <2>2
<1>2. ASSUME NEW m \in 0..30, m \in T PROVE m + 1 \in T
  <2>1. PICK f : AncestorsBegun(m, f) BY <1>2
  <2>2. PICK g : g = [n \in 0..(m + 1) |-> IF n = m + 1 THEN WithAncestors(f[m], Order[n]) ELSE f[n]]
    OBVIOUS
  <2>3. ASSUME NEW n \in 0..(m + 1)
        PROVE  g[n] = IF n = 0 THEN Nothing ELSE WithAncestors(g[n - 1], Order[n])
    <3>1. CASE n = m + 1
      <4>1. g[n - 1] = f[m] BY <2>2, <3>1
      <4> QED BY <2>2, <3>1, <4>1
    <3>2. CASE n # m + 1
      <4>1. n \in 0..m /\ g[n] = f[n] BY <2>2, <3>2
      <4>2. n # 0 => g[n - 1] = f[n - 1] BY <2>2, <4>1
      <4> QED BY <2>1, <4>1, <4>2 DEF AncestorsBegun
    <3> QED BY <3>1, <3>2
  <2>4. AncestorsBegun(m + 1, g) BY <2>2, <2>3 DEF AncestorsBegun
  <2> QED BY <2>4
<1>3. 31 \in T BY <1>1, <1>2, Steps31
<1> QED BY <1>3

\* AncestorsUpTo is what its definition says.
LEMMA AncestorsAre ==
  /\ Ancestors = AncestorsUpTo[31]
  /\ AncestorsUpTo[0] = Nothing
  /\ \A n \in 1..31 : AncestorsUpTo[n] = WithAncestors(AncestorsUpTo[n - 1], Order[n])
<1>1. Len(Order) = 31 BY OrderIs
<1>2. AncestorsBegun(31, AncestorsUpTo)
  <2>1. \E f : f = [n \in 0..Len(Order) |-> IF n = 0 THEN Nothing ELSE WithAncestors(f[n - 1], Order[n])]
    BY <1>1, AncestorsExist DEF AncestorsBegun
  <2>2. AncestorsUpTo = [n \in 0..Len(Order) |->
                       IF n = 0 THEN Nothing ELSE WithAncestors(AncestorsUpTo[n - 1], Order[n])]
    BY <2>1 DEF AncestorsUpTo, Nothing
  <2> QED BY <1>1, <2>2 DEF AncestorsBegun
<1>3. Ancestors = AncestorsUpTo[31] BY <1>1 DEF Ancestors
<1> QED BY <1>2, <1>3 DEF AncestorsBegun

\* The first m steps of LineageUpTo.
LineageBegun(m, f) ==
  f = [n \in 0..m |-> IF n = 0 THEN Nothing ELSE WithLineage(f[n - 1], Order[n])]

\* All of them can be taken.
LEMMA LineageExist == \E f : LineageBegun(31, f)
<1> PICK T : T = {m \in 0..31 : \E f : LineageBegun(m, f)} OBVIOUS
<1>1. 0 \in T
  <2>1. PICK f : f = [n \in 0..0 |-> Nothing] OBVIOUS
  <2>2. LineageBegun(0, f) BY <2>1 DEF LineageBegun
  <2> QED BY <2>2
<1>2. ASSUME NEW m \in 0..30, m \in T PROVE m + 1 \in T
  <2>1. PICK f : LineageBegun(m, f) BY <1>2
  <2>2. PICK g : g = [n \in 0..(m + 1) |-> IF n = m + 1 THEN WithLineage(f[m], Order[n]) ELSE f[n]]
    OBVIOUS
  <2>3. ASSUME NEW n \in 0..(m + 1)
        PROVE  g[n] = IF n = 0 THEN Nothing ELSE WithLineage(g[n - 1], Order[n])
    <3>1. CASE n = m + 1
      <4>1. g[n - 1] = f[m] BY <2>2, <3>1
      <4> QED BY <2>2, <3>1, <4>1
    <3>2. CASE n # m + 1
      <4>1. n \in 0..m /\ g[n] = f[n] BY <2>2, <3>2
      <4>2. n # 0 => g[n - 1] = f[n - 1] BY <2>2, <4>1
      <4> QED BY <2>1, <4>1, <4>2 DEF LineageBegun
    <3> QED BY <3>1, <3>2
  <2>4. LineageBegun(m + 1, g) BY <2>2, <2>3 DEF LineageBegun
  <2> QED BY <2>4
<1>3. 31 \in T BY <1>1, <1>2, Steps31
<1> QED BY <1>3

\* LineageUpTo is what its definition says.
LEMMA LineageAre ==
  /\ Lineage = LineageUpTo[31]
  /\ LineageUpTo[0] = Nothing
  /\ \A n \in 1..31 : LineageUpTo[n] = WithLineage(LineageUpTo[n - 1], Order[n])
<1>1. Len(Order) = 31 BY OrderIs
<1>2. LineageBegun(31, LineageUpTo)
  <2>1. \E f : f = [n \in 0..Len(Order) |-> IF n = 0 THEN Nothing ELSE WithLineage(f[n - 1], Order[n])]
    BY <1>1, LineageExist DEF LineageBegun
  <2>2. LineageUpTo = [n \in 0..Len(Order) |->
                       IF n = 0 THEN Nothing ELSE WithLineage(LineageUpTo[n - 1], Order[n])]
    BY <2>1 DEF LineageUpTo, Nothing
  <2> QED BY <1>1, <2>2 DEF LineageBegun
<1>3. Lineage = LineageUpTo[31] BY <1>1 DEF Lineage
<1> QED BY <1>2, <1>3 DEF LineageBegun

\* A closed set with an earlier document holds its earlier ancestors.
LEMMA AncestorsWithin ==
  ASSUME NEW L, Closed(docs, L), Sound(docs), NEW k, <<k, "earlier">> \in L
  PROVE  \A i \in Ancestors[k] : <<i, "earlier">> \in L
<1> DEFINE P(of) == /\ DOMAIN of = Kinds
                    /\ \A j \in Kinds : <<j, "earlier">> \in L =>
                         \A i \in of[j] : <<i, "earlier">> \in L
<1>1. PICK T : T = {n \in 0..31 : P(AncestorsUpTo[n])} OBVIOUS
<1>2. 0 \in T
  <2>1. P(Nothing) BY DEF Nothing
  <2> HIDE DEF P
  <2> QED BY <1>1, <2>1, AncestorsAre
<1>3. ASSUME NEW n \in 0..30, n \in T PROVE n + 1 \in T
  <2>1. PICK of : of = AncestorsUpTo[n] OBVIOUS
  <2>2. P(of) BY <1>1, <1>3, <2>1
  <2>3. PICK o : o = Order[n + 1] OBVIOUS
  <2>4. PICK new : new = WithAncestors(of, o) OBVIOUS
  <2>5. AncestorsUpTo[n + 1] = new BY <2>1, <2>3, <2>4, AncestorsAre
  <2>6. P(new)
    <3>1. DOMAIN new = Kinds BY <2>2, <2>4 DEF WithAncestors
    <3>2. ASSUME NEW j \in Kinds, <<j, "earlier">> \in L, NEW i \in new[j]
          PROVE  <<i, "earlier">> \in L
      <4>1. CASE j # o
        <5>1. new[j] = of[j] BY <2>4, <4>1 DEF WithAncestors
        <5> QED BY <2>2, <3>2, <5>1
      <4>2. CASE j = o
        <5>1. new[j] = Binds[j] \cup UNION {of[h] : h \in Binds[j]}
          BY <2>2, <2>4, <4>2 DEF WithAncestors
        <5>2. \A h \in Binds[j] : <<h, "earlier">> \in L
          <6>1. \A h \in Binds[j] : RefsOf(docs, j, "earlier")[h] = "earlier" BY DEF RefsOf
          <6> QED BY <3>2, <6>1 DEF Closed
        <5>3. \A h \in Binds[j] : h \in Kinds BY <5>2 DEF Closed, Sound
        <5> QED BY <2>2, <3>2, <5>1, <5>2, <5>3
      <4> QED BY <4>1, <4>2
    <3> QED BY <3>1, <3>2
  <2> HIDE DEF P
  <2> QED BY <1>1, <2>5, <2>6
<1>4. 31 \in T BY <1>2, <1>3, Steps31
<1>5. P(Ancestors) BY <1>1, <1>4, AncestorsAre
<1>6. k \in Kinds BY DEF Closed, Sound
<1> QED BY <1>5, <1>6

\* A closed set with a document that was made holds all it descends from.
LEMMA LineageWithin ==
  ASSUME Sound(docs), NEW L, Closed(docs, L), NEW k \in Made, <<k, Digest(k, docs[k])>> \in L
  PROVE  \A j, v : <<j, v>> \in Lineage[k] => <<j, v>> \in L
<1> DEFINE In(j) == <<j, Digest(j, docs[j])>> \in L
           P(of) == DOMAIN of = Kinds /\ \A j \in Made : In(j) => of[j] \subseteq L
<1>1. PICK T : T = {n \in 0..31 : P(LineageUpTo[n])} OBVIOUS
<1>2. 0 \in T
  <2>1. P(Nothing) BY DEF Nothing, Sound, Made
  <2> HIDE DEF P
  <2> QED BY <1>1, <2>1, LineageAre
<1>3. ASSUME NEW n \in 0..30, n \in T PROVE n + 1 \in T
  <2>1. PICK of : of = LineageUpTo[n] OBVIOUS
  <2>2. P(of) BY <1>1, <1>3, <2>1
  <2>3. PICK o : o = Order[n + 1] OBVIOUS
  <2>4. PICK new : new = WithLineage(of, o) OBVIOUS
  <2>5. LineageUpTo[n + 1] = new BY <2>1, <2>3, <2>4, LineageAre
  <2>6. P(new)
    <3>1. DOMAIN new = Kinds BY <2>2, <2>4 DEF WithLineage
    <3>2. ASSUME NEW j \in Made, In(j), NEW x \in new[j] PROVE x \in L
      <4>1. CASE j # o
        <5>1. new[j] = of[j] BY <2>4, <4>1 DEF WithLineage
        <5> QED BY <2>2, <3>2, <5>1
      <4>2. CASE j = o
        <5>1. j \in Kinds BY DEF Sound, Made
        <5>2. new[j] = {<<j, Digest(j, docs[j])>>}
                         \cup UNION {Stored(of, i, docs[j].refs[i]) : i \in Binds[j]}
          BY <2>2, <2>4, <4>2, <5>1 DEF WithLineage
        <5>3. CASE x = <<j, Digest(j, docs[j])>> BY <3>2, <5>3
        <5>4. CASE \E i \in Binds[j] : x \in Stored(of, i, docs[j].refs[i])
          <6>1. PICK i \in Binds[j] : x \in Stored(of, i, docs[j].refs[i]) BY <5>4
          <6>2. PICK v : v = docs[j].refs[i] OBVIOUS
          <6>3. <<i, v>> \in L
            <7>1. RefsOf(docs, j, Digest(j, docs[j]))[i] = docs[j].refs[i]
              BY DEF RefsOf, Digest, Earlier
            <7> QED BY <3>2, <6>2, <7>1 DEF Closed
          <6>4. v \in Versions /\ i \in Made /\ (v = "current" => Digest(i, docs[i]) = "current")
            BY <6>3 DEF Closed, Made
          <6>5. CASE v = "current"
            <7>1. x \in of[i] BY <6>1, <6>2, <6>5 DEF Stored
            <7>2. In(i) BY <6>3, <6>4, <6>5
            <7> QED BY <2>2, <6>4, <7>1, <7>2
          <6>6. CASE v = "earlier"
            <7>1. PICK h \in {i} \cup Ancestors[i] : x = <<h, "earlier">>
              BY <6>1, <6>2, <6>6 DEF Stored
            <7> QED BY <6>3, <6>6, <7>1, AncestorsWithin
          <6> QED BY <6>4, <6>5, <6>6 DEF Versions
        <5> QED BY <3>2, <5>2, <5>3, <5>4
      <4> QED BY <4>1, <4>2
    <3> QED BY <3>1, <3>2
  <2> HIDE DEF P
  <2> QED BY <1>1, <2>5, <2>6
<1>4. 31 \in T BY <1>2, <1>3, Steps31
<1>5. P(Lineage) BY <1>1, <1>4, LineageAre
<1> QED BY <1>5

\* The documents that were made are in their own lineage, once it has come to them.
LEMMA LineageSelf ==
  ASSUME Sound(docs)
  PROVE  /\ DOMAIN LineageUpTo[30] = Kinds
         /\ \A m \in 1..30 : Order[m] \in Made =>
              <<Order[m], Digest(Order[m], docs[Order[m]])>> \in LineageUpTo[30][Order[m]]
<1> DEFINE P(l, of) == /\ DOMAIN of = Kinds
                       /\ \A h \in 1..l : Order[h] \in Made =>
                            <<Order[h], Digest(Order[h], docs[Order[h]])>> \in of[Order[h]]
<1>1. PICK T : T = {l \in 0..31 : P(l, LineageUpTo[l])} OBVIOUS
<1>2. 0 \in T
  <2>1. P(0, Nothing) BY DEF Nothing
  <2> HIDE DEF P
  <2> QED BY <1>1, <2>1, LineageAre
<1>3. ASSUME NEW l \in 0..30, l \in T PROVE l + 1 \in T
  <2>1. PICK of : of = LineageUpTo[l] OBVIOUS
  <2>2. P(l, of) BY <1>1, <1>3, <2>1
  <2>3. PICK o : o = Order[l + 1] OBVIOUS
  <2>4. PICK new : new = WithLineage(of, o) OBVIOUS
  <2>5. LineageUpTo[l + 1] = new BY <2>1, <2>3, <2>4, LineageAre
  <2>6. P(l + 1, new)
    <3>1. DOMAIN new = Kinds BY <2>2, <2>4 DEF WithLineage
    <3>2. ASSUME NEW h \in 1..(l + 1), Order[h] \in Made
          PROVE  <<Order[h], Digest(Order[h], docs[Order[h]])>> \in new[Order[h]]
      <4>1. CASE Order[h] = o
        <5>1. o \in Kinds /\ o \in Made BY <3>2, <4>1 DEF Sound, Made
        <5> QED BY <2>2, <2>4, <4>1, <5>1 DEF WithLineage
      <4>2. CASE Order[h] # o
        <5>1. new[Order[h]] = of[Order[h]] BY <2>4, <4>2 DEF WithLineage
        <5>2. h \in 1..l BY <2>3, <4>2
        <5> QED BY <2>2, <3>2, <5>1, <5>2
      <4> QED BY <4>1, <4>2
    <3> QED BY <3>1, <3>2
  <2> HIDE DEF P
  <2> QED BY <1>1, <2>5, <2>6
<1>4. 30 \in T BY <1>2, <1>3, Steps31
<1> QED BY <1>1, <1>4

\* The runtime evidence descends from the documents it names, and from itself.
LEMMA EvidenceLineage ==
  ASSUME Sound(docs), "runtimeEvidence" \in Made
  PROVE  /\ <<"runtimeEvidence", Digest("runtimeEvidence", docs["runtimeEvidence"])>>
              \in Lineage["runtimeEvidence"]
         /\ \A j \in Binds["runtimeEvidence"] :
              <<j, docs["runtimeEvidence"].refs[j]>> \in Lineage["runtimeEvidence"]
<1> PICK r : r = "runtimeEvidence" OBVIOUS
<1>1. PICK of : of = LineageUpTo[30] OBVIOUS
<1>2. Lineage = WithLineage(of, r) BY <1>1, LineageAre, OrderIs
<1>3. r \in Kinds /\ r \in Made BY DEF Sound, Made
<1>4. DOMAIN of = Kinds BY <1>1, LineageSelf
<1>5. Lineage[r] = {<<r, Digest(r, docs[r])>>}
                     \cup UNION {Stored(of, j, docs[r].refs[j]) : j \in Binds[r]}
  BY <1>2, <1>3, <1>4 DEF WithLineage
<1>6. ASSUME NEW j \in Binds[r] PROVE <<j, docs[r].refs[j]>> \in Lineage[r]
  <2>1. PICK L : Closed(docs, L) /\ <<r, Digest(r, docs[r])>> \in L BY <1>3 DEF Sound, Made
  <2>2. RefsOf(docs, r, Digest(r, docs[r]))[j] = docs[r].refs[j] BY DEF RefsOf, Digest, Earlier
  <2>3. PICK v : v = docs[r].refs[j] OBVIOUS
  <2>4. <<j, v>> \in L BY <2>1, <2>2, <2>3 DEF Closed
  <2>5. v \in Versions /\ j \in Made /\ (v = "current" => Digest(j, docs[j]) = "current")
    BY <2>1, <2>4 DEF Closed, Made
  <2>6. PICK m \in 1..30 : j = Order[m]
    <3>1. j \in {"admission", "invocation", "admissionEvidence", "launch", "decision", "boundary",
                 "command", "lifecycle", "observation", "outcome"}
      BY BindsAre
    <3> QED BY <3>1, OrderIs
  <2>7. <<j, v>> \in Stored(of, j, v)
    <3>1. CASE v = "current" BY <1>1, <2>5, <2>6, <3>1, LineageSelf DEF Stored
    <3>2. CASE v = "earlier" BY <3>2 DEF Stored
    <3> QED BY <2>5, <3>1, <3>2 DEF Versions
  <2> QED BY <1>5, <2>3, <2>7
<1> QED BY <1>5, <1>6

-----------------------------------------------------------------------------
(* The steps                                                                 *)

\* What has been made is sound when an execution begins.
LEMMA InitSound == ASSUME InitDocuments PROVE Sound(docs)
<1>empty. PICK d0 : d0 = [k \in {} |-> 0] OBVIOUS
<1>none. PICK none : none = [j \in {} |-> ""] /\ none = <<>>
  <2>1. <<>> = [j \in {} |-> ""] OBVIOUS
  <2> QED BY <2>1
<1>1. Sound(d0) /\ Closed(d0, {}) /\ OneVersion({}, {}) /\ DOMAIN d0 = {}
  BY <1>empty DEF Sound, Closed, OneVersion
<1>2. /\ {"environment", "snapshot", "plan"} \subseteq Kinds
      /\ Binds["environment"] = {} /\ Binds["snapshot"] = {} /\ Binds["plan"] = {"snapshot"}
  BY BindsAre DEF Kinds, Binds
<1>environment. PICK environment : environment = Content(none, Own("environment")) OBVIOUS
<1>snapshot. PICK snapshot : snapshot = Content(none, Own("snapshot")) OBVIOUS
<1>refs. PICK refs : refs = [snapshot |-> IF "snapshot" \in differs THEN "current" ELSE "earlier"]
  OBVIOUS
<1>plan. PICK plan : plan = Content(refs, Own("plan")) OBVIOUS
<1>3. docs = [environment |-> environment, snapshot |-> snapshot, plan |-> plan]
  BY <1>none, <1>environment, <1>snapshot, <1>refs, <1>plan DEF InitDocuments
<1>d1. PICK d1 : d1 = [k \in {"environment"} |-> environment] OBVIOUS
<1>4. PICK L1 : Sound(d1) /\ Closed(d1, L1) /\ OneVersion(L1, {})
  <2>1. none \in [Binds["environment"] -> Versions] BY <1>none, <1>2
  <2>2. "environment" \in Kinds \ DOMAIN d0 BY <1>1, <1>2
  <2>3. DOMAIN d1 = DOMAIN d0 \cup {"environment"} /\ d1["environment"] = environment
        /\ \A i \in DOMAIN d0 : d1[i] = d0[i]
    BY <1>d1, <1>1
  <2>4. \A j \in Binds["environment"] : <<j, none[j]>> \in {} BY <1>2
  <2>5. \E M : Sound(d1) /\ Closed(d1, M) /\ OneVersion(M, {})
    BY <1>environment, <1>1, <2>1, <2>2, <2>3, <2>4, Joins DEF ContractKinds
  <2> QED BY <2>5
<1>d2. PICK d2 : d2 = [k \in {"environment", "snapshot"} |->
                         IF k = "environment" THEN environment ELSE snapshot]
  OBVIOUS
<1>5. PICK L2 : Sound(d2) /\ Closed(d2, L2) /\ OneVersion(L2, {})
                /\ <<"snapshot", Digest("snapshot", snapshot)>> \in L2
  <2>1. none \in [Binds["snapshot"] -> Versions] BY <1>none, <1>2
  <2>2. "snapshot" \in Kinds \ DOMAIN d1 BY <1>d1, <1>2
  <2>3. DOMAIN d2 = DOMAIN d1 \cup {"snapshot"} /\ d2["snapshot"] = snapshot
        /\ \A i \in DOMAIN d1 : d2[i] = d1[i]
    BY <1>d1, <1>d2
  <2>4. \A j \in Binds["snapshot"] : <<j, none[j]>> \in L1 BY <1>2
  <2> QED BY <1>snapshot, <1>4, <2>1, <2>2, <2>3, <2>4, Joins DEF ContractKinds
<1>6. refs["snapshot"] = Digest("snapshot", snapshot)
  <2>1. snapshot = Earlier("snapshot") <=> "snapshot" \notin differs
    <3>1. EarlierOwn("snapshot") = "earlier" BY DEF EarlierOwn, Inputs, Given
    <3>2. snapshot.own = Own("snapshot") /\ Earlier("snapshot").own = "earlier"
      BY <1>snapshot, <3>1 DEF Content, Earlier
    <3>3. Own("snapshot") = IF "snapshot" \in differs THEN "current" ELSE "earlier"
      BY <3>1 DEF Own
    <3>4. Earlier("snapshot") = Content(none, "earlier")
      BY <1>none, <1>2, <3>1 DEF Earlier, Content
    <3> QED BY <1>snapshot, <3>2, <3>3, <3>4
  <2> QED BY <1>refs, <2>1 DEF Digest
<1>d3. PICK d3 : d3 = docs OBVIOUS
<1>7. Sound(d3)
  <2>1. refs \in [Binds["plan"] -> Versions] BY <1>refs, <1>2 DEF Versions
  <2>2. "plan" \in Kinds \ DOMAIN d2 BY <1>d2, <1>2
  <2>3. DOMAIN d3 = DOMAIN d2 \cup {"plan"} /\ d3["plan"] = plan
        /\ \A i \in DOMAIN d2 : d3[i] = d2[i]
    BY <1>d2, <1>d3, <1>3
  <2>4. \A j \in Binds["plan"] : <<j, refs[j]>> \in L2 BY <1>2, <1>5, <1>6
  <2> QED BY <1>plan, <1>5, <2>1, <2>2, <2>3, <2>4, Joins DEF ContractKinds
<1> QED BY <1>d3, <1>7

\* Every step of the documents keeps them sound.
LEMMA StepsSound ==
  ASSUME Sound(docs), ContractNext \/ SourceNext \/ RuntimeNext
  PROVE  Sound(docs')
BY DescriptorSound, RequestSound, ResultSound, ExecutionEvidenceSound, CompileSound,
   SourceRequestSound, SourceSound, P2Sound, ArtifactSound, ValidationSound, P3Sound, BundleSound,
   ReceiptSound, PublicationSound, AdmissionSound, InvocationSound, AdmissionEvidenceSound,
   LaunchSound, CommandSound
DEF ContractNext, SourceNext, RuntimeNext

\* What a step of the documents adds.
LEMMA MakeAdds ==
  ASSUME NEW k, NEW refs, NEW own, Make(k, refs, own)
  PROVE  Made' = Made \cup {k} /\ \A j \in Made : j # k => docs'[j] = docs[j]
BY DEF Make, Add, Merged, Made

\* The steps before the run make no document of it, and only CreateResult makes a
\* result.
LEMMA StepsAdd ==
  ASSUME ContractNext \/ SourceNext \/ RuntimeNext
  PROVE  /\ Made \subseteq Made'
         /\ "lifecycle" \in Made' => "lifecycle" \in Made
         /\ "result" \in Made' => \/ "result" \in Made /\ docs'["result"] = docs["result"]
                                 \/ CreateResult
<1>1. CASE ContractNext
  <2>1. CASE CreateDescriptor BY <2>1, MakeAdds DEF CreateDescriptor
  <2>2. CASE CreateRequest BY <2>2, MakeAdds DEF CreateRequest
  <2>3. CASE CreateResult BY <2>3, MakeAdds DEF CreateResult
  <2>4. CASE CreateExecutionEvidence BY <2>4, MakeAdds DEF CreateExecutionEvidence
  <2> QED BY <1>1, <2>1, <2>2, <2>3, <2>4 DEF ContractNext
<1>2. CASE Compile BY <1>2 DEF Compile, Add, Merged, Made
<1>3. CASE RecordP3 BY <1>3 DEF RecordP3, Add, Merged, Made
<1>4. CASE PrepareLaunch BY <1>4 DEF PrepareLaunch, Add, Merged, Made
<1>5. CASE \/ CreateSourceRequest \/ RenderSource \/ RecordP2
           \/ CreateArtifact \/ CreateValidation
  BY <1>5, MakeAdds
     DEF CreateSourceRequest, RenderSource, RecordP2, CreateArtifact, CreateValidation
<1>6. CASE CreateBundle \/ PublishBundle \/ CreatePublication
  BY <1>6, MakeAdds DEF CreateBundle, PublishBundle, CreatePublication
<1>7. CASE CreateAdmission \/ CreateInvocation \/ CreateAdmissionEvidence \/ CreateCommand
  BY <1>7, MakeAdds DEF CreateAdmission, CreateInvocation, CreateAdmissionEvidence, CreateCommand
<1> QED BY <1>1, <1>2, <1>3, <1>4, <1>5, <1>6, <1>7 DEF SourceNext, RuntimeNext

-----------------------------------------------------------------------------
(* What is reported of an execution                                          *)

\* The histories that validateExecutionStateHistory lets through: one that ends in
\* success, failure or a timeout passed through RUNNING, one that succeeded was
\* never asked to stop, and one that was cancelled while it ran had been.
LEMMA HistoriesTell ==
  ASSUME NEW h \in Seq(DOMAIN Transitions), ValidHistory(h)
  PROVE  /\ Last(h) \in {"SUCCEEDED", "FAILED", "TIMED_OUT"} => "RUNNING" \in ToSet(h)
         /\ Last(h) = "SUCCEEDED" => "CANCELLATION_REQUESTED" \notin ToSet(h)
         /\ Last(h) = "CANCELLED" /\ "RUNNING" \in ToSet(h)
              => "CANCELLATION_REQUESTED" \in ToSet(h)
<1> PICK n : n = Len(h) OBVIOUS
<1>1. /\ n \in Nat /\ n >= 2 /\ DOMAIN h = 1..n /\ h[1] = "PENDING" /\ Last(h) = h[n]
      /\ \A i \in 2..n : h[i] \in Transitions[h[i - 1]]
      /\ \A i \in 1..n : h[i] \in DOMAIN Transitions
  BY DEF ValidHistory, Last
<1>2. \A i \in 1..n : h[i] \in ToSet(h) BY <1>1 DEF ToSet
<1>3. \A x \in ToSet(h) : \E i \in 1..n : h[i] = x BY <1>1 DEF ToSet
<1>4. \A x \in DOMAIN Transitions :
        /\ \A y \in {"FAILED", "TIMED_OUT"} :
             y \in Transitions[x] => x \in {"RUNNING", "CANCELLATION_REQUESTED"}
        /\ "SUCCEEDED" \in Transitions[x] => x = "RUNNING"
        /\ "CANCELLATION_REQUESTED" \in Transitions[x] => x = "RUNNING"
        /\ Transitions["CANCELLATION_REQUESTED"] = {"CANCELLED", "FAILED", "TIMED_OUT"}
        /\ Transitions["RUNNING"] = {"CANCELLATION_REQUESTED", "SUCCEEDED", "FAILED", "TIMED_OUT"}
        /\ x \in {"CANCELLED", "SUCCEEDED", "FAILED", "TIMED_OUT"} => Transitions[x] = {}
  BY DEF Transitions
\* What follows a state that is not the last.
<1>5. ASSUME NEW i \in 1..n, i # n PROVE i + 1 \in 1..n /\ h[i + 1] \in Transitions[h[i]]
  <2>1. i + 1 \in 2..n /\ (i + 1) - 1 = i BY <1>1, <1>5
  <2>2. h[i + 1] \in Transitions[h[(i + 1) - 1]] BY <1>1, <2>1
  <2> QED BY <2>1, <2>2
\* A state with no successor is the last.
<1>7. ASSUME NEW i \in 1..n, Transitions[h[i]] = {} PROVE i = n
  BY <1>5, <1>7
<1>6. ASSUME h[n] \in {"SUCCEEDED", "FAILED", "TIMED_OUT"} PROVE "RUNNING" \in ToSet(h)
  <2>1. n \in 2..n /\ n - 1 \in 1..n BY <1>1
  <2>2. h[n - 1] \in {"RUNNING", "CANCELLATION_REQUESTED"} BY <1>1, <1>4, <1>6, <2>1
  <2>3. CASE h[n - 1] = "RUNNING" BY <1>2, <2>1, <2>3
  <2>4. CASE h[n - 1] = "CANCELLATION_REQUESTED"
    <3>1. n - 1 # 1 BY <1>1, <2>4
    <3>2. n - 1 \in 2..n /\ (n - 1) - 1 \in 1..n BY <1>1, <3>1
    <3>3. h[(n - 1) - 1] = "RUNNING" BY <1>1, <1>4, <2>4, <3>2
    <3> QED BY <1>2, <3>2, <3>3
  <2> QED BY <2>2, <2>3, <2>4
<1>8. ASSUME h[n] = "SUCCEEDED" PROVE "CANCELLATION_REQUESTED" \notin ToSet(h)
  <2> SUFFICES ASSUME NEW i \in 1..n, h[i] = "CANCELLATION_REQUESTED" PROVE FALSE
    BY <1>3
  <2>1. i # n BY <1>8
  <2>2. i + 1 \in 1..n /\ h[i + 1] \in {"CANCELLED", "FAILED", "TIMED_OUT"}
    BY <1>1, <1>4, <1>5, <2>1
  <2>3. Transitions[h[i + 1]] = {} BY <1>1, <1>4, <2>2
  <2> QED BY <1>7, <1>8, <2>2, <2>3
<1>9. ASSUME h[n] = "CANCELLED", "RUNNING" \in ToSet(h)
      PROVE  "CANCELLATION_REQUESTED" \in ToSet(h)
  <2>1. PICK i \in 1..n : h[i] = "RUNNING" BY <1>3, <1>9
  <2>2. i # n BY <1>9, <2>1
  <2>3. /\ i + 1 \in 1..n
        /\ h[i + 1] \in {"CANCELLATION_REQUESTED", "SUCCEEDED", "FAILED", "TIMED_OUT"}
    BY <1>1, <1>4, <1>5, <2>1, <2>2
  <2>4. h[i + 1] # "CANCELLATION_REQUESTED" => Transitions[h[i + 1]] = {}
    BY <1>1, <1>4, <2>3
  <2>5. h[i + 1] = "CANCELLATION_REQUESTED" BY <1>7, <1>9, <2>3, <2>4
  <2> QED BY <1>2, <2>3, <2>5
<1> QED BY <1>1, <1>6, <1>8, <1>9

-----------------------------------------------------------------------------
(* An execution                                                              *)

\* An exit code is known of a child that has exited.
ExitTied == exit = "none" \/ (exit \in Exits /\ child = "exited")

\* What an answered call has left: its bindings were documents as they were made,
\* and the documents of the run name them and one another.
Left(p, refs1, refs2, refs3, refs4) ==
  /\ \A j \in LaunchKinds \cup {"command"} : Genuine(p, j)
  /\ ValidCommand(p)
  /\ refs1 = [command |-> p["command"].digest]
  /\ docs["lifecycle"] = Content(refs1, run.evidence)
  /\ refs2 = [ command |-> p["command"].digest,
               lifecycle |-> Digest("lifecycle", docs["lifecycle"]) ]
  /\ docs["observation"] = Content(refs2, ExitKept)
  /\ refs3 = [ command |-> p["command"].digest,
               lifecycle |-> Digest("lifecycle", docs["lifecycle"]),
               observation |-> Digest("observation", docs["observation"]) ]
  /\ docs["outcome"] = Content(refs3, Classify(run.evidence.terminalState, ExitKept))
  /\ refs4 = Merged(To(p, LaunchKinds),
                    [ command |-> p["command"].digest,
                      lifecycle |-> Digest("lifecycle", docs["lifecycle"]),
                      observation |-> Digest("observation", docs["observation"]),
                      outcome |-> Digest("outcome", docs["outcome"]) ])
  /\ docs["runtimeEvidence"] = Content(refs4, "none")

RunLeft ==
  "lifecycle" \in Made =>
    /\ Settled(run) /\ ExitFits(run.evidence, ExitKept)
    /\ {"observation", "outcome", "runtimeEvidence"} \subseteq Made
    /\ \E p, refs1, refs2, refs3, refs4 : Left(p, refs1, refs2, refs3, refs4)

\* A result that was made has a history the contract lets through.
HistoryKept ==
  "result" \in Made =>
    /\ docs["result"].own.history \in Seq(DOMAIN Transitions)
    /\ ValidHistory(docs["result"].own.history)
    /\ docs["result"].own.state = Last(docs["result"].own.history)

\* The call, the run it is about, and the documents.
ExecutionInv ==
  /\ Inv
  /\ call.state \in CallStates
  /\ Sound(docs)
  /\ CallAtHand
  /\ ExitTied
  /\ RunLeft
  /\ HistoryKept

\* A result is made with such a history.
LEMMA ResultKept == ASSUME CreateResult PROVE HistoryKept'
<1>0. PICK p \in Presented({"request", "descriptor"}), state \in ResultStates, history \in Histories :
        /\ ValidHistory(history) /\ Last(history) = state
        /\ Make("result", To(p, {"request", "descriptor"}), [state |-> state, history |-> history])
  BY DEF CreateResult
<1>1. PICK refs : Make("result", refs, [state |-> state, history |-> history]) BY <1>0
<1>2. docs'["result"] = Content(refs, [state |-> state, history |-> history])
  BY <1>1 DEF Make, Add, Merged
<1>3. docs'["result"].own = [state |-> state, history |-> history] BY <1>2 DEF Content
<1>4. history \in Seq(DOMAIN Transitions) BY HistoriesAssumption
<1> QED BY <1>0, <1>3, <1>4 DEF HistoryKept

\* The documents of the run are those the call answers with.
LEMMA AnswerLeaves ==
  ASSUME Sound(docs), CallAtHand, Answer
  PROVE  /\ Made \subseteq Made' /\ RunLeft' /\ "lifecycle" \in Made'
         /\ "result" \in Made' => "result" \in Made /\ docs'["result"] = docs["result"]
<1>1. PICK p, refs1, refs2, refs3, refs4, lifecycle, observation, outcome, evidence :
        Makes(p, refs1, refs2, refs3, refs4, lifecycle, observation, outcome, evidence)
  BY Answers
<1>0. p \in Bindings BY <1>1 DEF Makes
<1>2. LaunchKinds = RuntimeKinds \cup {"launch", "decision", "boundary"}
  BY BindsAre DEF LaunchKinds, RuntimeKinds
<1>new. PICK new : new = [ lifecycle |-> lifecycle, observation |-> observation,
                           outcome |-> outcome, runtimeEvidence |-> evidence ]
  OBVIOUS
<1>3. docs' = Merged(new, docs) BY <1>1, <1>new DEF Makes
<1>4. /\ Made' = Made \cup {"lifecycle", "observation", "outcome", "runtimeEvidence"}
      /\ docs'["lifecycle"] = lifecycle /\ docs'["observation"] = observation
      /\ docs'["outcome"] = outcome /\ docs'["runtimeEvidence"] = evidence
      /\ \A k \in Made : k \notin {"lifecycle", "observation", "outcome", "runtimeEvidence"}
           => docs'[k] = docs[k]
  BY <1>3, <1>new DEF Merged, Made
<1>5. Handed(p, LaunchKinds \cup {"command"}) BY <1>0, BindingsHanded
<1>6. \A j \in LaunchKinds \cup {"command"} : Genuine(p, j)
  <2>1. Intact(p, LaunchKinds \cup {"command"})
    BY <1>1, <1>2 DEF Makes, ValidCommand, AcceptedBoundary, ValidLaunch, ValidDecision,
                      AcceptedRuntime, Intact
  <2> QED BY <1>5, <2>1, IntactGenuine
<1>7. \A j \in LaunchKinds \cup {"command"} : p[j] = AsMade(docs', j, p[j].digest)
  <2> SUFFICES ASSUME NEW j \in LaunchKinds \cup {"command"}
               PROVE  AsMade(docs', j, p[j].digest) = AsMade(docs, j, p[j].digest)
    BY <1>6 DEF Genuine
  <2>1. j \notin {"lifecycle", "observation", "outcome", "runtimeEvidence"}
    BY <1>2 DEF RuntimeKinds
  <2>2. p[j].digest = "current" => docs'[j] = docs[j] BY <1>4, <1>5, <2>1 DEF Handed
  <2> QED BY <2>2 DEF AsMade, RefsOf
<1>8. run' = run /\ exit' = exit /\ Settled(run) /\ ExitFits(run.evidence, ExitKept)
  BY DEF Answer, vars
<1>9. ExitKept' = ExitKept BY <1>8 DEF ExitKept
<1>10. Left(p, refs1, refs2, refs3, refs4)'
  BY <1>1, <1>4, <1>7, <1>8, <1>9 DEF Left, Makes, Genuine
<1>11. RunLeft' BY <1>4, <1>8, <1>9, <1>10 DEF RunLeft
<1> QED BY <1>4, <1>11

\* An execution begins with the invariant.
LEMMA ExecutionBegins == InitExecution => ExecutionInv
<1> SUFFICES ASSUME InitExecution PROVE ExecutionInv OBVIOUS
<1>1. Inv BY Begun DEF InitExecution
<1>2. Sound(docs) BY InitSound DEF InitExecution
<1>3. call = [state |-> "none", command |-> "none"] /\ exit = "none" BY DEF InitExecution
<1>4. "lifecycle" \notin Made /\ "result" \notin Made BY DEF InitExecution, InitDocuments, Made
<1> QED BY <1>1, <1>2, <1>3, <1>4
        DEF ExecutionInv, CallStates, CallAtHand, ExitTied, RunLeft, HistoryKept

\* Every step keeps it.
LEMMA ExecutionStepped == ExecutionInv /\ [NextExecution]_executionVars => ExecutionInv'
<1> SUFFICES ASSUME ExecutionInv, [NextExecution]_executionVars PROVE ExecutionInv' OBVIOUS
<1> USE DEF ExecutionInv
<1>1. CASE Prepare
  <2>1. Sound(docs') BY <1>1, StepsSound DEF Prepare
  <2>2. Inv' /\ ExitTied' BY <1>1, Stepped DEF Prepare, vars, ExitTied
  <2>3. /\ Made \subseteq Made' /\ call' = call /\ "lifecycle" \notin Made
        /\ "lifecycle" \notin Made'
    BY <1>1, StepsAdd DEF Prepare, CallAtHand
  <2>4. HistoryKept'
    <3>1. CASE "result" \in Made /\ docs'["result"] = docs["result"]
      BY <3>1 DEF HistoryKept
    <3>2. CASE CreateResult BY <3>2, ResultKept
    <3>3. CASE "result" \notin Made' BY <3>3 DEF HistoryKept
    <3> QED BY <1>1, <3>1, <3>2, <3>3, StepsAdd DEF Prepare
  <2> QED BY <2>1, <2>2, <2>3, <2>4 DEF CallAtHand, RunLeft
<1>2. CASE Execute
  <2>1. Inv' BY <1>2, Stepped DEF Execute
  <2>2. docs' = docs /\ run' = run /\ exit' = exit /\ child' = child
    BY <1>2 DEF Execute, vars, documents
  <2>3. "lifecycle" \notin Made /\ "command" \in Made BY <1>2 DEF Execute, CallAtHand
  <2>4. call'.state = "running" BY <1>2 DEF Execute
  <2> QED BY <2>1, <2>2, <2>3, <2>4 DEF CallAtHand, CallStates, ExitTied, RunLeft, HistoryKept, Made
<1>3. CASE LifecycleStep(Next)
  <2>1. Inv' BY <1>3, Stepped DEF LifecycleStep
  <2>2. docs' = docs /\ call' = call /\ call.state = "running"
    BY <1>3 DEF LifecycleStep, documents
  <2>3. "lifecycle" \notin Made BY <2>2 DEF CallAtHand
  <2>4. ExitTied'
    <3>1. CASE child' = "exited" /\ child # "exited"
      BY <1>3, <3>1 DEF LifecycleStep, ExitTied
    <3>2. CASE ~ (child' = "exited" /\ child # "exited")
      <4>1. exit' = exit BY <1>3, <3>2 DEF LifecycleStep
      <4>2. child = "exited" => child' = "exited"
        BY <1>3 DEF LifecycleStep, Next, CancelBeforeStart, ContextRefused, ResolverFails,
                    SpawnThrows, SpawnProcess, Abort, StartupTimeout, ExecutionTimeout,
                    GraceExpires, ForceSettlementExpires, ChildSpawns, ChildFails, ChildExits, Inv
      <4> QED BY <4>1, <4>2 DEF ExitTied
    <3> QED BY <3>1, <3>2
  <2> QED BY <2>1, <2>2, <2>3, <2>4 DEF CallAtHand, CallStates, RunLeft, HistoryKept, Made
<1>4. CASE Answer
  <2>1. Sound(docs') BY <1>4, AnswerSound
  <2>2. Inv' BY <1>4, Stepped DEF Answer
  <2>3. Made \subseteq Made' /\ RunLeft' BY <1>4, AnswerLeaves
  <2>4. /\ call.state = "running" /\ call'.state = "answered" /\ call'.command = call.command
        /\ exit' = exit /\ child' = child
    BY <1>4 DEF Answer, Answered, vars
  <2>5. HistoryKept' BY <1>4, AnswerLeaves DEF HistoryKept
  <2> QED BY <2>1, <2>2, <2>3, <2>4, <2>5 DEF CallAtHand, CallStates, ExitTied
<1>5. CASE Reject
  <2>1. Inv' BY <1>5, Stepped DEF Reject
  <2>2. /\ call.state = "running" /\ call'.state = "rejected" /\ call'.command = call.command
        /\ docs' = docs /\ exit' = exit /\ child' = child
    BY <1>5 DEF Reject, Answered, vars, documents
  <2>3. "lifecycle" \notin Made BY <2>2 DEF CallAtHand
  <2> QED BY <2>1, <2>2, <2>3 DEF CallAtHand, CallStates, ExitTied, RunLeft, HistoryKept, Made
<1>6. CASE UNCHANGED executionVars
  <2>1. Inv' BY <1>6, Stepped DEF executionVars
  <2>2. docs' = docs /\ call' = call /\ exit' = exit /\ run' = run /\ child' = child
    BY <1>6 DEF executionVars, vars, documents
  <2>3. RunLeft'
    <3>1. ExitKept' = ExitKept /\ Made' = Made BY <2>2 DEF ExitKept, Made
    <3>2. ASSUME NEW p, NEW refs1, NEW refs2, NEW refs3, NEW refs4,
                 Left(p, refs1, refs2, refs3, refs4)
          PROVE  Left(p, refs1, refs2, refs3, refs4)'
      BY <2>2, <3>1, <3>2 DEF Left, Genuine
    <3> QED BY <2>2, <3>1, <3>2 DEF RunLeft
  <2> QED BY <2>1, <2>2, <2>3 DEF CallAtHand, ExitTied, HistoryKept, Made
<1> QED BY <1>1, <1>2, <1>3, <1>4, <1>5, <1>6 DEF NextExecution

\* The invariant holds throughout.
THEOREM ExecutionInvariance == SpecExecution => []ExecutionInv
<1> QED BY ExecutionBegins, ExecutionStepped, PTL DEF SpecExecution

\* Under a call of executeK6ProcessWithSanitizedResult the adapter runs as it does by
\* itself: whatever was proved of a run holds of the run of a call.
THEOREM CallRunsTheLifecycle == SpecExecution => Spec
<1>1. InitExecution => Init BY DEF InitExecution
<1>2. [NextExecution]_executionVars => [Next]_vars
  BY DEF NextExecution, executionVars, Prepare, Execute, LifecycleStep, Answer, Reject
<1> QED BY <1>1, <1>2, PTL DEF SpecExecution, Spec

\* The record of a call's run is valid, names the cause that came first, and is final.
THEOREM CallsSettleOnce ==
  SpecExecution => []EvidenceValid /\ []FirstCauseNamed /\ SettledOnce
BY CallRunsTheLifecycle, EvidenceIsValid, NamesTheFirstCause, SettlesOnce, PTL

\* A reported result has a history that fits its state.
THEOREM ReportsAsRun == SpecExecution => []ReportedAsRun
<1>1. ASSUME ExecutionInv PROVE ReportedAsRun
  <2> SUFFICES ASSUME "result" \in Made PROVE ReportedAsRun BY DEF ReportedAsRun
  <2> PICK h : h = docs["result"].own.history OBVIOUS
  <2>1. h \in Seq(DOMAIN Transitions) /\ ValidHistory(h) /\ docs["result"].own.state = Last(h)
    BY <1>1 DEF ExecutionInv, HistoryKept
  <2>2. /\ Last(h) \in {"SUCCEEDED", "FAILED", "TIMED_OUT"} => "RUNNING" \in ToSet(h)
        /\ Last(h) = "SUCCEEDED" => "CANCELLATION_REQUESTED" \notin ToSet(h)
        /\ Last(h) = "CANCELLED" /\ "RUNNING" \in ToSet(h)
             => "CANCELLATION_REQUESTED" \in ToSet(h)
    BY <2>1, HistoriesTell
  <2> QED BY <2>1, <2>2 DEF ReportedAsRun
<1> QED BY <1>1, ExecutionInvariance, PTL

\* An outcome that says SUCCEEDED is about a process that ended by itself, with exit
\* code 0 and before any abort or timeout.
THEOREM SucceedsCleanly == SpecExecution => []SuccessIsClean
<1>1. ASSUME ExecutionInv PROVE SuccessIsClean
  <2> SUFFICES ASSUME "outcome" \in Made, docs["outcome"].own = "SUCCEEDED"
               PROVE  /\ exit = "zero" /\ child = "exited"
                      /\ {"abortRequested", "timeoutTriggered", "startupTimeoutTriggered"}
                           \cap run.observations = {}
    BY DEF SuccessIsClean
  <2>1. "lifecycle" \in Made BY <1>1, BindsAre DEF ExecutionInv, Sound, Made
  <2>2. /\ Settled(run) /\ ExitFits(run.evidence, ExitKept)
        /\ Classify(run.evidence.terminalState, ExitKept) = "SUCCEEDED"
    <3>1. PICK p, refs1, refs2, refs3, refs4 : Left(p, refs1, refs2, refs3, refs4)
      BY <1>1, <2>1 DEF ExecutionInv, RunLeft
    <3>2. docs["outcome"] = Content(refs3, Classify(run.evidence.terminalState, ExitKept))
      BY <3>1 DEF Left
    <3>3. docs["outcome"].own = Classify(run.evidence.terminalState, ExitKept)
      BY <3>2 DEF Content
    <3> QED BY <1>1, <2>1, <3>3 DEF ExecutionInv, RunLeft
  <2>3. run.evidence.terminalState = "EXITED" /\ ExitKept = "zero"
    BY <2>2 DEF Classify
  <2>4. exit = "zero" /\ child = "exited" BY <1>1, <2>3 DEF ExitKept, ExecutionInv, ExitTied
  <2>5. LogSound(run) /\ Over(run) BY <1>1, <2>2 DEF ExecutionInv, Inv, RunSound
  <2>6. /\ ToSet(run.events) \cap {"TIMEOUT_REACHED", "CANCELLATION_REQUESTED",
                                  "PROCESS_START_TIMEOUT"} = {}
        /\ "CANCELLED_BEFORE_START" \notin ToSet(run.events)
    BY <2>3, <2>5 DEF Over, TerminalMatches
  <2> QED BY <2>4, <2>5, <2>6 DEF LogSound, ObservationsMatch
<1> QED BY <1>1, ExecutionInvariance, PTL

-----------------------------------------------------------------------------
(* What an auditor is handed                                                 *)

\* A document that was made, under its own digest.
LEMMA MadeAs ==
  ASSUME NEW j \in Made
  PROVE  AsMade(docs, j, Digest(j, docs[j])) =
           [refs |-> docs[j].refs, own |-> docs[j].own, digest |-> Digest(j, docs[j])]
<1>1. CASE Digest(j, docs[j]) = "current" BY <1>1 DEF AsMade, RefsOf
<1>2. CASE Digest(j, docs[j]) # "current"
  <2>1. docs[j] = Earlier(j) BY <1>2 DEF Digest
  <2>2. docs[j].refs = [i \in Binds[j] |-> "earlier"] /\ docs[j].own = EarlierOwn(j)
    BY <2>1 DEF Earlier
  <2>3. AsMade(docs, j, Digest(j, docs[j])) =
          [ refs |-> [i \in Binds[j] |-> "earlier"], own |-> EarlierOwn(j),
            digest |-> Digest(j, docs[j]) ]
    BY <1>2 DEF AsMade, RefsOf
  <2> QED BY <2>2, <2>3
<1> QED BY <1>1, <1>2

\* What a call returns are the documents the runtime evidence names, as they were
\* made, and the evidence itself.
LEMMA ReturnedAre ==
  ASSUME Sound(docs), "runtimeEvidence" \in Made
  PROVE  /\ \A k \in Binds["runtimeEvidence"] :
              Returned[k] = AsMade(docs, k, docs["runtimeEvidence"].refs[k])
         /\ Returned["runtimeEvidence"] =
              AsMade(docs, "runtimeEvidence", Digest("runtimeEvidence", docs["runtimeEvidence"]))
<1> PICK r : r = "runtimeEvidence" OBVIOUS
<1>1. r \in Made /\ r \notin ContractKinds /\ Exempt(r) = {} BY DEF ContractKinds, Exempt
<1>2. PICK L : Closed(docs, L) /\ OneVersion(L, {}) /\ <<r, Digest(r, docs[r])>> \in L
  BY <1>1 DEF Sound, Made
<1>3. \A j, v : <<j, v>> \in Lineage[r] => <<j, v>> \in L BY <1>1, <1>2, LineageWithin
<1>4. /\ <<r, Digest(r, docs[r])>> \in Lineage[r]
      /\ \A j \in Binds[r] : <<j, docs[r].refs[j]>> \in Lineage[r]
  BY EvidenceLineage
<1>5. PICK current : current = {k \in RunKinds : <<k, "current">> \in Lineage[r]} OBVIOUS
<1>6. \A k \in RunKinds : Returned[k] = Document(k, current, "none") BY <1>5 DEF Returned
<1>7. ASSUME NEW k \in RunKinds, NEW v, <<k, v>> \in Lineage[r]
      PROVE  Returned[k] = AsMade(docs, k, v)
  <2>1. <<k, v>> \in L /\ (<<k, "current">> \in Lineage[r] => <<k, "current">> \in L)
    BY <1>3, <1>7
  <2>2. k \in Made /\ k \in Kinds /\ v \in Versions /\ (v = "current" => Digest(k, docs[k]) = "current")
    BY <1>2, <2>1 DEF Closed, Sound, Made
  <2>3. k # "none" BY <2>2 DEF Kinds, Binds
  <2>4. k \in current <=> v = "current"
    BY <1>2, <1>5, <1>7, <2>1, <2>2 DEF OneVersion, Versions
  <2>5. CASE v = "current"
    <3>1. Document(k, current, "none") =
            [refs |-> docs[k].refs, own |-> docs[k].own, digest |-> "current"]
      BY <2>2, <2>3, <2>4, <2>5 DEF Document
    <3> QED BY <1>6, <2>5, <3>1 DEF AsMade, RefsOf
  <2>6. CASE v = "earlier"
    <3>1. Document(k, current, "none") =
            [refs |-> Earlier(k).refs, own |-> Earlier(k).own, digest |-> "earlier"]
      BY <2>4, <2>6 DEF Document
    <3>2. Earlier(k).refs = [i \in Binds[k] |-> "earlier"] /\ Earlier(k).own = EarlierOwn(k)
      BY DEF Earlier
    <3> QED BY <1>6, <2>6, <3>1, <3>2 DEF AsMade, RefsOf
  <2> QED BY <2>2, <2>5, <2>6 DEF Versions
<1> QED BY <1>4, <1>7 DEF RunKinds

\* Validation sees no more of the documents than what they are.
LEMMA SameDocuments ==
  ASSUME NEW p, NEW q, \A j \in LaunchKinds \cup {"command"} : p[j] = q[j], ValidCommand(p)
  PROVE  ValidCommand(q)
<1>1. Binds["boundary"] = {"admission", "invocation", "admissionEvidence", "launch", "decision"}
  BY BindsAre
<1>2. LaunchKinds = {"admission", "invocation", "admissionEvidence", "launch", "decision", "boundary"}
  BY <1>1 DEF LaunchKinds
<1>3. /\ p["admission"] = q["admission"] /\ p["invocation"] = q["invocation"]
      /\ p["admissionEvidence"] = q["admissionEvidence"] /\ p["launch"] = q["launch"]
      /\ p["decision"] = q["decision"] /\ p["boundary"] = q["boundary"]
      /\ p["command"] = q["command"]
  BY <1>2
<1>4. AcceptedRuntime(q)
  BY <1>3 DEF ValidCommand, AcceptedBoundary, ValidLaunch, AcceptedRuntime, RuntimeKinds, Intact,
              Names, Agree
<1>5. ValidLaunch(q)
  BY <1>3, <1>4 DEF ValidCommand, AcceptedBoundary, ValidLaunch, RuntimeKinds, Intact, Names
<1>6. ValidDecision(q) BY <1>3 DEF ValidCommand, AcceptedBoundary, ValidDecision, Intact, Names
<1>7. AcceptedBoundary(q)
  BY <1>1, <1>3, <1>5, <1>6 DEF ValidCommand, AcceptedBoundary, Intact, Names
<1> QED BY <1>2, <1>3, <1>7 DEF ValidCommand, Intact, Names, Agree

\* An auditor who is handed what the call returned accepts it.
LEMMA ReturnedIsValid ==
  ASSUME ExecutionInv, "runtimeEvidence" \in Made
  PROVE  ValidRuntimeEvidence(Returned)
<1> PICK q : q = Returned OBVIOUS
<1> PICK r : r = "runtimeEvidence" OBVIOUS
<1>1. Sound(docs) BY DEF ExecutionInv
<1>2. LaunchKinds = RuntimeKinds \cup {"launch", "decision", "boundary"}
  BY BindsAre DEF LaunchKinds, RuntimeKinds
<1>3. Binds[r] = LaunchKinds \cup {"command", "lifecycle", "observation", "outcome"}
  BY <1>2, BindsAre DEF RuntimeKinds
<1>4. Binds[r] \subseteq Made BY <1>1 DEF Sound, Made
<1>5. PICK p, refs1, refs2, refs3, refs4 : Left(p, refs1, refs2, refs3, refs4)
  BY <1>3, <1>4 DEF ExecutionInv, RunLeft
<1>6. Settled(run) /\ ExitFits(run.evidence, ExitKept)
  BY <1>3, <1>4 DEF ExecutionInv, RunLeft
<1>7. /\ \A k \in Binds[r] : q[k] = AsMade(docs, k, docs[r].refs[k])
      /\ q[r] = AsMade(docs, r, Digest(r, docs[r]))
  BY <1>1, ReturnedAre
<1>8. docs[r].refs = refs4 /\ docs[r] = Content(refs4, "none") BY <1>5 DEF Left, Content
<1>9. /\ \A j \in LaunchKinds \cup {"command"} : refs4[j] = p[j].digest
      /\ \A j \in {"lifecycle", "observation", "outcome"} : refs4[j] = Digest(j, docs[j])
  <2>1. \A j \in {"command", "lifecycle", "observation", "outcome"} : j \notin LaunchKinds
    BY <1>2 DEF RuntimeKinds
  <2> QED BY <1>5, <2>1 DEF Left, Merged, To
<1>10. \A j \in LaunchKinds \cup {"command"} : q[j] = p[j]
  <2> SUFFICES ASSUME NEW j \in LaunchKinds \cup {"command"} PROVE q[j] = p[j] OBVIOUS
  <2>1. p[j] = AsMade(docs, j, p[j].digest) BY <1>5 DEF Left, Genuine
  <2>2. q[j] = AsMade(docs, j, refs4[j]) BY <1>3, <1>7, <1>8
  <2> QED BY <1>9, <2>1, <2>2
<1>11. ValidCommand(q)
  <2>1. ValidCommand(p) BY <1>5 DEF Left
  <2> QED BY <1>10, <2>1, SameDocuments
<1>12. \A j \in {"lifecycle", "observation", "outcome", r} :
         q[j] = [refs |-> docs[j].refs, own |-> docs[j].own, digest |-> Digest(j, docs[j])]
  BY <1>3, <1>4, <1>7, <1>8, <1>9, MadeAs
<1>13. \A j \in {"lifecycle", "observation", "outcome", r} : Intact(q, {j})
  <2>1. \A j \in {"lifecycle", "observation", "outcome", r} :
          docs[j] = [refs |-> docs[j].refs, own |-> docs[j].own]
    BY <1>1, <1>3, <1>4 DEF Sound, Made, Content
  <2> QED BY <1>12, <2>1 DEF Intact
<1>14. \A j \in Binds[r] : q[j].digest = refs4[j]
  <2> SUFFICES ASSUME NEW j \in Binds[r] PROVE q[j].digest = refs4[j] OBVIOUS
  <2>1. q[j] = AsMade(docs, j, refs4[j]) BY <1>7, <1>8
  <2>2. AsMade(docs, j, refs4[j]).digest = refs4[j] BY DEF AsMade
  <2> QED BY <2>1, <2>2
<1>15. q["command"].digest = p["command"].digest BY <1>10
<1>16. /\ docs["lifecycle"].refs = refs1 /\ docs["lifecycle"].own = run.evidence
       /\ docs["observation"].refs = refs2 /\ docs["observation"].own = ExitKept
       /\ docs["outcome"].refs = refs3
       /\ docs["outcome"].own = Classify(run.evidence.terminalState, ExitKept)
  BY <1>5 DEF Left, Content
<1>17. ValidLifecycle(q)
  <2>1. ValidEvidence(q["lifecycle"].own)
    BY <1>6, <1>12, <1>16, InvShowsEvidence DEF ExecutionInv, EvidenceValid
  <2>2. Names(q, "lifecycle", {"command"}) BY <1>5, <1>12, <1>15, <1>16 DEF Names, Left
  <2> QED BY <1>13, <2>1, <2>2 DEF ValidLifecycle
<1>18. ValidObservation(q)
  <2>1. ExitFits(q["lifecycle"].own, q["observation"].own) BY <1>6, <1>12, <1>16
  <2>2. Names(q, "observation", {"command", "lifecycle"})
    BY <1>5, <1>12, <1>15, <1>16 DEF Names, Left
  <2> QED BY <1>13, <1>17, <2>1, <2>2 DEF ValidObservation
<1>19. ValidOutcome(q)
  <2>1. q["outcome"].own = OutcomeOf(q["outcome"].refs, q["lifecycle"], q["observation"]).own
    BY <1>12, <1>16 DEF OutcomeOf, Content
  <2>2. Names(q, "outcome", {"command", "lifecycle", "observation"})
    BY <1>5, <1>12, <1>15, <1>16 DEF Names, Left
  <2> QED BY <1>13, <1>18, <2>1, <2>2 DEF ValidOutcome
<1>20. Names(q, r, Binds[r]) BY <1>8, <1>12, <1>14 DEF Names
<1> QED BY <1>11, <1>13, <1>19, <1>20 DEF ValidRuntimeEvidence

\* What an auditor accepts belongs to one run.
LEMMA AcceptedIsOfOneRun ==
  ASSUME Sound(docs), "runtimeEvidence" \in Made, NEW p \in Presented(RunKinds),
         ValidRuntimeEvidence(p)
  PROVE  OfOneRun(p)
<1> PICK r : r = "runtimeEvidence" OBVIOUS
<1>1. RunKinds \subseteq Kinds /\ r \in RunKinds
  BY BindsAre DEF RunKinds, Kinds, Binds
<1>2. Handed(p, RunKinds) BY <1>1, PresentedHanded
<1>3. Genuine(p, r) BY <1>1, <1>2 DEF ValidRuntimeEvidence, Handed
<1>4. \A j \in Binds[r] : p[r].refs[j] = p[j].digest BY DEF ValidRuntimeEvidence, Names
<1>5. CASE p[r].digest = "earlier"
  <2>1. \A j \in Binds[r] : p[r].refs[j] = "earlier" BY <1>3, <1>5 DEF Genuine, AsMade, RefsOf
  <2> QED BY <1>4, <1>5, <2>1 DEF OfOneRun, RunKinds
<1>6. CASE p[r].digest = "current"
  <2>1. \A j \in Binds[r] : p[r].refs[j] = docs[r].refs[j]
    BY <1>3, <1>6 DEF Genuine, AsMade, RefsOf
  <2>2. Digest(r, docs[r]) = "current" BY <1>1, <1>2, <1>6 DEF Handed
  <2>3. \A k \in RunKinds : <<k, p[k].digest>> \in Lineage[r]
    BY <1>4, <1>6, <2>1, <2>2, EvidenceLineage DEF RunKinds
  <2> QED BY <1>6, <2>3 DEF OfOneRun
<1> QED BY <1>1, <1>2, <1>5, <1>6 DEF Handed, Versions

\* No document descends from two documents of one kind, and of the documents of a run
\* exactly those that belong together pass validation.
THEOREM LineagesAreOne == SpecExecution => []OneLineage
<1>1. ASSUME ExecutionInv PROVE OneLineage
  <2>1. Sound(docs) BY <1>1 DEF ExecutionInv
  <2>2. ASSUME NEW k \in Made, NEW j \in Made, {<<j, "earlier">>, <<j, "current">>} \subseteq Lineage[k]
        PROVE  j \in Exempt(k)
    <3>1. PICK L : Closed(docs, L) /\ OneVersion(L, Exempt(k)) /\ <<k, Digest(k, docs[k])>> \in L
      BY <2>1 DEF Sound, Made
    <3>2. <<j, "earlier">> \in L /\ <<j, "current">> \in L
      BY <2>1, <2>2, <3>1, LineageWithin
    <3>3. j \in Kinds BY <2>1 DEF Sound, Made
    <3> QED BY <3>1, <3>2, <3>3 DEF OneVersion
  <2>3. \A k \in Made :
          {j \in Made : {<<j, "earlier">>, <<j, "current">>} \subseteq Lineage[k]}
            \subseteq (IF k \in ContractKinds THEN {"snapshot"} ELSE {})
    BY <2>2 DEF Exempt
  <2>4. "runtimeEvidence" \in Made =>
          /\ ValidRuntimeEvidence(Returned)
          /\ \A p \in Presented(RunKinds) : ValidRuntimeEvidence(p) => OfOneRun(p)
    BY <1>1, <2>1, ReturnedIsValid, AcceptedIsOfOneRun
  <2> QED BY <2>3, <2>4 DEF OneLineage
<1> QED BY <1>1, ExecutionInvariance, PTL


-----------------------------------------------------------------------------
(* The store: how a source bundle is published before it is run.             *)

\* What the staging directory holds while p works on it.
StagedBy(p) ==
  /\ Writing(p) => staging # NoDir
  /\ pc[p] = "write" =>
       /\ staging.files = Files \ left[p] /\ left[p] # {}
       /\ staging.receipt = NoReceipt
  /\ pc[p] = "receipt" => staging.files = Files /\ staging.receipt = NoReceipt
  /\ pc[p] = "rename" => Whole(staging)

\* Nobody else is at work on it.
OneWriter == \A p, q \in Publishers : Writing(p) /\ Writing(q) => p = q

\* What is said of the published directory stays true of it.
ReceiptStays(p) ==
  /\ answer[p] \in Publishers => target # NoDir /\ target.receipt = answer[p]
  /\ target # NoDir => target.receipt \in Publishers
  /\ intact[p] => target # NoDir /\ pc[p] \in {"idle", "stat_target", "verify"}
  /\ pc[p] # "idle" => answer[p] = "none"

StoreInv ==
  /\ StoreTypeOK
  /\ OneWriter
  /\ staging # NoDir /\ ~ faulty => \E p \in Publishers : Writing(p)
  /\ \A p \in Publishers : StagedBy(p) /\ ReceiptStays(p)
  /\ RepublishReturnsReceipt

\* Empty directories, and nobody at work.
LEMMA StoreInitInv == StoreInit => StoreInv
BY NameAssumption
   DEF StoreInit, StoreInv, StoreTypeOK, OneWriter, StagedBy, ReceiptStays, RepublishReturnsReceipt,
       Writing, PCs, Dir

-----------------------------------------------------------------------------
(* A call that starts, looks, ends or breaks leaves both directories alone. *)

\* Looking, ending and breaking keep the invariant.
LEMMA LooksInv ==
  ASSUME StoreInv, NEW p \in Publishers,
         Publish(p) \/ StatTarget(p) \/ StatStaging(p) \/ Verify(p) \/ Refused(p)
         \/ Fails(p) \/ Crash(p)
  PROVE  StoreInv'
<1> USE DEF StoreInv, StagedBy, ReceiptStays, Writing, Goto, End
<1>1. StoreTypeOK'
  BY DEF Publish, StatTarget, StatStaging, Verify, Refused, Fails, Crash,
         StoreTypeOK, PCs, Errors, Whole, Dir
<1>2. OneWriter'
  BY DEF Publish, StatTarget, StatStaging, Verify, Refused, Fails, Crash,
         StoreTypeOK, OneWriter
<1>3. (staging # NoDir /\ ~ faulty => \E q \in Publishers : Writing(q))'
  BY DEF Publish, StatTarget, StatStaging, Verify, Refused, Fails, Crash,
         StoreTypeOK
<1>4. ASSUME NEW q \in Publishers PROVE StagedBy(q)' /\ ReceiptStays(q)'
  BY NameAssumption
     DEF Publish, StatTarget, StatStaging, Verify, Refused, Fails, Crash,
         StoreTypeOK, Whole, Errors
<1>5. RepublishReturnsReceipt'
  BY NameAssumption
     DEF Publish, StatTarget, StatStaging, Verify, Refused, Fails, Crash,
         StoreTypeOK, Whole, Errors, RepublishReturnsReceipt
<1> QED BY <1>1, <1>2, <1>3, <1>4, <1>5
-----------------------------------------------------------------------------
(* The owner's work.  The others are not at work, so only its own part of   *)
(* the invariant is about the directory that changes.                       *)

\* MakeStaging keeps the invariant.
LEMMA MakeStagingInv ==
  ASSUME StoreInv, NEW p \in Publishers, MakeStaging(p)
  PROVE  StoreInv'
<1> USE DEF StoreInv, StagedBy, ReceiptStays, Writing, Goto, End, MakeStaging
<1>1. StoreTypeOK'
  BY DEF StoreTypeOK, PCs, Errors, Whole, Dir, EmptyDir
<1>2. OneWriter'
  BY DEF StoreTypeOK, OneWriter
<1>3. (staging # NoDir /\ ~ faulty => \E q \in Publishers : Writing(q))'
  BY DEF StoreTypeOK, OneWriter
<1>4. ASSUME NEW q \in Publishers PROVE StagedBy(q)' /\ ReceiptStays(q)'
  BY FileAssumption, NoneAssumption, NameAssumption
     DEF StoreTypeOK, OneWriter, Whole, Errors, EmptyDir, Dir
<1>5. RepublishReturnsReceipt'
  BY NameAssumption DEF StoreTypeOK, Errors, RepublishReturnsReceipt
<1> QED BY <1>1, <1>2, <1>3, <1>4, <1>5

\* WriteFile keeps the invariant.
LEMMA WriteFileInv ==
  ASSUME StoreInv, NEW p \in Publishers, WriteFile(p)
  PROVE  StoreInv'
<1> USE DEF StoreInv, StagedBy, ReceiptStays, Writing, Goto, End, WriteFile
<1>1. StoreTypeOK'
  BY DEF StoreTypeOK, PCs, Errors, Whole, Dir, EmptyDir
<1>2. OneWriter'
  BY DEF StoreTypeOK, OneWriter
<1>3. (staging # NoDir /\ ~ faulty => \E q \in Publishers : Writing(q))'
  BY DEF StoreTypeOK, OneWriter
<1>4. ASSUME NEW q \in Publishers PROVE StagedBy(q)' /\ ReceiptStays(q)'
  BY FileAssumption, NoneAssumption, NameAssumption
     DEF StoreTypeOK, OneWriter, Whole, Errors, EmptyDir, Dir
<1>5. RepublishReturnsReceipt'
  BY NameAssumption DEF StoreTypeOK, Errors, RepublishReturnsReceipt
<1> QED BY <1>1, <1>2, <1>3, <1>4, <1>5

\* WriteReceipt keeps the invariant.
LEMMA WriteReceiptInv ==
  ASSUME StoreInv, NEW p \in Publishers, WriteReceipt(p)
  PROVE  StoreInv'
<1> USE DEF StoreInv, StagedBy, ReceiptStays, Writing, Goto, End, WriteReceipt
<1>1. StoreTypeOK'
  BY DEF StoreTypeOK, PCs, Errors, Whole, Dir, EmptyDir
<1>2. OneWriter'
  BY DEF StoreTypeOK, OneWriter
<1>3. (staging # NoDir /\ ~ faulty => \E q \in Publishers : Writing(q))'
  BY DEF StoreTypeOK, OneWriter
<1>4. ASSUME NEW q \in Publishers PROVE StagedBy(q)' /\ ReceiptStays(q)'
  BY FileAssumption, NoneAssumption, NameAssumption
     DEF StoreTypeOK, OneWriter, Whole, Errors, EmptyDir, Dir
<1>5. RepublishReturnsReceipt'
  BY NameAssumption DEF StoreTypeOK, Errors, RepublishReturnsReceipt
<1> QED BY <1>1, <1>2, <1>3, <1>4, <1>5

\* Rename keeps the invariant.
LEMMA RenameInv ==
  ASSUME StoreInv, NEW p \in Publishers, Rename(p)
  PROVE  StoreInv'
<1> USE DEF StoreInv, StagedBy, ReceiptStays, Writing, Goto, End, Rename
<1>1. StoreTypeOK'
  BY DEF StoreTypeOK, PCs, Errors, Whole, Dir, EmptyDir
<1>2. OneWriter'
  BY DEF StoreTypeOK, OneWriter
<1>3. (staging # NoDir /\ ~ faulty => \E q \in Publishers : Writing(q))'
  BY DEF StoreTypeOK, OneWriter
<1>4. ASSUME NEW q \in Publishers PROVE StagedBy(q)' /\ ReceiptStays(q)'
  BY FileAssumption, NoneAssumption, NameAssumption
     DEF StoreTypeOK, OneWriter, Whole, Errors, EmptyDir, Dir
<1>5. RepublishReturnsReceipt'
  BY NameAssumption DEF StoreTypeOK, Errors, RepublishReturnsReceipt
<1> QED BY <1>1, <1>2, <1>3, <1>4, <1>5

\* CleanUp keeps the invariant.
LEMMA CleanUpInv ==
  ASSUME StoreInv, NEW p \in Publishers, CleanUp(p) \/ CleanUpFails(p)
  PROVE  StoreInv'
<1> USE DEF StoreInv, StagedBy, ReceiptStays, Writing, Goto, End, CleanUp, CleanUpFails
<1>1. StoreTypeOK'
  BY DEF StoreTypeOK, PCs, Errors, Whole, Dir, EmptyDir
<1>2. OneWriter'
  BY DEF StoreTypeOK, OneWriter
<1>3. (staging # NoDir /\ ~ faulty => \E q \in Publishers : Writing(q))'
  BY DEF StoreTypeOK, OneWriter
<1>4. ASSUME NEW q \in Publishers PROVE StagedBy(q)' /\ ReceiptStays(q)'
  BY FileAssumption, NoneAssumption, NameAssumption
     DEF StoreTypeOK, OneWriter, Whole, Errors, EmptyDir, Dir
<1>5. RepublishReturnsReceipt'
  BY NameAssumption DEF StoreTypeOK, Errors, RepublishReturnsReceipt
<1> QED BY <1>1, <1>2, <1>3, <1>4, <1>5

\* A drifting file belongs to the published directory, whose receipt stays.
LEMMA DriftInv ==
  ASSUME StoreInv, Drift
  PROVE  StoreInv'
<1> USE DEF StoreInv, StagedBy, ReceiptStays, Writing, Goto, End, Drift
<1>1. StoreTypeOK'
  BY DEF StoreTypeOK, PCs, Errors, Whole, Dir, EmptyDir
<1>2. OneWriter'
  BY DEF StoreTypeOK, OneWriter
<1>3. (staging # NoDir /\ ~ faulty => \E q \in Publishers : Writing(q))'
  BY DEF StoreTypeOK, OneWriter
<1>4. ASSUME NEW q \in Publishers PROVE StagedBy(q)' /\ ReceiptStays(q)'
  BY FileAssumption, NoneAssumption, NameAssumption
     DEF StoreTypeOK, OneWriter, Whole, Errors, EmptyDir, Dir
<1>5. RepublishReturnsReceipt'
  BY NameAssumption DEF StoreTypeOK, Errors, RepublishReturnsReceipt
<1> QED BY <1>1, <1>2, <1>3, <1>4, <1>5

-----------------------------------------------------------------------------

\* Every step keeps the invariant.
LEMMA StoreNextInv == StoreInv /\ [StoreNext]_storeVars => StoreInv'
<1> SUFFICES ASSUME StoreInv, [StoreNext]_storeVars PROVE StoreInv'
  OBVIOUS
<1>1. CASE UNCHANGED storeVars
  BY <1>1 DEF storeVars, StoreInv, StoreTypeOK, OneWriter, StagedBy, ReceiptStays,
              RepublishReturnsReceipt, Writing, Whole
<1>2. CASE Drift
  BY <1>2, DriftInv
<1>3. ASSUME NEW p \in Publishers,
             Publish(p) \/ Step(p) \/ Refused(p) \/ Fails(p) \/ CleanUpFails(p) \/ Crash(p)
      PROVE  StoreInv'
  BY <1>3, LooksInv, MakeStagingInv, WriteFileInv, WriteReceiptInv, RenameInv, CleanUpInv
     DEF Step
<1> QED BY <1>1, <1>2, <1>3 DEF StoreNext

\* Every reachable state of publication satisfies the invariant.
THEOREM StoreInvariance == StoreSpec => []StoreInv
BY StoreInitInv, StoreNextInv, PTL DEF StoreSpec

\* The directories, calls and results keep their types.
THEOREM StoreTypeCorrect == StoreSpec => []StoreTypeOK
<1>1. StoreInv => StoreTypeOK
  BY DEF StoreInv
<1> QED BY <1>1, StoreInvariance, PTL

\* Unless something broke, a staging directory has a publisher at work on it,
\* and never two: the exclusive mkdir(staging) is a lock.
THEOREM StagingIsOwned == StoreSpec => []StagingOwned
<1>1. StoreInv => StagingOwned
  BY DEF StoreInv, OneWriter, StagingOwned
<1> QED BY <1>1, StoreInvariance, PTL

\* However many publishers return a receipt, it is the one that was published.
THEOREM ReceiptsAgree == StoreSpec => []OneReceipt
<1>1. StoreInv => OneReceipt
  BY DEF StoreInv, ReceiptStays, OneReceipt
<1> QED BY <1>1, StoreInvariance, PTL

\* Publishing again what is published returns its receipt.
THEOREM RepublicationIsIdempotent == StoreSpec => []RepublishReturnsReceipt
<1>1. StoreInv => RepublishReturnsReceipt
  BY DEF StoreInv
<1> QED BY <1>1, StoreInvariance, PTL

\* The published directory appears whole, by the rename of its only writer.
THEOREM PublicationIsAtomic == StoreSpec => PublishedWhole
<1>1. ASSUME StoreInv, [StoreNext]_storeVars, target = NoDir, target' # NoDir
      PROVE  Whole(target')
  <2>1. PICK p \in Publishers : Rename(p)
    BY <1>1 DEF storeVars, StoreNext, Step, Publish, StatTarget, StatStaging, MakeStaging,
       WriteFile, WriteReceipt, Verify, CleanUp, Refused, Fails, CleanUpFails, Crash, Drift
  <2>2. StagedBy(p) /\ pc[p] = "rename" /\ target' = staging
    BY <1>1, <2>1 DEF StoreInv, Rename
  <2> QED BY <2>2 DEF StagedBy
<1>2. StoreInv /\ [StoreNext]_storeVars => [target = NoDir /\ target' # NoDir => Whole(target')]_storeVars
  BY <1>1
<1> QED BY <1>2, StoreInvariance, PTL DEF StoreSpec, PublishedWhole
=============================================================================
