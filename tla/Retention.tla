----------------------------- MODULE Retention ------------------------------
(***************************************************************************)
(* The refresher of one controller against a registry that deletes what    *)
(* nobody has pulled or pushed within its window. Time is counted in       *)
(* refresh intervals. An image stands for its digest with every name it    *)
(* was recorded under, its own digest tag included: refsOf pulls them all. *)
(***************************************************************************)
EXTENDS Naturals, FiniteSets

CONSTANTS
  Objects,
  Images,
  None,            \* no image
  Window,          \* the registry's window, in refresh intervals
  HistoryLimit,    \* how many builds status.history retains
  DegradedAfter,   \* consecutive failed or skipped cycles that warn; 3 in the code
  MaxResets,       \* how often the counters can be cleared in a window before
                   \* the margin is used up
  MaxDisturbances

(* The longest a cycle can go on failing one object without saying so:      *)
(* skipped cycles and failing ones both count to DegradedAfter, and a skip  *)
(* does not clear the object's counter while a cycle that runs clears the   *)
(* skips.                                                                   *)
QuietCycles == DegradedAfter * DegradedAfter

ASSUME NoneAssumption  == None \notin Images
ASSUME BoundAssumption ==
  MaxDisturbances \in Nat /\ MaxResets \in Nat /\ HistoryLimit \in Nat \ {0}
ASSUME DegradedAssumption == DegradedAfter \in Nat \ {0}

(* "--retention-refresh-interval far below the window": the ratio is the    *)
(* guarantee. The chart refuses less than 24.                               *)
ASSUME MarginAssumption ==
  Window \in Nat /\ Window > QuietCycles * (MaxResets + 1)

VARIABLES
  kind,        \* whose refresher it is; the two have different gates
  age,         \* intervals since an image was pulled or pushed; Window: deleted
  broken,      \* images whose GET fails with anything but 404
  artifact,    \* status.artifact
  history,     \* status.history; its order matters only to RecordHistory
  pending,     \* what PendingLister reports: objects not yet reconciled
  failures,    \* Refresher.failures
  skips,       \* Refresher.skips
  owed,        \* the ticker fired and the cycle has not run
  loud,        \* history variable: objects the log or an Event warned about
               \* since a cycle last refreshed all they name
  carried,     \* history variable: images published under a timestamp that is
               \* not of that publish, and not pulled since
  resets,      \* model only: how often a counter was cleared unearned
  disturbed    \* model only: how many disturbances have happened

record == <<artifact, history>>
counters == <<failures, skips, owed, loud>>
modelOnly == <<resets, disturbed>>
retentionVars == <<kind, age, broken, record, pending, counters, carried, resets, disturbed>>

Count == 0..DegradedAfter

RetentionTypeOK ==
  /\ kind \in {"ImageComposition", "ImageBuild"}
  /\ age \in [Images -> 0..Window]
  /\ broken \subseteq Images
  /\ artifact \in [Objects -> Images \cup {None}]
  /\ history \in [Objects -> SUBSET Images]
  /\ pending \subseteq Objects
  /\ failures \in [Objects -> Count] /\ skips \in Count
  /\ owed \in BOOLEAN
  /\ loud \subseteq Objects /\ carried \subseteq Images
  /\ resets \in 0..MaxResets + 1
  /\ disturbed \in 0..MaxDisturbances

RetentionInit ==
  /\ kind \in {"ImageComposition", "ImageBuild"}
  /\ age = [i \in Images |-> Window]
  /\ broken = {}
  /\ artifact = [o \in Objects |-> None]
  /\ history = [o \in Objects |-> {}]
  /\ pending = Objects
  /\ failures = [o \in Objects |-> 0] /\ skips = 0
  /\ owed = TRUE        \* "Run once immediately"
  /\ loud = {} /\ carried = {}
  /\ resets = 0 /\ disturbed = 0

Disturb == disturbed < MaxDisturbances /\ disturbed' = disturbed + 1
Reset   == resets' = IF resets <= MaxResets THEN resets + 1 ELSE resets

-----------------------------------------------------------------------------
Present(i) == age[i] < Window

(* refsOf: the current artifact and every retained record.                  *)
Refs(o) == ({artifact[o]} \ {None}) \cup history[o]

Live == UNION {Refs(o) : o \in Objects}

(* Some older record is trimmed when there are too many, never the newest.  *)
RecordHistory(h, i) ==
  {k \in SUBSET (h \cup {i}) :
     /\ i \in k
     /\ IF Cardinality(h \cup {i}) <= HistoryLimit THEN k = h \cup {i}
        ELSE Cardinality(k) = HistoryLimit}

(* A counter, as far as anything compares it.                               *)
Up(n) == IF n < DegradedAfter THEN n + 1 ELSE n

(* refreshObject fails the object when a GET fails, or the current artifact *)
(* is gone (lostCurrent). History that is gone is only reported.            *)
RefreshFails(current, refs) ==
  \/ \E i \in refs : Present(i) /\ i \in broken
  \/ current # None /\ ~Present(current)

(* Mutant: every image of the repository is pulled.                         *)
RenewedAll(refs) == {i \in Images : Present(i) /\ i \notin broken}

(* What a pull renews.                                                      *)
Renewed(refs) == {i \in refs : Present(i) /\ i \notin broken}

(* Mutant: each cycle counts from the start.                                *)
TallyAnew(o, fails) == IF fails THEN 1 ELSE 0

(* noteFailure or clearFailure.                                             *)
Tally(o, fails) == IF fails THEN Up(failures[o]) ELSE 0

(* RefreshOnce over every object, and what cycle makes of it.               *)
RefreshAll ==
  LET fails(o) == RefreshFails(artifact[o], Refs(o))
  IN /\ skips' = 0
     /\ age' = [i \in Images |-> IF i \in Renewed(Live) THEN 0 ELSE age[i]]
     /\ failures' = [o \in Objects |-> Tally(o, fails(o))]
     /\ loud' = {o \in Objects : fails(o) /\ (o \in loud \/ failures'[o] = DegradedAfter)}
     /\ carried' = carried \ Renewed(Live)

(* Mutant: persistent skips do not escalate.                                *)
SkipQuietly ==
  /\ skips' = Up(skips)
  /\ UNCHANGED <<age, failures, carried, loud>>

Skip ==
  /\ skips' = Up(skips)
  /\ loud' = IF skips' = DegradedAfter THEN Objects ELSE loud
  /\ UNCHANGED <<age, failures, carried>>

-----------------------------------------------------------------------------
(* The refresher.                                                           *)

Cycle ==
  /\ owed
  /\ owed' = FALSE
  /\ IF pending = {} THEN RefreshAll ELSE Skip
  /\ UNCHANGED <<kind, broken, record, pending, modelOnly>>

(* The objects could not be listed: logged as an error at once.             *)
CycleFails ==
  /\ owed /\ Disturb
  /\ owed' = FALSE
  /\ skips' = 0
  /\ loud' = Objects
  /\ UNCHANGED <<kind, age, broken, record, pending, failures, carried, resets>>

(* RefreshNow, out of turn and not gated: only these references, but their  *)
(* outcome is the object's count.                                           *)
RefreshNow(o, current, refs) ==
  /\ age' = [i \in Images |-> IF i \in Renewed(refs) THEN 0 ELSE age[i]]
  /\ carried' = carried \ Renewed(refs)
  /\ failures' = [failures EXCEPT ![o] = Tally(o, RefreshFails(current, refs))]
  /\ loud' = IF failures'[o] = DegradedAfter THEN loud \cup {o} ELSE loud
  /\ IF failures'[o] < failures[o] THEN Reset ELSE UNCHANGED resets
  /\ UNCHANGED <<skips, owed, disturbed>>

-----------------------------------------------------------------------------
(* The world. An interval passes; the ticker drops no tick that a cycle is  *)
(* still owed for. The collector takes what has reached the window.         *)
Older(ages) == [i \in DOMAIN ages |-> IF ages[i] < Window THEN ages[i] + 1 ELSE Window]

Tick ==
  /\ ~owed
  /\ owed' = TRUE
  /\ age' = Older(age)
  /\ UNCHANGED <<kind, broken, record, pending, failures, skips, loud, carried, modelOnly>>

(* The registry, or some of its manifests, stop answering, for as long as   *)
(* it takes.                                                                *)
Break ==
  /\ broken = {} /\ Disturb
  /\ broken' \in SUBSET Images \ {{}}
  /\ UNCHANGED <<kind, age, record, pending, counters, carried, resets>>

Mend ==
  /\ broken # {}
  /\ broken' = {}
  /\ UNCHANGED <<kind, age, record, pending, counters, carried, modelOnly>>

(* A new leader: the counters and the composer's Readiness are in memory,   *)
(* the builder's gate is the generation each status has observed.           *)
RestartRefresher ==
  /\ Disturb /\ Reset
  /\ failures' = [o \in Objects |-> 0] /\ skips' = 0
  /\ owed' = TRUE
  /\ pending' = IF kind = "ImageComposition" THEN Objects ELSE pending
  /\ UNCHANGED <<kind, age, broken, record, loud, carried>>

-----------------------------------------------------------------------------
(* Properties                                                               *)

(* How long an image can have gone without a pull when nothing has warned   *)
(* of it: bounded by the two counters, which is why a warning comes first.  *)
QuietSince(o) ==
  QuietCycles * resets + DegradedAfter * failures[o] + skips + (IF owed THEN 1 ELSE 0)

QuietMeansFresh ==
  resets <= MaxResets =>
  \A o \in Objects \ loud : \A i \in Refs(o) \ carried : Present(i) => age[i] <= QuietSince(o)

(* refresher.go: "Recorder surfaces sustained failure, which otherwise ends *)
(* silently in deletion". An image a status names, once pulled or newly     *)
(* pushed, is never collected without a warning: not when one object blocks *)
(* every cycle, not when cycles skip and fail in turn, not when restarts or  *)
(* publishes have cleared the counters meanwhile, MaxResets times.          *)
NeverSilent ==
  [][resets <= MaxResets => \A o \in Objects : \A i \in Refs(o) :
       Present(i) /\ ~Present(i)' => o \in loud \/ i \in carried]_retentionVars

(* What no status names is left to the registry, and goes.                  *)
Forgotten ==
  \A i \in Images : i \notin Live ~> (~Present(i) \/ i \in Live)

(* Whatever went wrong, once it is over what every status calls current is  *)
(* in the registry and stays there.                                         *)
Kept ==
  \A o \in Objects : <>[](artifact[o] # None => Present(artifact[o]))
=============================================================================
