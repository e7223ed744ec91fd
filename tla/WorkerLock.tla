----------------------------- MODULE WorkerLock -----------------------------
(***************************************************************************)
(* The lock file that keeps a worker to one process                        *)
(* (api-server/src/workers/worker-lock.ts, worker-runtime.ts).             *)
(*                                                                         *)
(* A start creates the file exclusively, writes its record into it and     *)
(* then a heartbeat file beside it, which its timer renews.  A start that  *)
(* finds the file retires it, by name, if the record it reads names a      *)
(* process that is gone or silent, or if there is no record; and tries     *)
(* again.  Each start is one process with a token of its own.              *)
(***************************************************************************)
EXTENDS Integers

CONSTANTS
  Starts,       \* processes started for one worker, and their tokens
  NoStart,      \* no file, or no record
  MaxAttempts,  \* of one start
  MaxFaults     \* crashes, and processes that fall silent

ASSUME NoStartDistinct == NoStart \notin Starts
ASSUME AttemptBound == MaxAttempts \in Nat \ {0}
ASSUME FaultBound == MaxFaults \in Nat

VARIABLES
  lock,       \* the start whose file the lock path names
  written,    \* its record is in it
  beats,      \* starts whose heartbeat file exists
  late,       \* starts whose last heartbeat is older than staleMs
  aged,       \* starts that began longer than staleMs ago
  pc, seen,   \* where a start is, and the record it read
  tries,
  overlapped, \* history: two starts have been acquiring at once
  stalled,    \* history: a live process was silent for staleMs
  faults
vars == <<lock, written, beats, late, aged, pc, seen, tries, overlapped, stalled, faults>>

Acquiring == {"create", "write", "beat", "read", "judge", "retire", "tidy"}
Releasing == {"check", "unlock", "unbeat"}
\* Refused, out of attempts or released; or crashed.
Ended == {"gone", "dead"}
PCs == {"idle", "own"} \cup Acquiring \cup Releasing \cup Ended

TypeOK ==
  /\ lock \in Starts \cup {NoStart}
  /\ written \in BOOLEAN
  /\ beats \subseteq Starts /\ late \subseteq beats /\ aged \subseteq Starts
  /\ pc \in [Starts -> PCs] /\ seen \in [Starts -> Starts \cup {NoStart}]
  /\ tries \in [Starts -> 0..(MaxAttempts - 1)]
  /\ overlapped \in BOOLEAN /\ stalled \in BOOLEAN /\ faults \in 0..MaxFaults

Init ==
  /\ lock = NoStart /\ written = FALSE /\ beats = {} /\ late = {} /\ aged = {}
  /\ pc = [p \in Starts |-> "idle"] /\ seen = [p \in Starts |-> NoStart]
  /\ tries = [p \in Starts |-> 0]
  /\ overlapped = FALSE /\ stalled = FALSE /\ faults = 0

Alive(p) == pc[p] \notin Ended \cup {"idle"}
Goto(p, l) == pc' = [pc EXCEPT ![p] = l]
End(p, l) ==
  /\ Goto(p, l)
  /\ seen' = [seen EXCEPT ![p] = NoStart] /\ tries' = [tries EXCEPT ![p] = 0]
\* readRecord: null for no file, and for one that is empty, partial or foreign.
ReadRecord == IF written THEN lock ELSE NoStart
\* Mutant of Fresh: the heartbeat not looked for.
CreatedLately(t) == t \notin aged
\* heartbeatIsFresh: without a heartbeat file the record's createdAt counts.
Fresh(t) == IF t \in beats THEN t \notin late ELSE t \notin aged

-----------------------------------------------------------------------------
(* acquireWorkerLock.                                                      *)

Begin(p) ==
  /\ pc[p] = "idle"
  /\ Goto(p, "create")
  /\ overlapped' = (overlapped \/ \E q \in Starts : pc[q] \in Acquiring)
  /\ UNCHANGED <<lock, written, beats, late, aged, seen, tries, stalled, faults>>

\* O_CREAT | O_EXCL.
Create(p) ==
  /\ pc[p] = "create"
  /\ IF lock = NoStart THEN lock' = p /\ Goto(p, "write")
                       ELSE UNCHANGED lock /\ Goto(p, "read")
  /\ UNCHANGED <<written, beats, late, aged, seen, tries, overlapped, stalled, faults>>

\* Through the handle: into the file the start created, which a rename may have
\* taken from the path.
WriteRecord(p) ==
  /\ pc[p] = "write"
  /\ written' = (written \/ lock = p)
  /\ Goto(p, "beat")
  /\ UNCHANGED <<lock, beats, late, aged, seen, tries, overlapped, stalled, faults>>

WriteHeartbeat(p) ==
  /\ pc[p] = "beat"
  /\ beats' = beats \cup {p}
  /\ Goto(p, "own")
  /\ UNCHANGED <<lock, written, late, aged, seen, tries, overlapped, stalled, faults>>

\* Mutant of AfterRead: a file without a record taken for an active lock.
RefusedWithoutRecord(t) == IF t = NoStart THEN "gone" ELSE "judge"
AfterRead(t) == IF t = NoStart THEN "retire" ELSE "judge"
Read(p) ==
  /\ pc[p] = "read"
  /\ seen' = [seen EXCEPT ![p] = ReadRecord]
  /\ Goto(p, AfterRead(ReadRecord))
  /\ UNCHANGED <<lock, written, beats, late, aged, tries, overlapped, stalled, faults>>

\* activeLock.  The number of a process that is gone may belong to another.
Judge(p) ==
  /\ pc[p] = "judge"
  /\ \E pidExists \in {TRUE, Alive(seen[p])} :
       IF pidExists /\ Fresh(seen[p]) THEN End(p, "gone")
                                     ELSE Goto(p, "retire") /\ UNCHANGED <<seen, tries>>
  /\ UNCHANGED <<lock, written, beats, late, aged, overlapped, stalled, faults>>

\* Mutant of Again: the attempts not counted off.
AgainAlways(p) ==
  /\ Goto(p, "create")
  /\ tries' = [tries EXCEPT ![p] = @ + 1] /\ seen' = [seen EXCEPT ![p] = NoStart]
Again(p) ==
  IF tries[p] + 1 = MaxAttempts THEN End(p, "gone")
  ELSE /\ Goto(p, "create")
       /\ tries' = [tries EXCEPT ![p] = @ + 1] /\ seen' = [seen EXCEPT ![p] = NoStart]

\* retireStaleLock: whatever the path names by now is renamed and removed, and
\* then the heartbeat of the record that was read.
Retire(p) ==
  /\ pc[p] = "retire"
  /\ lock' = NoStart /\ written' = FALSE
  /\ IF lock = NoStart \/ seen[p] = NoStart THEN Again(p)
                                            ELSE Goto(p, "tidy") /\ UNCHANGED <<seen, tries>>
  /\ UNCHANGED <<beats, late, aged, overlapped, stalled, faults>>

Tidy(p) ==
  /\ pc[p] = "tidy"
  /\ beats' = beats \ {seen[p]} /\ late' = late \ {seen[p]}
  /\ Again(p)
  /\ UNCHANGED <<lock, written, aged, overlapped, stalled, faults>>

-----------------------------------------------------------------------------
(* runWorkerLoop: the timer, and the release after a stop signal.          *)

\* A timer that has fallen behind catches up, and brings a removed file back.
Beat(p) ==
  /\ pc[p] = "own" /\ (p \notin beats \/ p \in late)
  /\ beats' = beats \cup {p} /\ late' = late \ {p}
  /\ UNCHANGED <<lock, written, aged, pc, seen, tries, overlapped, stalled, faults>>

StopSignal(p) ==
  /\ pc[p] = "own"
  /\ Goto(p, "check")
  /\ UNCHANGED <<lock, written, beats, late, aged, seen, tries, overlapped, stalled, faults>>

Releases(p) == ReadRecord = p
Check(p) ==
  /\ pc[p] = "check"
  /\ Goto(p, IF Releases(p) THEN "unlock" ELSE "unbeat")
  /\ UNCHANGED <<lock, written, beats, late, aged, seen, tries, overlapped, stalled, faults>>

\* By name: whatever the path names by now.
Unlock(p) ==
  /\ pc[p] = "unlock"
  /\ lock' = NoStart /\ written' = FALSE
  /\ Goto(p, "unbeat")
  /\ UNCHANGED <<beats, late, aged, seen, tries, overlapped, stalled, faults>>

Unbeat(p) ==
  /\ pc[p] = "unbeat"
  /\ beats' = beats \ {p} /\ late' = late \ {p}
  /\ End(p, "gone")
  /\ UNCHANGED <<lock, written, aged, overlapped, stalled, faults>>

-----------------------------------------------------------------------------
(* Time and faults.                                                        *)

Fault == faults < MaxFaults /\ faults' = faults + 1
\* A process that acquires or releases takes far less than staleMs, and a timer
\* fires every staleMs / 3: more is a fault, which leaves a trace.
Silent(p, may) ==
  IF ~Alive(p) \/ pc[p] \in may THEN UNCHANGED <<stalled, faults>> ELSE Fault /\ stalled' = TRUE

\* Only a start that the path names, or whose record was read, is looked at.
Matters(p) == lock = p \/ \E q \in Starts : seen[q] = p

Age(p) ==
  /\ pc[p] # "idle" /\ p \notin aged /\ Matters(p)
  /\ aged' = aged \cup {p}
  /\ Silent(p, {"own"})
  /\ UNCHANGED <<lock, written, beats, late, pc, seen, tries, overlapped>>

GrowLate(p) ==
  /\ p \in beats /\ p \notin late /\ Matters(p)
  /\ late' = late \cup {p}
  /\ Silent(p, {})
  /\ UNCHANGED <<lock, written, beats, aged, pc, seen, tries, overlapped>>

Crash(p) ==
  /\ Alive(p) /\ Fault
  /\ End(p, "dead")
  /\ UNCHANGED <<lock, written, beats, late, aged, overlapped, stalled>>

-----------------------------------------------------------------------------
Acquire(p) ==
  \/ Create(p) \/ WriteRecord(p) \/ WriteHeartbeat(p) \/ Read(p) \/ Judge(p) \/ Retire(p) \/ Tidy(p)
Release(p) == Check(p) \/ Unlock(p) \/ Unbeat(p)
Works(p) == Acquire(p) \/ Release(p)

Next ==
  \E p \in Starts :
    \/ Begin(p) \/ Works(p) \/ Beat(p) \/ StopSignal(p) \/ Age(p) \/ GrowLate(p) \/ Crash(p)
Spec == Init /\ [][Next]_vars

\* A process that acquires or releases goes on.
FairSpec == Spec /\ \A p \in Starts : WF_vars(Works(p))

-----------------------------------------------------------------------------
(* Properties.                                                             *)

Quiet == ~overlapped /\ ~stalled

\* As long as starts do not overlap and no live process falls silent, the worker
\* that runs is the one the lock path names, with its record and its heartbeat there
\* for the next start to see, whatever crashed before it, in whichever step, and
\* whichever process numbers were given out again; until its own release removes it.
RunnerHoldsLock ==
  Quiet => \A p \in Starts :
             /\ pc[p] \in {"own", "check", "unlock"} => lock = p /\ written
             /\ pc[p] = "own" => p \in beats

\* Hence one process runs at a time.
Exclusive == Quiet => \A p, q \in Starts : pc[p] = "own" /\ pc[q] = "own" => p = q

\* Nothing a dead start left, at whatever step it died, locks out the next one: a
\* start that finds every other process gone, and gone for staleMs, ends up running.
Gone(q) == pc[q] = "idle" \/ (~Alive(q) /\ (lock = q => q \in aged /\ (q \in beats => q \in late)))
OnlyStart(p) == \A q \in Starts \ {p} : Gone(q)
NoLockout ==
  \A p \in Starts :
    (pc[p] = "create" /\ tries[p] = 0 /\ OnlyStart(p)) ~> (pc[p] \in {"own", "dead"} \/ ~OnlyStart(p))
=============================================================================
