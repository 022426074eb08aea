----------------------------- MODULE FilesProofs -----------------------------
(***************************************************************************)
(* Machine-checked proofs about the workflows that handle files and child  *)
(* processes (modules Process, Media and Outputs, as parts of Plans).      *)
(***************************************************************************)
EXTENDS Plans, FiniteSetTheorems, SequenceTheorems, TLAPS

\* What a step leaves of a record: everything but the fields in S.
Alike(s, t, S) == DOMAIN t = DOMAIN s /\ \A f \in DOMAIN s \ S : t[f] = s[f]

-----------------------------------------------------------------------------
(* One child process.                                                      *)

ProcFields == {"child", "exit", "killed", "writers", "reader", "written", "consumed", "cancelled",
               "failure", "issue", "status", "killAt", "exitUntil", "drainUntil", "result"}
Failures == {"none", "cancelled", "timed out", "decode", "cleanup", "output"}

ProcShape(q) ==
    /\ DOMAIN q = ProcFields
    /\ q.writers \in [Pipes -> BOOLEAN] /\ q.written \in [Pipes -> Nat]
    /\ q.consumed \in [Pipes -> Nat]
    /\ q.reader \in [Pipes -> {"open", "eof", "given up", "none"}]
    /\ q.child \in {"running", "exited"} /\ q.exit \in {"none", "good", "bad"}
    /\ q.failure \in Failures /\ q.issue \in BOOLEAN

\* A pipe that was read to its end, or does not exist, has no writer any more.
Drained(w, r, c, n) == \A p \in Pipes : r[p] \in {"eof", "none"} => ~w[p] /\ c[p] = n[p]

\* What the status, the readers and the result of the actor stand for.
Reported(q) ==
    /\ q.reader["stderr"] # "none"
    /\ q.status # "none" => q.child = "exited" /\ q.status = q.exit
    /\ ~q.issue => /\ q.reader["stderr"] # "given up"
                   /\ q.reader["stdout"] = "given up" => q.failure = "output"
    /\ q.result # "pending" /\ ~q.issue =>
          /\ q.status # "none" /\ \A p \in Pipes : q.reader[p] # "open"
          /\ q.failure # "none" => q.result = q.failure
    /\ q.result = "ok" => q.status = "good" /\ ~q.issue /\ q.failure = "none"
    /\ q.killAt \/ (q.issue /\ q.result = "pending") => q.failure # "none"

ProcInv(q) ==
    ProcShape(q) /\ Drained(q.writers, q.reader, q.consumed, q.written) /\ Reported(q)

\* The ways to stop the child.
LEMMA TerminateKeeps ==
  ASSUME NEW q, ProcInv(q), q.result = "pending", q.failure # "none", NEW t \in Terminate(q)
  PROVE  ProcInv(t)
  <1>1. DOMAIN q = ProcFields
    BY DEF ProcInv, ProcShape
  <1>2. Alike(q, t, {"killAt", "killed", "issue", "result"})
    BY <1>1 DEF Terminate, Return, Alike, ProcFields
  <1>3. (t.issue = q.issue /\ t.result = q.result) \/ (t.issue = TRUE /\ t.result = q.failure)
    BY <1>1 DEF Terminate, Return, ProcFields
  <1>4. ProcShape(t)
    BY <1>1, <1>2, <1>3 DEF ProcInv, ProcShape, Alike, ProcFields
  <1>5. Drained(t.writers, t.reader, t.consumed, t.written)
    BY <1>1, <1>2 DEF ProcInv, Alike, ProcFields
  <1>6. Reported(t)
    BY <1>1, <1>2, <1>3 DEF ProcInv, ProcShape, Reported, Alike, ProcFields, Failures
  <1>7. QED BY <1>4, <1>5, <1>6 DEF ProcInv

\* The child and its descendants.
LEMMA ChildKeeps ==
  ASSUME ProcInv(proc),
         \/ \E p \in Pipes : ChildWrites(p) \/ WriterCloses(p)
         \/ ChildExits \/ CancelProcess
  PROVE  ProcInv(proc')
  <1>1. DOMAIN proc = ProcFields /\ ProcShape(proc)
    BY DEF ProcInv, ProcShape
  <1>2. ASSUME NEW p \in Pipes, ChildWrites(p)
        PROVE  ProcInv(proc')
    <2>1. /\ Alike(proc, proc', {"written"})
          /\ proc'.written = [proc.written EXCEPT ![p] = proc.written[p] + 1]
      BY <1>1, <1>2 DEF ChildWrites, Alike, ProcFields
    <2>2. proc'.written \in [Pipes -> Nat]
      <3>1. proc.written \in [Pipes -> Nat]
        BY <1>1 DEF ProcShape
      <3>2. QED BY <1>2, <2>1, <3>1
    <2>3. ProcShape(proc')
      BY <1>1, <2>1, <2>2 DEF ProcShape, Alike, ProcFields
    <2>4. Drained(proc'.writers, proc'.reader, proc'.consumed, proc'.written)
      BY <1>1, <1>2, <2>1 DEF ProcInv, ProcShape, Drained, Alike, ProcFields, ChildWrites
    <2>5. Reported(proc')
      BY <1>1, <2>1 DEF ProcInv, Reported, Alike, ProcFields
    <2>6. QED BY <2>3, <2>4, <2>5 DEF ProcInv
  <1>3. ASSUME NEW p \in Pipes, WriterCloses(p)
        PROVE  ProcInv(proc')
    <2>1. /\ Alike(proc, proc', {"writers"})
          /\ proc'.writers = [proc.writers EXCEPT ![p] = FALSE]
      BY <1>1, <1>3 DEF WriterCloses, Alike, ProcFields
    <2>2. proc'.writers \in [Pipes -> BOOLEAN]
      BY <1>1, <2>1 DEF ProcShape
    <2>3. ProcShape(proc')
      BY <1>1, <2>1, <2>2 DEF ProcShape, Alike, ProcFields
    <2>4. Drained(proc'.writers, proc'.reader, proc'.consumed, proc'.written)
      BY <1>1, <2>1 DEF ProcInv, ProcShape, Drained, Alike, ProcFields
    <2>5. Reported(proc')
      BY <1>1, <2>1 DEF ProcInv, Reported, Alike, ProcFields
    <2>6. QED BY <2>3, <2>4, <2>5 DEF ProcInv
  <1>4. CASE ChildExits
    <2>1. /\ Alike(proc, proc', {"child", "exit"})
          /\ proc'.child = "exited" /\ proc'.exit \in {"good", "bad"} /\ proc.child = "running"
      BY <1>1, <1>4 DEF ChildExits, Alike, ProcFields
    <2>2. ProcShape(proc')
      BY <1>1, <2>1 DEF ProcShape, Alike, ProcFields
    <2>3. Drained(proc'.writers, proc'.reader, proc'.consumed, proc'.written)
      BY <1>1, <2>1 DEF ProcInv, Alike, ProcFields
    <2>4. Reported(proc')
      BY <1>1, <2>1 DEF ProcInv, Reported, Alike, ProcFields
    <2>5. QED BY <2>2, <2>3, <2>4 DEF ProcInv
  <1>5. CASE CancelProcess
    <2>1. Alike(proc, proc', {"cancelled"})
      BY <1>1, <1>5 DEF CancelProcess, Alike, ProcFields
    <2>2. ProcShape(proc')
      BY <1>1, <2>1 DEF ProcShape, Alike, ProcFields
    <2>3. Drained(proc'.writers, proc'.reader, proc'.consumed, proc'.written)
      BY <1>1, <2>1 DEF ProcInv, Alike, ProcFields
    <2>4. Reported(proc')
      BY <1>1, <2>1 DEF ProcInv, Reported, Alike, ProcFields
    <2>5. QED BY <2>2, <2>3, <2>4 DEF ProcInv
  <1>6. QED BY <1>2, <1>3, <1>4, <1>5

\* The actor gives up on the child, or fails.
LEMMA StopKeeps ==
  ASSUME ProcInv(proc), SeesCancellation \/ DeadlinePasses \/ KillTimer \/ ExitTimer \/ ActorFails
  PROVE  ProcInv(proc')
  <1>1. DOMAIN proc = ProcFields /\ ProcShape(proc)
    BY DEF ProcInv, ProcShape
  <1>2. ASSUME NEW how \in Failures \ {"none"}, NEW q, q = [proc EXCEPT !.failure = how],
               proc.failure = "none", Driving
        PROVE  ProcInv(q) /\ q.result = "pending" /\ q.failure # "none"
    <2>1. Alike(proc, q, {"failure"}) /\ q.failure = how /\ proc.result = "pending"
      BY <1>1, <1>2 DEF Alike, ProcFields, Driving
    <2>2. ProcShape(q)
      BY <1>1, <1>2, <2>1 DEF ProcShape, Alike, ProcFields
    <2>3. Drained(q.writers, q.reader, q.consumed, q.written)
      BY <1>1, <2>1 DEF ProcInv, Alike, ProcFields
    <2>4. Reported(q)
      BY <1>1, <1>2, <2>1 DEF ProcInv, Reported, Alike, ProcFields
    <2>5. QED BY <1>1, <1>2, <2>1, <2>2, <2>3, <2>4 DEF ProcInv, Alike, ProcFields
  <1>3. CASE SeesCancellation
    <2>1. PICK q : q = [proc EXCEPT !.failure = "cancelled"]
      OBVIOUS
    <2>2. proc' \in Terminate(q) /\ proc.failure = "none" /\ Driving
      BY <1>3, <2>1 DEF SeesCancellation
    <2>3. "cancelled" \in Failures \ {"none"}
      BY DEF Failures
    <2>4. QED BY <1>2, <2>1, <2>2, <2>3, TerminateKeeps
  <1>4. CASE DeadlinePasses
    <2>1. PICK q : q = [proc EXCEPT !.failure = "timed out"]
      OBVIOUS
    <2>2. proc' \in Terminate(q) /\ proc.failure = "none" /\ Driving
      BY <1>4, <2>1 DEF DeadlinePasses
    <2>3. "timed out" \in Failures \ {"none"}
      BY DEF Failures
    <2>4. QED BY <1>2, <2>1, <2>2, <2>3, TerminateKeeps
  <1>5. CASE KillTimer
    <2>1. /\ Alike(proc, proc', {"killAt", "exitUntil", "killed", "issue"})
          /\ proc'.issue \in BOOLEAN /\ (proc.issue => proc'.issue) /\ proc.result = "pending"
          /\ proc.killAt /\ ~proc'.killAt
      BY <1>1, <1>5 DEF KillTimer, Alike, ProcFields, ProcShape, Driving
    <2>2. ProcShape(proc')
      BY <1>1, <2>1 DEF ProcShape, Alike, ProcFields
    <2>3. Drained(proc'.writers, proc'.reader, proc'.consumed, proc'.written)
      BY <1>1, <2>1 DEF ProcInv, Alike, ProcFields
    <2>4. Reported(proc')
      BY <1>1, <2>1 DEF ProcInv, Reported, Alike, ProcFields
    <2>5. QED BY <2>2, <2>3, <2>4 DEF ProcInv
  <1>6. CASE ExitTimer \/ ActorFails
    <2>1. /\ Alike(proc, proc', {"issue", "result"})
          /\ proc'.issue = TRUE /\ proc'.result \in Failures \union {"actor"}
      BY <1>1, <1>6 DEF ExitTimer, ActorFails, Return, Alike, ProcFields, ProcShape
    <2>2. ProcShape(proc')
      BY <1>1, <2>1 DEF ProcShape, Alike, ProcFields
    <2>3. Drained(proc'.writers, proc'.reader, proc'.consumed, proc'.written)
      BY <1>1, <2>1 DEF ProcInv, Alike, ProcFields
    <2>4. Reported(proc')
      BY <1>1, <2>1 DEF ProcInv, Reported, Alike, ProcFields, Failures
    <2>5. QED BY <2>2, <2>3, <2>4 DEF ProcInv
  <1>7. QED BY <1>3, <1>4, <1>5, <1>6

\* Nothing is open any more, or one pipe less.
LEMMA ReaderKeeps ==
  ASSUME ProcInv(proc), DrainTimer \/ Waited \/ Ends \/ \E p \in Pipes : ReadsEnd(p)
  PROVE  ProcInv(proc')
  <1>1. DOMAIN proc = ProcFields /\ ProcShape(proc)
    BY DEF ProcInv, ProcShape
  <1>2. CASE DrainTimer
    <2>1. PICK q, r : /\ q = Failing(proc, IF proc.status = "bad" THEN "decode" ELSE "cleanup")
                      /\ r = [p \in Pipes |-> IF Open(p) THEN "given up" ELSE proc.reader[p]]
      OBVIOUS
    <2>2. /\ Alike(proc, q, {"failure"}) /\ q.failure \in Failures \ {"none"}
          /\ proc.result = "pending" /\ q.reader = proc.reader
      BY <1>1, <1>2, <2>1 DEF Failing, Alike, ProcFields, ProcShape, Failures, DrainTimer, Driving
    <2>3. proc' = [q EXCEPT !.issue = TRUE, !.reader = r]
      BY <1>2, <2>1, <2>2 DEF DrainTimer
    <2>4. /\ Alike(proc, proc', {"failure", "issue", "reader"}) /\ proc'.issue = TRUE
          /\ proc'.reader = r /\ proc'.failure \in Failures \ {"none"}
      BY <1>1, <2>2, <2>3 DEF Alike, ProcFields
    <2>5. /\ r \in [Pipes -> {"open", "eof", "given up", "none"}]
          /\ \A p \in Pipes : r[p] = proc.reader[p] \/ r[p] = "given up"
      BY <1>1, <2>1 DEF ProcShape, Open
    <2>6. ProcShape(proc')
      BY <1>1, <2>4, <2>5 DEF ProcShape, Alike, ProcFields
    <2>7. Drained(proc'.writers, proc'.reader, proc'.consumed, proc'.written)
      BY <1>1, <2>4, <2>5 DEF ProcInv, Drained, Alike, ProcFields
    <2>10. /\ proc'.failure # "none" /\ proc'.result = "pending" /\ proc'.reader["stderr"] # "none"
           /\ proc'.status = proc.status /\ proc'.child = proc.child /\ proc'.exit = proc.exit
      BY <1>1, <2>2, <2>3, <2>4, <2>5 DEF ProcInv, Reported, Alike, ProcFields, Pipes
    <2>8. Reported(proc')
      BY <2>4, <2>10 DEF ProcInv, Reported
    <2>9. QED BY <2>6, <2>7, <2>8 DEF ProcInv
  <1>3. CASE Waited
    <2>1. proc.result = "pending" /\ proc.child = "exited"
      BY <1>3 DEF Waited, Driving
    <2>2. CASE proc' = [proc EXCEPT !.status = proc.exit, !.killAt = FALSE, !.exitUntil = FALSE,
                                    !.drainUntil = TRUE]
      <3>1. /\ Alike(proc, proc', {"status", "killAt", "exitUntil", "drainUntil"})
            /\ proc'.status = proc.exit /\ proc'.killAt = FALSE
        BY <1>1, <2>2 DEF Alike, ProcFields
      <3>2. ProcShape(proc')
        BY <1>1, <3>1 DEF ProcShape, Alike, ProcFields
      <3>3. Drained(proc'.writers, proc'.reader, proc'.consumed, proc'.written)
        BY <1>1, <3>1 DEF ProcInv, Alike, ProcFields
      <3>4. Reported(proc')
        BY <1>1, <2>1, <3>1 DEF ProcInv, Reported, Alike, ProcFields
      <3>5. QED BY <3>2, <3>3, <3>4 DEF ProcInv
    <2>3. CASE proc' = Return([Failing(proc, "cleanup") EXCEPT !.issue = TRUE],
                              Failing(proc, "cleanup").failure)
      <3>1. PICK q : q = Failing(proc, "cleanup")
        OBVIOUS
      <3>2. Alike(proc, q, {"failure"}) /\ q.failure \in Failures \ {"none"}
        BY <1>1, <3>1 DEF Failing, Alike, ProcFields, ProcShape, Failures
      <3>3. /\ Alike(proc, proc', {"failure", "issue", "result"}) /\ proc'.issue = TRUE
            /\ proc'.failure \in Failures \ {"none"} /\ proc'.result \in Failures
        BY <1>1, <2>3, <3>1, <3>2 DEF Return, Alike, ProcFields
      <3>4. ProcShape(proc')
        BY <1>1, <3>3 DEF ProcShape, Alike, ProcFields
      <3>5. Drained(proc'.writers, proc'.reader, proc'.consumed, proc'.written)
        BY <1>1, <3>3 DEF ProcInv, Alike, ProcFields
      <3>6. Reported(proc')
        BY <1>1, <3>3 DEF ProcInv, Reported, Alike, ProcFields, Failures
      <3>7. QED BY <3>4, <3>5, <3>6 DEF ProcInv
    <2>4. QED BY <1>3, <2>2, <2>3 DEF Waited
  <1>4. CASE Ends
    <2>1. /\ Alike(proc, proc', {"result"}) /\ proc.status # "none"
          /\ \A p \in Pipes : proc.reader[p] # "open"
          /\ IF proc.failure # "none" THEN proc'.result = proc.failure
             ELSE IF proc.status = "bad" THEN proc'.result = "decode"
             ELSE proc'.result \in {"ok", "output"}
          /\ proc.result = "pending"
      BY <1>1, <1>4 DEF Ends, Return, Joined, AnyOpen, Open, Alike, ProcFields
    <2>2. ProcShape(proc')
      BY <1>1, <2>1 DEF ProcShape, Alike, ProcFields
    <2>3. Drained(proc'.writers, proc'.reader, proc'.consumed, proc'.written)
      BY <1>1, <2>1 DEF ProcInv, Alike, ProcFields
    <2>4. proc'.result = "ok" => proc.status = "good" /\ ~proc.issue /\ proc.failure = "none"
      BY <1>1, <2>1 DEF ProcInv, ProcShape, Reported, Failures
    <2>5. Reported(proc')
      BY <1>1, <2>1, <2>4 DEF ProcInv, Reported, Alike, ProcFields
    <2>6. QED BY <2>2, <2>3, <2>5 DEF ProcInv
  <1>5. ASSUME NEW p \in Pipes, ReadsEnd(p)
        PROVE  ProcInv(proc')
    <2>1. /\ Alike(proc, proc', {"reader"}) /\ proc.result = "pending"
          /\ proc'.reader = [proc.reader EXCEPT ![p] = "eof"]
          /\ proc.consumed[p] = proc.written[p] /\ ~proc.writers[p]
      BY <1>1, <1>5 DEF ReadsEnd, Driving, Alike, ProcFields
    <2>2. /\ proc'.reader \in [Pipes -> {"open", "eof", "given up", "none"}] /\ proc'.reader[p] = "eof"
          /\ \A r \in Pipes \ {p} : proc'.reader[r] = proc.reader[r]
      BY <1>1, <1>5, <2>1 DEF ProcShape
    <2>3. ProcShape(proc')
      BY <1>1, <2>1, <2>2 DEF ProcShape, Alike, ProcFields
    <2>4. Drained(proc'.writers, proc'.reader, proc'.consumed, proc'.written)
      BY <1>1, <2>1, <2>2 DEF ProcInv, Drained, Alike, ProcFields
    <2>5. Reported(proc')
      BY <1>1, <2>1, <2>2 DEF ProcInv, Reported, Alike, ProcFields, Pipes
    <2>6. QED BY <2>3, <2>4, <2>5 DEF ProcInv
  <1>6. QED BY <1>2, <1>3, <1>4, <1>5

\* A chunk is read and perhaps refused by the sink, or a read fails.
LEMMA ChunkKeeps ==
  ASSUME ProcInv(proc), NEW p \in Pipes, ReadsChunk(p) \/ ReadFails(p)
  PROVE  ProcInv(proc')
  <1>1. DOMAIN proc = ProcFields /\ ProcShape(proc)
    BY DEF ProcInv, ProcShape
  <1>2. CASE ReadsChunk(p)
    <2>1. PICK q : q = [proc EXCEPT !.consumed[p] = @ + 1]
      OBVIOUS
    <2>2. /\ Alike(proc, q, {"consumed"}) /\ proc.result = "pending" /\ proc.reader[p] = "open"
          /\ q.consumed = [proc.consumed EXCEPT ![p] = proc.consumed[p] + 1]
      BY <1>1, <1>2, <2>1 DEF ReadsChunk, Driving, Open, Alike, ProcFields
    <2>3. /\ q.consumed \in [Pipes -> Nat]
          /\ \A r \in Pipes \ {p} : q.consumed[r] = proc.consumed[r]
      <3>1. proc.consumed \in [Pipes -> Nat]
        BY <1>1 DEF ProcShape
      <3>2. QED BY <2>2, <3>1
    <2>4. ProcShape(q)
      BY <1>1, <2>2, <2>3 DEF ProcShape, Alike, ProcFields
    <2>5. Drained(q.writers, q.reader, q.consumed, q.written)
      BY <1>1, <2>2, <2>3 DEF ProcInv, Drained, Alike, ProcFields
    <2>6. Reported(q)
      BY <1>1, <2>2 DEF ProcInv, Reported, Alike, ProcFields
    <2>7. ProcInv(q) /\ q.result = "pending" /\ q.failure = proc.failure
      BY <1>1, <2>2, <2>4, <2>5, <2>6 DEF ProcInv, Alike, ProcFields
    <2>8. CASE proc' = q
      BY <2>7, <2>8
    <2>9. CASE proc.failure = "none" /\ proc' # q
      <3>1. PICK t : t = [q EXCEPT !.failure = "output",
                                   !.reader["stdout"] = IF @ = "open" THEN "given up" ELSE @]
        OBVIOUS
      <3>2. proc' \in Terminate(t)
        BY <1>2, <2>1, <2>9, <3>1 DEF ReadsChunk
      <3>3. /\ Alike(q, t, {"failure", "reader"}) /\ t.failure = "output" /\ DOMAIN q = ProcFields
            /\ t.reader = [q.reader EXCEPT !["stdout"] = IF q.reader["stdout"] = "open"
                                                         THEN "given up" ELSE q.reader["stdout"]]
        BY <2>4, <3>1 DEF ProcShape, Alike, ProcFields
      <3>4. /\ t.reader \in [Pipes -> {"open", "eof", "given up", "none"}]
            /\ \A r \in Pipes : t.reader[r] = q.reader[r] \/ t.reader[r] = "given up"
            /\ t.reader["stderr"] = q.reader["stderr"]
        BY <2>4, <3>3 DEF ProcShape, Pipes
      <3>5. ProcShape(t)
        BY <2>4, <3>3, <3>4 DEF ProcShape, Alike, ProcFields, Failures
      <3>6. Drained(t.writers, t.reader, t.consumed, t.written)
        BY <2>5, <3>3, <3>4 DEF Drained, Alike, ProcFields
      <3>10. /\ t.status = q.status /\ t.child = q.child /\ t.exit = q.exit /\ t.issue = q.issue
             /\ t.result = "pending"
        BY <2>7, <3>3 DEF Alike, ProcFields
      <3>7. Reported(t)
        BY <2>6, <3>3, <3>4, <3>10 DEF Reported
      <3>8. ProcInv(t) /\ t.result = "pending" /\ t.failure # "none"
        BY <2>7, <3>3, <3>5, <3>6, <3>7 DEF ProcInv, Alike, ProcFields
      <3>9. QED BY <3>2, <3>8, TerminateKeeps
    <2>10. QED BY <1>2, <2>1, <2>8, <2>9 DEF ReadsChunk
  <1>3. CASE ReadFails(p)
    <2>1. PICK q, t : /\ q = Failing(proc, "cleanup")
                      /\ t = [q EXCEPT !.issue = TRUE, !.reader[p] = "given up"]
      OBVIOUS
    <2>2. /\ Alike(proc, q, {"failure"}) /\ q.failure \in Failures \ {"none"}
          /\ proc.result = "pending"
      BY <1>1, <1>3, <2>1 DEF Failing, Alike, ProcFields, ProcShape, Failures, ReadFails, Driving
    <2>3. /\ Alike(proc, t, {"failure", "issue", "reader"}) /\ t.issue = TRUE
          /\ t.failure \in Failures \ {"none"}
          /\ t.reader = [proc.reader EXCEPT ![p] = "given up"]
      BY <1>1, <2>1, <2>2 DEF Alike, ProcFields
    <2>4. /\ t.reader \in [Pipes -> {"open", "eof", "given up", "none"}]
          /\ \A r \in Pipes : t.reader[r] = proc.reader[r] \/ t.reader[r] = "given up"
      BY <1>1, <2>3 DEF ProcShape
    <2>5. ProcShape(t)
      BY <1>1, <2>3, <2>4 DEF ProcShape, Alike, ProcFields
    <2>6. Drained(t.writers, t.reader, t.consumed, t.written)
      BY <1>1, <2>3, <2>4 DEF ProcInv, Drained, Alike, ProcFields
    <2>7. Reported(t)
      BY <1>1, <2>2, <2>3, <2>4 DEF ProcInv, Reported, Alike, ProcFields, Pipes
    <2>8. ProcInv(t) /\ t.result = "pending" /\ t.failure # "none"
      BY <1>1, <2>2, <2>3, <2>5, <2>6, <2>7 DEF ProcInv, Alike, ProcFields
    <2>9. proc' \in Terminate(t) \/ proc' = t
      BY <1>3, <2>1 DEF ReadFails
    <2>10. QED BY <2>8, <2>9, TerminateKeeps
  <1>4. QED BY <1>2, <1>3

LEMMA ProcNextKeeps ==
  ASSUME ProcInv(proc), ProcNext
  PROVE  ProcInv(proc')
  BY ChildKeeps, StopKeeps, ReaderKeeps, ChunkKeeps DEF ProcNext

LEMMA ProcInitKeeps ==
  ASSUME NEW capture \in BOOLEAN, ProcInit(capture)
  PROVE  ProcInv(proc)
  <1>1. /\ DOMAIN proc = ProcFields /\ proc.child = "running" /\ proc.exit = "none"
        /\ proc.failure = "none" /\ proc.issue = FALSE /\ proc.status = "none"
        /\ proc.killAt = FALSE
        /\ proc.result = "pending"
        /\ proc.writers = [p \in Pipes |-> p = "stderr" \/ capture]
        /\ proc.reader = [p \in Pipes |-> IF p = "stderr" \/ capture THEN "open" ELSE "none"]
        /\ proc.written = [p \in Pipes |-> 0] /\ proc.consumed = [p \in Pipes |-> 0]
    BY DEF ProcInit, ProcFields
  <1>2. /\ proc.writers \in [Pipes -> BOOLEAN] /\ proc.written \in [Pipes -> Nat]
        /\ proc.consumed \in [Pipes -> Nat]
        /\ proc.reader \in [Pipes -> {"open", "eof", "given up", "none"}]
    BY <1>1
  <1>3. ProcShape(proc)
    BY <1>1, <1>2 DEF ProcShape, Failures
  <1>4. Drained(proc.writers, proc.reader, proc.consumed, proc.written)
    BY <1>1 DEF Drained
  <1>5. Reported(proc)
    BY <1>1 DEF Reported, Pipes
  <1>6. QED BY <1>3, <1>4, <1>5 DEF ProcInv

LEMMA ProcHonest ==
  ASSUME ProcInv(proc)
  PROVE  ProcessIsHonest
  BY DEF ProcInv, ProcShape, Drained, Reported, ProcessIsHonest, Pipes, Failures

-----------------------------------------------------------------------------
(* One recording-media operation.                                          *)

MediaFields == {"request", "phase", "cancelled", "tools", "root", "names", "version", "clock",
                "outside", "pinned", "read", "stage", "stamp", "tested", "hash", "receipt",
                "job", "result", "unconfirmed", "warned"}
JobFields == {"kind", "child", "target", "work"}
\* Files are numbered as they are made; 0 is no file.
Numbered(version) ==
    Cardinality(DOMAIN version) \in Nat /\ DOMAIN version = 1..Cardinality(DOMAIN version)
Files(version) == DOMAIN version \union {0}

MediaShape(m) ==
    /\ DOMAIN m = MediaFields /\ DOMAIN m.job = JobFields
    /\ Numbered(m.version) /\ m.clock \in Nat
    /\ \A f \in DOMAIN m.version : m.version[f] \in 1..m.clock
    /\ DOMAIN m.names = Names /\ \A x \in Names : m.names[x] \in Files(m.version)
    /\ m.stage \in Files(m.version) /\ m.job.target \in Files(m.version)
    /\ m.pinned.file \in Files(m.version) /\ m.pinned.version \in 0..m.clock
    /\ m.stamp \in 0..m.clock

\* Each name has a file of its own until the export is linked; the encoder
\* writes into a file that only the partial name can lead to.
Apart(m) ==
    m.receipt.file = Nothing =>
        /\ \A x, y \in Names : x # y /\ m.names[x] = m.names[y] => m.names[x] = Nothing
        /\ m.stage # Nothing => m.names["output"] # m.stage
        /\ m.job.kind = "encode" /\ m.job.child = "running" =>
              /\ m.job.target # Nothing
              /\ m.names["source"] # m.job.target /\ m.names["output"] # m.job.target

\* What a receipt stands for, what an ended operation and its job leave behind.
MediaEnded(m) ==
    /\ m.receipt.file # Nothing =>
          /\ m.receipt.file = m.stage /\ m.hash = m.receipt.version
          /\ m.tested = {m.receipt.version} /\ m.read = {m.pinned.version}
    /\ m.result \in {"failed", "exists"} => m.receipt.file = Nothing
    /\ m.result = "exported" => m.receipt.file # Nothing
    /\ m.job.work = "removed" => m.job.child = "reaped"
    /\ m.result = "failed" /\ m.job.child = "loose" => m.unconfirmed

Untested == {"directory", "probe", "sheet", "sample", "output", "encoders", "stage", "encode"}
Encoding == {"verify", "decode", "publish"}
Busy(m, kind) == m.phase = kind /\ m.job.child = "running"
\* Content is what it was when its version was noted; then every read since
\* has seen that version.
Advancing(m) ==
    /\ m.phase \in Untested \union Encoding \union {"hash", "link", "preview"}
    /\ m.job.child # "loose" /\ (m.job.child = "running" => m.phase = m.job.kind)
    /\ (m.receipt.file # Nothing) <=> (m.phase = "preview")
    /\ m.phase = "directory" => m.read = {} /\ m.job.child # "running"
    /\ m.phase # "directory" => m.pinned.file # Nothing
    /\ SourceUnchanged(m) /\ m.phase # "preview" => m.read \subseteq {m.pinned.version}
    /\ (m.phase \in Encoding \/ Busy(m, "encode")) => m.pinned.version \in m.read
    /\ m.phase \in {"hash", "link"} => m.read = {m.pinned.version}
    /\ m.phase \in Untested => m.tested = {}
    /\ m.phase = "verify" /\ m.job.child # "running" => m.tested = {}
    /\ (m.phase \in {"decode", "publish", "hash"} \/ Busy(m, "verify")) =>
          /\ m.stamp \in m.tested
          /\ StageIntact(m) /\ Seen(m, "partial") = m.stamp => m.tested = {m.stamp}
    /\ m.phase = "link" => m.tested = {m.hash}

MediaInv(m) ==
    MediaShape(m) /\ Apart(m) /\ MediaEnded(m) /\ (m.result = "none" => Advancing(m))

\* An operation between two steps, whether or not it goes on.
Sound(m) == MediaShape(m) /\ Apart(m) /\ MediaEnded(m)

LEMMA NumberedGrows ==
  ASSUME NEW v, NEW w, Numbered(v), NEW f, f \in DOMAIN v \/ f = Cardinality(DOMAIN v) + 1,
         DOMAIN w = DOMAIN v \union {f}
  PROVE  Numbered(w) /\ Cardinality(DOMAIN w) >= Cardinality(DOMAIN v)
  <1> DEFINE n == Cardinality(DOMAIN v)
  <1>1. n \in Nat /\ DOMAIN v = 1..n
    BY DEF Numbered
  <1>2. DOMAIN w = 1..n \/ DOMAIN w = 1..(n + 1)
    BY <1>1
  <1>3. Cardinality(1..n) = n /\ Cardinality(1..(n + 1)) = n + 1
    BY <1>1, FS_Interval
  <1>4. \A k \in {n, n + 1} : DOMAIN w = 1..k => Cardinality(DOMAIN w) = k
    BY <1>3, Zenon
  <1>5. PICK k \in {n, n + 1} : DOMAIN w = 1..k
    BY <1>2
  <1>6. Cardinality(DOMAIN w) = k
    BY <1>4, <1>5, Zenon
  <1>7. k \in Nat /\ k >= n
    BY <1>1
  <1>8. QED BY <1>5, <1>6, <1>7, Zenon DEF Numbered

\* A write makes a version that nobody has seen.
LEMMA WrittenFacts ==
  ASSUME NEW m, MediaShape(m), NEW f,
         f \in DOMAIN m.version \/ f = Cardinality(DOMAIN m.version) + 1
  PROVE  LET w == Written(m, f) IN
         /\ Alike(m, w, {"clock", "version"}) /\ w.clock = m.clock + 1
         /\ DOMAIN w.version = DOMAIN m.version \union {f} /\ w.version[f] = m.clock + 1
         /\ \A g \in DOMAIN m.version : g # f => w.version[g] = m.version[g]
         /\ MediaShape(w) /\ f # 0
  <1> DEFINE w == Written(m, f)
  <1>1. DOMAIN m = MediaFields /\ Numbered(m.version) /\ m.clock \in Nat
    BY DEF MediaShape
  <1>2. Alike(m, w, {"clock", "version"}) /\ w.clock = m.clock + 1
    BY <1>1 DEF Written, Alike, MediaFields
  <1>3. w.version = [g \in DOMAIN m.version \union {f} |-> IF g = f THEN m.clock + 1 ELSE m.version[g]]
    BY <1>1 DEF Written, MediaFields
  <1>4. DOMAIN w.version = DOMAIN m.version \union {f} /\ w.version[f] = m.clock + 1
        /\ \A g \in DOMAIN m.version : g # f => w.version[g] = m.version[g]
    BY <1>3
  <1>5. Numbered(w.version)
    BY <1>1, <1>4, NumberedGrows
  <1>6. \A g \in DOMAIN w.version : w.version[g] \in 1..w.clock
    BY <1>1, <1>2, <1>4 DEF MediaShape
  <1>7. /\ w.names = m.names /\ w.stage = m.stage /\ w.job = m.job /\ w.pinned = m.pinned
        /\ w.stamp = m.stamp
    BY <1>1, <1>2 DEF Alike, MediaFields
  <1>8. MediaShape(w)
    BY <1>1, <1>2, <1>4, <1>5, <1>6, <1>7 DEF MediaShape, Alike, Files
  <1>9. f # 0
    BY <1>1 DEF Numbered
  <1>10. QED BY <1>2, <1>4, <1>8, <1>9

\* The partial file is cleaned up only under a name that leads to it.
LEMMA CleanupFacts ==
  ASSUME NEW m, DOMAIN m = MediaFields, NEW c \in Cleanup(m)
  PROVE  /\ Alike(m, c.m, {"names"})
         /\ \/ c.m.names = m.names
            \/ c.m.names = [m.names EXCEPT !["partial"] = Nothing] /\ StageIntact(m)
  BY DEF Cleanup, Alike, MediaFields

\* An operation that fails has published nothing, and says what is unsettled.
LEMMA FailKeeps ==
  ASSUME NEW m, Sound(m), m.receipt.file = Nothing, NEW issue \in BOOLEAN,
         m.job.child = "loose" => issue, NEW t \in Fail(m, issue)
  PROVE  MediaInv(t)
  <1>1. DOMAIN m = MediaFields /\ MediaShape(m)
    BY DEF Sound, MediaShape
  <1>2. PICK c \in Cleanup(m) : t = [Conclude(c.m, "failed") EXCEPT !.unconfirmed = issue \/ ~c.gone]
    BY DEF Fail
  <1>3. Alike(m, c.m, {"names"}) /\ (c.m.names = m.names \/ c.m.names = [m.names EXCEPT !["partial"] = Nothing])
    BY <1>1, CleanupFacts
  <1>4. Alike(m, t, {"names", "result", "phase", "unconfirmed"}) /\ t.names = c.m.names
        /\ t.result = "failed" /\ t.unconfirmed = (issue \/ ~c.gone)
    BY <1>1, <1>2, <1>3 DEF Conclude, Alike, MediaFields
  <1>5. /\ t.version = m.version /\ t.clock = m.clock /\ t.stage = m.stage /\ t.job = m.job
        /\ t.pinned = m.pinned /\ t.stamp = m.stamp /\ t.receipt = m.receipt
    BY <1>1, <1>4 DEF Alike, MediaFields
  <1>6. MediaShape(t)
    BY <1>1, <1>3, <1>4, <1>5 DEF MediaShape, Alike, Files, Names, Nothing
  <1>7. Apart(t)
    BY <1>1, <1>3, <1>4, <1>5 DEF Sound, MediaShape, Apart, Names, Nothing
  <1>8. MediaEnded(t)
    BY <1>1, <1>4, <1>5 DEF Sound, MediaEnded
  <1>9. QED BY <1>4, <1>6, <1>7, <1>8 DEF MediaInv

\* How a job ends: its work file is removed only once its process is joined.
LEMMA JobSettledFacts ==
  ASSUME NEW m, Sound(m), m.result = "none", m.job.child = "running",
         NEW j \in UNION {JobSettled(m, how) : how \in {"ok", "failed", "unconfirmed"}}
  PROVE  /\ Alike(m, j.m, {"job"}) /\ Alike(m.job, j.m.job, {"child", "work"})
         /\ j.m.job.child \in {"loose", "reaped"} /\ (j.m.job.child = "loose" => j.issue)
         /\ j.ok => j.m.job.child = "reaped"
         /\ j.issue \in BOOLEAN
         /\ Sound(j.m)
  <1>1. DOMAIN m = MediaFields /\ DOMAIN m.job = JobFields /\ m.job.work # "removed"
    BY DEF Sound, MediaShape, MediaEnded
  <1>2. PICK how \in {"ok", "failed", "unconfirmed"} : j \in JobSettled(m, how)
    OBVIOUS
  <1> DEFINE ended == [m EXCEPT !.job.child = IF how = "unconfirmed" THEN "loose" ELSE "reaped"]
  <1>3. PICK w : /\ j = [m |-> w, ok |-> how = "ok" /\ ~(w.job.work = "retained"),
                         issue |-> how = "unconfirmed" \/ w.job.work = "retained"]
                 /\ \/ w = ended
                    \/ w = [ended EXCEPT !.job.work = "retained"]
                    \/ how # "unconfirmed" /\ w = [ended EXCEPT !.job.work = "removed"]
    BY <1>2 DEF JobSettled, WorkSettled
  <1>4. Alike(m, ended, {"job"}) /\ Alike(m.job, ended.job, {"child"})
        /\ ended.job.child = (IF how = "unconfirmed" THEN "loose" ELSE "reaped")
    BY <1>1 DEF Alike, MediaFields, JobFields
  <1>5. Alike(m, w, {"job"}) /\ Alike(m.job, w.job, {"child", "work"})
        /\ w.job.child = (IF how = "unconfirmed" THEN "loose" ELSE "reaped")
        /\ (w.job.work = "removed" => how # "unconfirmed")
    <2>1. CASE w = ended
      BY <1>1, <1>4, <2>1 DEF Alike, MediaFields, JobFields
    <2>2. ASSUME NEW r \in {"retained", "removed"}, r = "removed" => how # "unconfirmed",
                 w = [ended EXCEPT !.job.work = r]
          PROVE  /\ Alike(m, w, {"job"}) /\ Alike(m.job, w.job, {"child", "work"})
                 /\ w.job.child = ended.job.child /\ w.job.work = r
      BY <1>1, <1>4, <2>2 DEF Alike, MediaFields, JobFields
    <2>3. QED BY <1>3, <1>4, <2>1, <2>2
  <1>6. j.m = w /\ j.ok = (how = "ok" /\ ~(w.job.work = "retained"))
        /\ j.issue = (how = "unconfirmed" \/ w.job.work = "retained")
    BY <1>3
  <1>7. /\ w.version = m.version /\ w.clock = m.clock /\ w.stage = m.stage /\ w.names = m.names
        /\ w.pinned = m.pinned /\ w.stamp = m.stamp /\ w.receipt = m.receipt /\ w.result = m.result
        /\ w.hash = m.hash /\ w.tested = m.tested /\ w.read = m.read
        /\ w.job.kind = m.job.kind /\ w.job.target = m.job.target
        /\ DOMAIN w = MediaFields /\ DOMAIN w.job = JobFields
    BY <1>1, <1>5 DEF Alike, MediaFields, JobFields
  <1>8. MediaShape(w)
    BY <1>7 DEF Sound, MediaShape
  <1>9. Apart(w)
    BY <1>5, <1>7 DEF Sound, Apart
  <1>10. MediaEnded(w)
    BY <1>5, <1>7 DEF Sound, MediaEnded
  <1>11. QED BY <1>5, <1>6, <1>8, <1>9, <1>10 DEF Sound

\* What FilesAreNeverReplaced asks of a step.
Spares(m, t) ==
    \A n \in Names : m.names[n] # Nothing =>
        /\ t.names[n] = m.names[n] \/ (n = "partial" /\ m.names[n] = m.stage)
        /\ n # "partial" /\ m.names[n] # m.stage =>
              t.version[m.names[n]] = m.version[m.names[n]]

LEMMA FailSpares ==
  ASSUME NEW m, MediaShape(m), NEW issue, NEW t \in Fail(m, issue)
  PROVE  Spares(m, t)
  <1>1. DOMAIN m = MediaFields /\ DOMAIN m.names = Names
    BY DEF MediaShape
  <1>2. PICK c \in Cleanup(m) : t = [Conclude(c.m, "failed") EXCEPT !.unconfirmed = issue \/ ~c.gone]
    BY DEF Fail
  <1>3. /\ Alike(m, c.m, {"names"})
        /\ \/ c.m.names = m.names
           \/ c.m.names = [m.names EXCEPT !["partial"] = Nothing] /\ StageIntact(m)
    BY <1>1, CleanupFacts
  <1>4. t.names = c.m.names /\ t.version = m.version
    BY <1>1, <1>2, <1>3 DEF Conclude, Alike, MediaFields
  <1>5. QED BY <1>1, <1>3, <1>4 DEF Spares, StageIntact

\* A step that leaves the files alone keeps what holds of them.
LEMMA SameDisk ==
  ASSUME NEW m, MediaShape(m), Apart(m), NEW t, DOMAIN t = MediaFields, DOMAIN t.job = JobFields,
         t.names = m.names, t.version = m.version, t.clock = m.clock, t.stage = m.stage,
         t.receipt = m.receipt, t.pinned.file \in Files(m.version), t.pinned.version \in 0..m.clock,
         t.stamp \in 0..m.clock, t.job.target \in Files(m.version),
         \/ t.job = m.job \/ t.job.kind # "encode" \/ t.job.child # "running"
         \/ t.job.target = m.names["partial"] /\ m.names["partial"] # Nothing
  PROVE  MediaShape(t) /\ Apart(t)
  <1>1. MediaShape(t)
    BY DEF MediaShape
  <1>2. Apart(t)
    BY DEF Apart, Names
  <1>3. QED BY <1>1, <1>2

\* What is seen under a name is a version that was written, or nothing.
LEMMA SeenFacts ==
  ASSUME NEW m, MediaShape(m), NEW n \in Names
  PROVE  /\ Seen(m, n) \in 0..m.clock
         /\ m.names[n] # Nothing => m.names[n] \in DOMAIN m.version /\ Seen(m, n) = m.version[m.names[n]]
  BY DEF MediaShape, Seen, Files, Nothing

\* The phases that run a job of their own name.
JobPhases == {"probe", "sheet", "sample", "encoders", "encode", "verify", "decode", "preview"}
LEMMA SpawnedFacts ==
  ASSUME NEW m, DOMAIN m = MediaFields, m.tools /\ ~m.cancelled, NEW kind, NEW t \in Spawned(m, kind)
  PROVE  /\ Alike(m, t, {"job", "read", "tested"}) /\ DOMAIN t.job = JobFields
         /\ t.job.kind = kind /\ t.job.child = "running" /\ t.job.target = m.names["partial"]
         /\ t.job.work # "removed"
         /\ t.read = IF kind \in ReadsSource THEN m.read \union {Seen(m, "source")} ELSE m.read
         /\ t.tested = IF kind \in ReadsStage THEN m.tested \union {Seen(m, "partial")} ELSE m.tested
  <1>1. PICK q : q = [kind |-> kind, child |-> "running", target |-> m.names["partial"],
                      work |-> IF kind \in HasWork THEN "inflight" ELSE "none"]
    OBVIOUS
  <1>2. t = [m EXCEPT !.job = q,
                      !.read = IF kind \in ReadsSource THEN @ \cup {Seen(m, "source")} ELSE @,
                      !.tested = IF kind \in ReadsStage THEN @ \cup {Seen(m, "partial")} ELSE @]
    BY <1>1 DEF Spawned
  <1>3. DOMAIN q = JobFields /\ q.kind = kind /\ q.child = "running" /\ q.target = m.names["partial"]
        /\ q.work # "removed"
    BY <1>1 DEF JobFields
  <1>4. QED BY <1>2, <1>3 DEF Alike, MediaFields

LEMMA BeginKeeps ==
  ASSUME NEW m, MediaInv(m), m.result = "none", NEW kind \in JobPhases, m.phase = kind,
         m.job.child # "running",
         kind = "encode" => SourceUnchanged(m) /\ m.names["partial"] # Nothing,
         kind = "verify" => m.stamp = Seen(m, "partial"),
         kind = "preview" => m.tools /\ ~m.cancelled,
         NEW t \in Spawned(m, kind)
  PROVE  MediaInv(t) /\ Spares(m, t)
  <1>1. DOMAIN m = MediaFields /\ MediaShape(m) /\ Apart(m) /\ MediaEnded(m) /\ Advancing(m)
    BY DEF MediaInv, MediaShape
  <1>2. CASE ~(m.tools /\ ~m.cancelled)
    <2>1. t \in Fail(m, FALSE) /\ kind # "preview"
      BY <1>2 DEF Spawned
    <2>2. m.receipt.file = Nothing /\ m.job.child # "loose"
      BY <1>1, <2>1 DEF Advancing
    <2>3. QED BY <1>1, <2>1, <2>2, FailKeeps, FailSpares DEF Sound
  <1>3. CASE m.tools /\ ~m.cancelled
    <2>1. /\ Alike(m, t, {"job", "read", "tested"}) /\ DOMAIN t.job = JobFields
          /\ t.job.kind = kind /\ t.job.child = "running" /\ t.job.target = m.names["partial"]
          /\ t.job.work # "removed"
          /\ t.read = IF kind \in ReadsSource THEN m.read \union {Seen(m, "source")} ELSE m.read
          /\ t.tested = IF kind \in ReadsStage THEN m.tested \union {Seen(m, "partial")} ELSE m.tested
      BY <1>1, <1>3, SpawnedFacts
    <2>2. /\ DOMAIN t = MediaFields /\ t.names = m.names /\ t.version = m.version /\ t.clock = m.clock
          /\ t.stage = m.stage /\ t.receipt = m.receipt /\ t.pinned = m.pinned /\ t.stamp = m.stamp
          /\ t.result = m.result /\ t.phase = m.phase /\ t.hash = m.hash
      BY <1>1, <2>1 DEF Alike, MediaFields
    <2>3. MediaShape(t) /\ Apart(t)
      <3>1. m.names["partial"] \in Files(m.version) /\ m.stamp \in 0..m.clock
            /\ m.pinned.file \in Files(m.version) /\ m.pinned.version \in 0..m.clock
        BY <1>1 DEF MediaShape, Names
      <3>2. t.job.kind # "encode" \/ (t.job.target = m.names["partial"] /\ m.names["partial"] # Nothing)
        BY <2>1
      <3>3. QED BY <1>1, <2>1, <2>2, <3>1, <3>2, SameDisk
    <2>4. MediaEnded(t)
      <3>1. kind = "preview" => t.read = m.read /\ t.tested = m.tested
        BY <2>1 DEF ReadsSource, ReadsStage
      <3>2. kind # "preview" => m.receipt.file = Nothing
        BY <1>1 DEF Advancing
      <3>3. QED BY <1>1, <2>1, <2>2, <3>1, <3>2 DEF MediaEnded
    <2>5. SourceUnchanged(t) = SourceUnchanged(m) /\ StageIntact(t) = StageIntact(m)
          /\ Seen(t, "partial") = Seen(m, "partial") /\ Seen(t, "source") = Seen(m, "source")
      BY <2>2 DEF SourceUnchanged, StageIntact, Seen
    <2>6. SourceUnchanged(m) => Seen(m, "source") = m.pinned.version
      BY DEF SourceUnchanged
    <2>7. SourceUnchanged(t) /\ t.phase # "preview" => t.read \subseteq {t.pinned.version}
      BY <1>1, <2>1, <2>2, <2>5, <2>6 DEF Advancing
    <2>8. (t.phase \in Encoding \/ Busy(t, "encode")) => t.pinned.version \in t.read
      BY <1>1, <2>1, <2>2, <2>5, <2>6 DEF Advancing, Busy, ReadsSource
    <2>9. t.phase \in Untested => t.tested = {}
      BY <1>1, <2>1, <2>2 DEF Advancing, Untested, ReadsStage
    <2>10. (t.phase \in {"decode", "publish", "hash"} \/ Busy(t, "verify")) =>
              /\ t.stamp \in t.tested
              /\ StageIntact(t) /\ Seen(t, "partial") = t.stamp => t.tested = {t.stamp}
      BY <1>1, <2>1, <2>2, <2>5 DEF Advancing, Busy, JobPhases, ReadsStage
    <2>11. Advancing(t)
      BY <1>1, <2>1, <2>2, <2>7, <2>8, <2>9, <2>10 DEF Advancing, JobPhases
    <2>12. Spares(m, t)
      BY <2>2 DEF Spares
    <2>13. QED BY <2>3, <2>4, <2>11, <2>12 DEF MediaInv
  <1>4. QED BY <1>2, <1>3

\* A job that ended well: the operation goes on.
Followed == {<<"probe", "sheet">>, <<"probe", "sample">>, <<"sample", "output">>,
             <<"encoders", "stage">>, <<"verify", "decode">>, <<"decode", "publish">>}
LEMMA EndKeeps ==
  ASSUME NEW m, MediaInv(m), m.result = "none", m.job.child = "running",
         NEW j \in UNION {JobSettled(m, how) : how \in {"ok", "failed", "unconfirmed"}}, j.ok,
         NEW kind, NEW next, <<kind, next>> \in Followed, m.job.kind = kind
  PROVE  MediaInv(Go(j.m, next)) /\ Spares(m, Go(j.m, next))
  <1> DEFINE t == Go(j.m, next)
  <1>1. DOMAIN m = MediaFields /\ MediaShape(m) /\ Apart(m) /\ MediaEnded(m) /\ Advancing(m)
        /\ m.phase = kind
    BY DEF MediaInv, MediaShape, Advancing
  <1>2. Alike(m, j.m, {"job"}) /\ j.m.job.child = "reaped" /\ Sound(j.m)
    BY <1>1, JobSettledFacts DEF Sound
  <1>3. Alike(m, t, {"job", "phase"}) /\ t.job = j.m.job /\ t.phase = next
    BY <1>1, <1>2 DEF Go, Alike, MediaFields
  <1>4. /\ DOMAIN t = MediaFields /\ t.names = m.names /\ t.version = m.version /\ t.clock = m.clock
        /\ t.stage = m.stage /\ t.receipt = m.receipt /\ t.pinned = m.pinned /\ t.stamp = m.stamp
        /\ t.result = m.result /\ t.hash = m.hash /\ t.read = m.read /\ t.tested = m.tested
    BY <1>1, <1>3 DEF Alike, MediaFields
  <1>5. /\ j.m.names = m.names /\ j.m.version = m.version /\ j.m.clock = m.clock
        /\ j.m.stage = m.stage /\ j.m.receipt = m.receipt /\ j.m.pinned = m.pinned /\ j.m.stamp = m.stamp
        /\ j.m.result = m.result /\ j.m.hash = m.hash /\ j.m.read = m.read /\ j.m.tested = m.tested
    BY <1>1, <1>2 DEF Alike, MediaFields
  <1>6. MediaShape(t)
    BY <1>2, <1>3, <1>4, <1>5 DEF Sound, MediaShape
  <1>7. Apart(t)
    BY <1>2, <1>3, <1>4, <1>5 DEF Sound, Apart
  <1>8. MediaEnded(t)
    BY <1>2, <1>3, <1>4, <1>5 DEF Sound, MediaEnded
  <1>9. SourceUnchanged(t) = SourceUnchanged(m) /\ StageIntact(t) = StageIntact(m)
        /\ Seen(t, "partial") = Seen(m, "partial")
    BY <1>4 DEF SourceUnchanged, StageIntact, Seen
  <1>10. \/ kind \in {"probe", "sample", "encoders"} /\ next \in {"sheet", "sample", "output", "stage"}
         \/ kind = "verify" /\ next = "decode"
         \/ kind = "decode" /\ next = "publish"
    BY DEF Followed
  <1>11. Advancing(t)
    BY <1>1, <1>2, <1>3, <1>4, <1>9, <1>10 DEF Advancing, Untested, Encoding, Busy
  <1>12. Spares(m, t)
    BY <1>4 DEF Spares
  <1>13. QED BY <1>6, <1>7, <1>8, <1>11, <1>12 DEF MediaInv

\* A job that ended badly, or whose result is not taken: the operation fails.
LEMMA EndFails ==
  ASSUME NEW m, MediaInv(m), m.result = "none", m.job.child = "running", m.phase # "preview",
         NEW j \in UNION {JobSettled(m, how) : how \in {"ok", "failed", "unconfirmed"}},
         NEW issue \in BOOLEAN, ~j.ok => issue = j.issue, NEW t \in Fail(j.m, issue)
  PROVE  MediaInv(t) /\ Spares(m, t)
  <1>1. DOMAIN m = MediaFields /\ Sound(m) /\ m.receipt.file = Nothing
    BY DEF MediaInv, Sound, MediaShape, Advancing
  <1>2. Alike(m, j.m, {"job"}) /\ Sound(j.m) /\ (j.m.job.child = "loose" => issue)
    BY <1>1, JobSettledFacts
  <1>3. j.m.receipt = m.receipt /\ j.m.names = m.names /\ j.m.version = m.version /\ j.m.stage = m.stage
    BY <1>1, <1>2 DEF Alike, MediaFields
  <1>4. MediaInv(t) /\ Spares(j.m, t)
    BY <1>1, <1>2, <1>3, FailKeeps, FailSpares DEF Sound
  <1>5. QED BY <1>3, <1>4 DEF Spares

\* An operation that ends with an answer.
LEMMA ConcludeKeeps ==
  ASSUME NEW m, Sound(m), m.result = "none", NEW how,
         how \in {"sheet", "report"} \/ (how = "exists" /\ m.receipt.file = Nothing)
           \/ (how = "exported" /\ m.receipt.file # Nothing)
  PROVE  MediaInv(Conclude(m, how)) /\ Spares(m, Conclude(m, how))
  <1> DEFINE t == Conclude(m, how)
  <1>1. DOMAIN m = MediaFields
    BY DEF Sound, MediaShape
  <1>2. Alike(m, t, {"result", "phase"}) /\ t.result = how
    BY <1>1 DEF Conclude, Alike, MediaFields
  <1>3. /\ DOMAIN t = MediaFields /\ t.names = m.names /\ t.version = m.version /\ t.clock = m.clock
        /\ t.stage = m.stage /\ t.receipt = m.receipt /\ t.pinned = m.pinned /\ t.stamp = m.stamp
        /\ t.hash = m.hash /\ t.read = m.read /\ t.tested = m.tested /\ t.job = m.job
    BY <1>1, <1>2 DEF Alike, MediaFields
  <1>4. MediaShape(t) /\ Apart(t)
    BY <1>3 DEF Sound, MediaShape, Apart
  <1>5. MediaEnded(t)
    BY <1>2, <1>3 DEF Sound, MediaEnded
  <1>6. Spares(m, t)
    BY <1>3 DEF Spares
  <1>7. QED BY <1>2, <1>4, <1>5, <1>6 DEF MediaInv

LEMMA ConcludedJob ==
  ASSUME NEW m, Sound(m), m.result = "none", m.job.child = "running",
         NEW j \in UNION {JobSettled(m, how) : how \in {"ok", "failed", "unconfirmed"}},
         NEW how \in {"sheet", "report"}
  PROVE  MediaInv(Conclude(j.m, how)) /\ Spares(m, Conclude(j.m, how))
  <1>1. DOMAIN m = MediaFields
    BY DEF Sound, MediaShape
  <1>2. Alike(m, j.m, {"job"}) /\ Sound(j.m)
    BY JobSettledFacts
  <1>3. j.m.result = m.result /\ j.m.names = m.names /\ j.m.version = m.version /\ j.m.stage = m.stage
    BY <1>1, <1>2 DEF Alike, MediaFields
  <1>4. MediaInv(Conclude(j.m, how)) /\ Spares(j.m, Conclude(j.m, how))
    BY <1>2, <1>3, ConcludeKeeps
  <1>5. QED BY <1>3, <1>4 DEF Spares

\* OBS says where recordings go: the source is pinned, or the output is free.
LEMMA DirectoryKeeps ==
  ASSUME MediaInv(media), NEW phase \in {"directory", "output"}, DirectoryAnswers(phase)
  PROVE  MediaInv(media') /\ Spares(media, media')
  <1> DEFINE pin == [file |-> media.names["source"], version |-> Seen(media, "source")]
             first == [media EXCEPT !.pinned = pin]
  <1>1. media.result = "none" /\ media.phase = phase /\ media.job.child # "running"
    BY DEF DirectoryAnswers, Resting, At, Working
  <1>2. DOMAIN media = MediaFields /\ Sound(media) /\ Advancing(media) /\ MediaShape(media) /\ Apart(media)
        /\ media.receipt.file = Nothing /\ media.job.child # "loose"
    BY <1>1 DEF MediaInv, MediaShape, Sound, Advancing
  <1>3. \/ media' \in Fail(media, FALSE)
        \/ phase = "directory" /\ media.names["source"] # Nothing /\ media' = Go(first, "probe")
        \/ media' = Conclude(media, "exists")
        \/ phase = "output" /\ media' = Go(media, "encoders")
    BY DEF DirectoryAnswers, Pinned
  <1>4. CASE media' \in Fail(media, FALSE)
    BY <1>2, <1>4, FailKeeps, FailSpares
  <1>5. CASE media' = Conclude(media, "exists")
    BY <1>1, <1>2, <1>5, ConcludeKeeps
  <1>6. CASE phase = "directory" /\ media.names["source"] # Nothing /\ media' = Go(first, "probe")
    <2>1. /\ Alike(media, media', {"pinned", "phase"}) /\ media'.phase = "probe"
          /\ media'.pinned.file = media.names["source"] /\ media'.pinned.version = Seen(media, "source")
      BY <1>2, <1>6 DEF Go, Alike, MediaFields
    <2>2. /\ DOMAIN media' = MediaFields /\ media'.names = media.names /\ media'.version = media.version
          /\ media'.clock = media.clock /\ media'.stage = media.stage /\ media'.receipt = media.receipt
          /\ media'.stamp = media.stamp /\ media'.hash = media.hash /\ media'.read = media.read
          /\ media'.tested = media.tested /\ media'.job = media.job /\ media'.result = media.result
      BY <1>2, <2>1 DEF Alike, MediaFields
    <2>3. MediaShape(media') /\ Apart(media')
      <3>1. Seen(media, "source") \in 0..media.clock
        BY <1>2, SeenFacts DEF Names
      <3>2. media.names["source"] \in Files(media.version) /\ media.stamp \in 0..media.clock
            /\ media.job.target \in Files(media.version) /\ DOMAIN media.job = JobFields
        BY <1>2 DEF MediaShape, Names
      <3>3. QED BY <1>2, <2>1, <2>2, <3>1, <3>2, SameDisk
    <2>4. MediaEnded(media')
      BY <1>1, <1>2, <2>2 DEF MediaEnded, Sound
    <2>5. Advancing(media')
      BY <1>1, <1>2, <1>6, <2>1, <2>2 DEF Advancing, Untested, Encoding, Busy
    <2>6. QED BY <2>2, <2>3, <2>4, <2>5 DEF MediaInv, Spares
  <1>7. CASE phase = "output" /\ media' = Go(media, "encoders")
    <2>1. Alike(media, media', {"phase"}) /\ media'.phase = "encoders"
      BY <1>2, <1>7 DEF Go, Alike, MediaFields
    <2>2. /\ DOMAIN media' = MediaFields /\ media'.names = media.names /\ media'.version = media.version
          /\ media'.clock = media.clock /\ media'.stage = media.stage /\ media'.receipt = media.receipt
          /\ media'.stamp = media.stamp /\ media'.hash = media.hash /\ media'.read = media.read
          /\ media'.tested = media.tested /\ media'.job = media.job /\ media'.result = media.result
          /\ media'.pinned = media.pinned
      BY <1>2, <2>1 DEF Alike, MediaFields
    <2>3. MediaShape(media') /\ Apart(media') /\ MediaEnded(media')
      BY <1>1, <1>2, <2>2 DEF MediaShape, Apart, MediaEnded, Sound
    <2>4. SourceUnchanged(media') = SourceUnchanged(media)
      BY <2>2 DEF SourceUnchanged, Seen
    <2>5. Advancing(media')
      BY <1>1, <1>2, <1>7, <2>1, <2>2, <2>4 DEF Advancing, Untested, Encoding, Busy
    <2>6. QED BY <2>2, <2>3, <2>5 DEF MediaInv, Spares
  <1>8. QED BY <1>3, <1>4, <1>5, <1>6, <1>7

\* The jobs before the export.
LEMMA ReadingKeeps ==
  ASSUME MediaInv(media),
         \/ ProbeSource \/ Probed \/ DrawSheet \/ SheetDrawn \/ SampleSource \/ SourceSampled
         \/ QueryEncoders \/ EncodersKnown \/ Decode \/ Decoded
  PROVE  MediaInv(media') /\ Spares(media, media')
  <1>1. ASSUME NEW kind \in {"probe", "sheet", "encoders", "decode"}, BeginJob(kind, kind)
        PROVE  MediaInv(media') /\ Spares(media, media')
    BY <1>1, BeginKeeps DEF BeginJob, Resting, At, Working, JobPhases
  <1>2. CASE SampleSource
    <2>1. media.result = "none" /\ media.phase = "sample" /\ media.job.child # "running"
      BY <1>2 DEF SampleSource, Resting, At, Working
    <2>2. Sound(media) /\ MediaShape(media) /\ media.receipt.file = Nothing /\ media.job.child # "loose"
      BY <2>1 DEF MediaInv, Sound, Advancing
    <2>3. CASE media' \in Fail(media, FALSE)
      BY <2>2, <2>3, FailKeeps, FailSpares
    <2>4. CASE media' \in Spawned(media, "sample")
      BY <2>1, <2>4, BeginKeeps DEF JobPhases
    <2>5. QED BY <1>2, <2>3, <2>4 DEF SampleSource
  <1>3. CASE Probed
    <2>1. media.result = "none" /\ media.job.kind = "probe" /\ media.job.child = "running"
      BY <1>3 DEF Probed, Running, Working
    <2>2. media.phase = "probe"
      BY <2>1 DEF MediaInv, Advancing
    <2>3. PICK j \in JobResults("probe") :
            \/ \E issue \in BOOLEAN : (~j.ok => issue = j.issue) /\ media' \in Fail(j.m, issue)
            \/ j.ok /\ \E next \in {"sheet", "sample"} : media' = Go(j.m, next)
      <3>1. \A j \in JobResults("probe") : j.issue \in BOOLEAN
        BY <2>1, JobSettledFacts DEF JobResults, MediaInv, Sound
      <3>2. QED BY <1>3, <3>1 DEF Probed
    <2>4. j \in UNION {JobSettled(media, how) : how \in {"ok", "failed", "unconfirmed"}}
      BY DEF JobResults
    <2>5. CASE \E issue \in BOOLEAN : (~j.ok => issue = j.issue) /\ media' \in Fail(j.m, issue)
      BY <2>1, <2>2, <2>4, <2>5, EndFails
    <2>6. CASE j.ok /\ \E next \in {"sheet", "sample"} : media' = Go(j.m, next)
      <3>1. PICK next \in {"sheet", "sample"} : media' = Go(j.m, next)
        BY <2>6
      <3>2. <<"probe", next>> \in Followed
        BY DEF Followed
      <3>3. QED BY <2>1, <2>4, <2>6, <3>1, <3>2, EndKeeps
    <2>7. QED BY <2>3, <2>5, <2>6
  <1>4. CASE SheetDrawn
    <2>1. media.result = "none" /\ media.job.kind = "sheet" /\ media.job.child = "running"
      BY <1>4 DEF SheetDrawn, Running, Working
    <2>2. media.phase = "sheet" /\ Sound(media)
      BY <2>1 DEF MediaInv, Advancing, Sound
    <2>3. PICK j \in JobResults("sheet") :
            \/ \E issue \in BOOLEAN : (~j.ok => issue = j.issue) /\ media' \in Fail(j.m, issue)
            \/ j.ok /\ media' = Conclude(j.m, "sheet")
      <3>1. \A j \in JobResults("sheet") : j.issue \in BOOLEAN
        BY <2>1, <2>2, JobSettledFacts DEF JobResults
      <3>2. QED BY <1>4, <3>1 DEF SheetDrawn, IfUnchanged
    <2>4. j \in UNION {JobSettled(media, how) : how \in {"ok", "failed", "unconfirmed"}}
      BY DEF JobResults
    <2>5. CASE \E issue \in BOOLEAN : (~j.ok => issue = j.issue) /\ media' \in Fail(j.m, issue)
      BY <2>1, <2>2, <2>4, <2>5, EndFails
    <2>6. CASE media' = Conclude(j.m, "sheet")
      BY <2>1, <2>2, <2>4, <2>6, ConcludedJob
    <2>7. QED BY <2>3, <2>5, <2>6
  <1>5. CASE SourceSampled
    <2>1. media.result = "none" /\ media.job.kind = "sample" /\ media.job.child = "running"
      BY <1>5 DEF SourceSampled, Running, Working
    <2>2. media.phase = "sample" /\ Sound(media)
      BY <2>1 DEF MediaInv, Advancing, Sound
    <2>3. PICK j \in JobResults("sample") :
            \/ \E issue \in BOOLEAN : (~j.ok => issue = j.issue) /\ media' \in Fail(j.m, issue)
            \/ j.ok /\ media' = Go(j.m, "output")
            \/ j.ok /\ media' = Conclude(j.m, "report")
      <3>1. \A j \in JobResults("sample") : j.issue \in BOOLEAN
        BY <2>1, <2>2, JobSettledFacts DEF JobResults
      <3>2. QED BY <1>5, <3>1 DEF SourceSampled, IfUnchanged
    <2>4. j \in UNION {JobSettled(media, how) : how \in {"ok", "failed", "unconfirmed"}}
      BY DEF JobResults
    <2>5. CASE \E issue \in BOOLEAN : (~j.ok => issue = j.issue) /\ media' \in Fail(j.m, issue)
      BY <2>1, <2>2, <2>4, <2>5, EndFails
    <2>6. CASE j.ok /\ media' = Go(j.m, "output")
      <3>1. <<"sample", "output">> \in Followed
        BY DEF Followed
      <3>2. QED BY <2>1, <2>4, <2>6, <3>1, EndKeeps
    <2>7. CASE media' = Conclude(j.m, "report")
      BY <2>1, <2>2, <2>4, <2>7, ConcludedJob
    <2>8. QED BY <2>3, <2>5, <2>6, <2>7
  <1>6. CASE EncodersKnown
    <2>1. media.result = "none" /\ media.job.kind = "encoders" /\ media.job.child = "running"
      BY <1>6 DEF EncodersKnown, Running, Working
    <2>2. media.phase = "encoders" /\ Sound(media)
      BY <2>1 DEF MediaInv, Advancing, Sound
    <2>3. PICK j \in JobResults("encoders") :
            \/ \E issue \in BOOLEAN : (~j.ok => issue = j.issue) /\ media' \in Fail(j.m, issue)
            \/ j.ok /\ media' = Go(j.m, "stage")
      <3>1. \A j \in JobResults("encoders") : j.issue \in BOOLEAN
        BY <2>1, <2>2, JobSettledFacts DEF JobResults
      <3>2. QED BY <1>6, <3>1 DEF EncodersKnown, IfUnchanged
    <2>4. j \in UNION {JobSettled(media, how) : how \in {"ok", "failed", "unconfirmed"}}
      BY DEF JobResults
    <2>5. CASE \E issue \in BOOLEAN : (~j.ok => issue = j.issue) /\ media' \in Fail(j.m, issue)
      BY <2>1, <2>2, <2>4, <2>5, EndFails
    <2>6. CASE j.ok /\ media' = Go(j.m, "stage")
      <3>1. <<"encoders", "stage">> \in Followed
        BY DEF Followed
      <3>2. QED BY <2>1, <2>4, <2>6, <3>1, EndKeeps
    <2>7. QED BY <2>3, <2>5, <2>6
  <1>7. CASE Decoded
    <2>1. media.result = "none" /\ media.job.kind = "decode" /\ media.job.child = "running"
      BY <1>7 DEF Decoded, Running, Working
    <2>2. media.phase = "decode" /\ Sound(media)
      BY <2>1 DEF MediaInv, Advancing, Sound
    <2>3. PICK j \in JobResults("decode") :
            \/ \E issue \in BOOLEAN : (~j.ok => issue = j.issue) /\ media' \in Fail(j.m, issue)
            \/ j.ok /\ media' = Go(j.m, "publish")
      <3>1. \A j \in JobResults("decode") : j.issue \in BOOLEAN
        BY <2>1, <2>2, JobSettledFacts DEF JobResults
      <3>2. QED BY <1>7, <3>1 DEF Decoded
    <2>4. j \in UNION {JobSettled(media, how) : how \in {"ok", "failed", "unconfirmed"}}
      BY DEF JobResults
    <2>5. CASE \E issue \in BOOLEAN : (~j.ok => issue = j.issue) /\ media' \in Fail(j.m, issue)
      BY <2>1, <2>2, <2>4, <2>5, EndFails
    <2>6. CASE j.ok /\ media' = Go(j.m, "publish")
      <3>1. <<"decode", "publish">> \in Followed
        BY DEF Followed
      <3>2. QED BY <2>1, <2>4, <2>6, <3>1, EndKeeps
    <2>7. QED BY <2>3, <2>5, <2>6
  <1>8. QED BY <1>1, <1>2, <1>3, <1>4, <1>5, <1>6, <1>7
             DEF ProbeSource, DrawSheet, QueryEncoders, Decode

\* The partial file gets a name that was free and a file that is new.
LEMMA ReserveKeeps ==
  ASSUME MediaInv(media), ReserveStage
  PROVE  MediaInv(media') /\ Spares(media, media')
  <1> DEFINE file == Cardinality(DOMAIN media.version) + 1
             w == Written(media, file)
  <1>1. media.result = "none" /\ media.phase = "stage" /\ media.job.child # "running"
    BY DEF ReserveStage, Resting, At, Working
  <1>2. DOMAIN media = MediaFields /\ Sound(media) /\ Advancing(media) /\ MediaShape(media) /\ Apart(media)
        /\ media.receipt.file = Nothing /\ media.job.child # "loose"
    BY <1>1 DEF MediaInv, MediaShape, Sound, Advancing
  <1>3. CASE media' \in Fail(media, FALSE)
    BY <1>2, <1>3, FailKeeps, FailSpares
  <1>4. CASE /\ media.names["partial"] = Nothing
             /\ media' = Go([w EXCEPT !.names["partial"] = file, !.stage = file], "encode")
    <2>1. /\ Alike(media, w, {"clock", "version"}) /\ w.clock = media.clock + 1
          /\ DOMAIN w.version = DOMAIN media.version \union {file}
          /\ \A g \in DOMAIN media.version : g # file => w.version[g] = media.version[g]
          /\ MediaShape(w) /\ file # 0
      BY <1>2, WrittenFacts
    <2>2. w.names = media.names
      BY <1>2, <2>1 DEF Alike, MediaFields
    <2>3. /\ Alike(w, media', {"names", "stage", "phase"}) /\ media'.stage = file /\ media'.phase = "encode"
          /\ media'.names = [media.names EXCEPT !["partial"] = file]
      BY <1>2, <1>4, <2>1, <2>2 DEF Go, Alike, MediaFields
    <2>4. Alike(media, media', {"clock", "version", "names", "stage", "phase"})
          /\ media'.version = w.version /\ media'.clock = media.clock + 1
      BY <1>2, <2>1, <2>3 DEF Alike, MediaFields
    <2>5. /\ media'.receipt = media.receipt /\ media'.pinned = media.pinned
          /\ media'.stamp = media.stamp /\ media'.hash = media.hash /\ media'.read = media.read
          /\ media'.tested = media.tested /\ media'.job = media.job /\ media'.result = media.result
          /\ DOMAIN media' = MediaFields
      BY <1>2, <2>4 DEF Alike, MediaFields
    <2>6. DOMAIN media.names = Names /\ file \notin Files(media.version) /\ media.clock \in Nat
      BY <1>2 DEF MediaShape, Numbered, Files
    <2>7. media'.names["partial"] = file /\ DOMAIN media'.names = Names
          /\ \A x \in Names \ {"partial"} : media'.names[x] = media.names[x]
      BY <2>3, <2>6 DEF Names
    <2>8. MediaShape(media')
      <3>1. w.stamp = media.stamp /\ w.pinned = media.pinned /\ w.job = media.job
        BY <1>2, <2>1 DEF Alike, MediaFields
      <3>2. file \in Files(media'.version)
        BY <2>1, <2>4 DEF Files
      <3>3. \A x \in Names : media'.names[x] \in Files(media'.version)
        BY <2>1, <2>2, <2>4, <2>7, <3>2 DEF MediaShape
      <3>4. QED BY <2>1, <2>3, <2>4, <2>5, <2>7, <3>1, <3>2, <3>3 DEF MediaShape
    <2>9. Apart(media')
      <3>1. \A x \in Names \ {"partial"} : media'.names[x] # file
        BY <1>2, <2>6, <2>7 DEF MediaShape
      <3>2. \A x, y \in Names : x # y /\ media'.names[x] = media'.names[y] => media'.names[x] = Nothing
        BY <1>2, <2>5, <2>7, <3>1 DEF Apart
      <3>3. media'.names["output"] # media'.stage
        BY <2>3, <3>1 DEF Names
      <3>4. media'.job.child # "running"
        BY <1>1, <2>5
      <3>5. QED BY <3>2, <3>3, <3>4 DEF Apart
    <2>10. MediaEnded(media')
      BY <1>1, <1>2, <2>5 DEF Sound, MediaEnded
    <2>11. SourceUnchanged(media') => SourceUnchanged(media)
      <3>1. media'.names["source"] = media.names["source"]
        BY <2>7 DEF Names
      <3>2. media.names["source"] # Nothing =>
              media.names["source"] \in DOMAIN media.version /\ media.names["source"] # file
        BY <1>2, <2>6, SeenFacts DEF Names, Files
      <3>3. QED BY <2>1, <2>4, <2>5, <3>1, <3>2 DEF SourceUnchanged, Seen
    <2>12. Advancing(media')
      BY <1>1, <1>2, <2>3, <2>5, <2>11 DEF Advancing, Untested, Encoding, Busy
    <2>13. Spares(media, media')
      <3>1. \A x \in Names : media.names[x] # Nothing =>
              media.names[x] \in DOMAIN media.version /\ media.names[x] # file
        BY <1>2, <2>6, SeenFacts DEF Files
      <3>2. QED BY <1>4, <2>1, <2>4, <2>7, <3>1 DEF Spares, Names
    <2>14. QED BY <2>8, <2>9, <2>10, <2>12, <2>13 DEF MediaInv
  <1>5. QED BY <1>3, <1>4 DEF ReserveStage

\* An export refused between its stage and its encoder leaves as one that
\* failed, but for what is said of the cleanup.
LEMMA RefuseKeeps ==
  ASSUME MediaInv(media), RefuseExport
  PROVE  MediaInv(media') /\ Spares(media, media')
  <1>1. media.result = "none" /\ media.phase = "encode" /\ media.job.child # "running"
    BY DEF RefuseExport, Resting, At, Working
  <1>2. DOMAIN media = MediaFields /\ Sound(media) /\ MediaShape(media)
        /\ media.receipt.file = Nothing /\ media.job.child # "loose"
    BY <1>1 DEF MediaInv, MediaShape, Sound, Advancing
  <1>3. PICK c \in Cleanup(media) : media' = Go(Conclude(c.m, "failed"), "gone")
    BY DEF RefuseExport
  <1> DEFINE f == [Conclude(c.m, "failed") EXCEPT !.unconfirmed = FALSE \/ ~c.gone]
  <1>4. f \in Fail(media, FALSE)
    BY DEF Fail
  <1>5. MediaInv(f) /\ Spares(media, f)
    BY <1>2, <1>4, FailKeeps, FailSpares
  <1>6. Alike(media, c.m, {"names"})
    BY <1>2, CleanupFacts
  <1>7. /\ Alike(f, media', {"phase", "unconfirmed"}) /\ DOMAIN f = MediaFields
        /\ f.result = "failed" /\ f.job = media.job
    BY <1>2, <1>3, <1>6 DEF Go, Conclude, Alike, MediaFields
  <1>8. /\ DOMAIN media' = MediaFields /\ media'.names = f.names /\ media'.version = f.version
        /\ media'.clock = f.clock /\ media'.stage = f.stage /\ media'.receipt = f.receipt
        /\ media'.stamp = f.stamp /\ media'.pinned = f.pinned /\ media'.read = f.read
        /\ media'.tested = f.tested /\ media'.job = f.job /\ media'.result = f.result
        /\ media'.hash = f.hash
    BY <1>7 DEF Alike, MediaFields
  <1>9. MediaShape(media') /\ Apart(media')
    BY <1>5, <1>8 DEF MediaInv, MediaShape, Apart
  <1>10. MediaEnded(media')
    BY <1>2, <1>5, <1>7, <1>8 DEF MediaInv, MediaEnded
  <1>11. Spares(media, media')
    BY <1>5, <1>8 DEF Spares
  <1>12. QED BY <1>7, <1>8, <1>9, <1>10, <1>11 DEF MediaInv

\* The encoder writes where the partial name led when it was started.
LEMMA EncodedKeeps ==
  ASSUME MediaInv(media), Encoded
  PROVE  MediaInv(media') /\ Spares(media, media')
  <1>1. media.result = "none" /\ media.job.kind = "encode" /\ media.job.child = "running"
    BY DEF Encoded, Running, Working
  <1>2. DOMAIN media = MediaFields /\ Sound(media) /\ Advancing(media) /\ MediaShape(media) /\ Apart(media)
        /\ media.phase = "encode" /\ media.receipt.file = Nothing
    BY <1>1 DEF MediaInv, MediaShape, Sound, Advancing
  <1>3. PICK j \in JobResults("encode") :
          \E issue \in BOOLEAN :
             /\ ~j.ok => issue = j.issue
             /\ \/ media' \in Fail(Written(j.m, j.m.job.target), issue)
                \/ j.ok /\ media' = Go(Written(j.m, j.m.job.target), "verify")
    <2>1. \A j \in JobResults("encode") : j.issue \in BOOLEAN
      BY <1>1, <1>2, JobSettledFacts DEF JobResults
    <2>2. QED BY <2>1 DEF Encoded, IfNotCancelled
  <1>4. PICK issue \in BOOLEAN :
             /\ ~j.ok => issue = j.issue
             /\ \/ media' \in Fail(Written(j.m, j.m.job.target), issue)
                \/ j.ok /\ media' = Go(Written(j.m, j.m.job.target), "verify")
    BY <1>3
  <1> DEFINE f == media.job.target
             w == Written(j.m, f)
  <1>5. /\ Alike(media, j.m, {"job"}) /\ Alike(media.job, j.m.job, {"child", "work"})
        /\ j.m.job.child \in {"loose", "reaped"} /\ (j.m.job.child = "loose" => j.issue)
        /\ (j.ok => j.m.job.child = "reaped") /\ Sound(j.m)
    BY <1>1, <1>2, JobSettledFacts DEF JobResults
  <1>6. j.m.job.target = f /\ j.m.version = media.version /\ j.m.clock = media.clock
        /\ DOMAIN j.m = MediaFields /\ j.m.names = media.names /\ j.m.stage = media.stage
        /\ j.m.receipt = media.receipt /\ j.m.pinned = media.pinned /\ j.m.read = media.read
        /\ j.m.tested = media.tested /\ j.m.result = media.result
    BY <1>2, <1>5 DEF Alike, MediaFields, JobFields, MediaShape
  <1>7. f \in DOMAIN media.version
    BY <1>1, <1>2 DEF Apart, MediaShape, Files, Nothing
  <1>8. /\ Alike(j.m, w, {"clock", "version"}) /\ w.clock = media.clock + 1
        /\ DOMAIN w.version = DOMAIN media.version /\ w.version[f] = media.clock + 1
        /\ \A g \in DOMAIN media.version : g # f => w.version[g] = media.version[g]
        /\ MediaShape(w)
    <2>1. MediaShape(j.m) /\ f \in DOMAIN j.m.version
      BY <1>5, <1>6, <1>7 DEF Sound
    <2>2. /\ Alike(j.m, w, {"clock", "version"}) /\ w.clock = j.m.clock + 1
          /\ DOMAIN w.version = DOMAIN j.m.version \union {f} /\ w.version[f] = j.m.clock + 1
          /\ \A g \in DOMAIN j.m.version : g # f => w.version[g] = j.m.version[g]
          /\ MediaShape(w)
      BY <2>1, WrittenFacts
    <2>3. DOMAIN media.version \union {f} = DOMAIN media.version
      BY <1>7
    <2>4. QED BY <1>6, <2>2, <2>3
  <1>9. /\ w.names = media.names /\ w.stage = media.stage /\ w.receipt = media.receipt
        /\ w.pinned = media.pinned /\ w.read = media.read /\ w.tested = media.tested
        /\ w.result = media.result /\ w.job = j.m.job /\ DOMAIN w = MediaFields
    BY <1>6, <1>8 DEF Alike, MediaFields
  <1>10. Apart(w)
    BY <1>1, <1>2, <1>5, <1>9 DEF Apart
  <1>11. MediaEnded(w)
    BY <1>1, <1>2, <1>5, <1>6, <1>9 DEF Sound, MediaEnded
  <1>12. Spares(media, w)
    <2>1. media.names["source"] # f /\ media.names["output"] # f
      BY <1>1, <1>2 DEF Apart
    <2>2. \A x \in Names : media.names[x] # Nothing => media.names[x] \in DOMAIN media.version
      BY <1>2, SeenFacts
    <2>3. QED BY <1>8, <1>9, <2>1, <2>2 DEF Spares, Names
  <1>13. CASE media' \in Fail(w, issue)
    <2>1. MediaInv(media') /\ Spares(w, media')
      <3>1. w.job.child = "loose" => issue
        BY <1>4, <1>5, <1>9
      <3>2. QED BY <1>2, <1>8, <1>9, <1>10, <1>11, <1>13, <3>1, FailKeeps, FailSpares DEF Sound
    <2>2. Spares(media, media')
      BY <1>9, <1>12, <2>1 DEF Spares
    <2>3. QED BY <2>1, <2>2
  <1>14. CASE j.ok /\ media' = Go(w, "verify")
    <2>1. Alike(w, media', {"phase"}) /\ media'.phase = "verify"
      BY <1>9, <1>14 DEF Go, Alike, MediaFields
    <2>2. /\ media'.names = w.names /\ media'.stage = w.stage /\ media'.receipt = w.receipt
          /\ media'.pinned = w.pinned /\ media'.read = w.read /\ media'.tested = w.tested
          /\ media'.result = w.result /\ media'.job = w.job /\ media'.version = w.version
          /\ media'.clock = w.clock /\ media'.stamp = w.stamp /\ media'.hash = w.hash
          /\ DOMAIN media' = MediaFields
      BY <1>9, <2>1 DEF Alike, MediaFields
    <2>3. MediaShape(media') /\ Apart(media') /\ MediaEnded(media') /\ Spares(media, media')
      <3>1. MediaShape(media')
        BY <1>8, <2>2 DEF MediaShape
      <3>2. Apart(media')
        BY <1>10, <2>2 DEF Apart
      <3>3. MediaEnded(media') /\ Spares(media, media')
        BY <1>11, <1>12, <1>1, <1>9, <2>2 DEF MediaEnded, Spares
      <3>4. QED BY <3>1, <3>2, <3>3
    <2>4. SourceUnchanged(media') => SourceUnchanged(media)
      <3>1. media.names["source"] # f
        BY <1>1, <1>2 DEF Apart
      <3>2. media.names["source"] # Nothing => media.names["source"] \in DOMAIN media.version
        BY <1>2, SeenFacts DEF Names
      <3>3. QED BY <1>8, <1>9, <2>2, <3>1, <3>2 DEF SourceUnchanged, Seen
    <2>5. media.pinned.version \in media.read /\ media.tested = {}
      BY <1>1, <1>2 DEF Advancing, Busy, Untested
    <2>6. Advancing(media')
      BY <1>1, <1>2, <1>5, <1>9, <1>14, <2>1, <2>2, <2>4, <2>5 DEF Advancing, Untested, Encoding, Busy
    <2>7. QED BY <2>3, <2>6 DEF MediaInv
  <1>15. QED BY <1>4, <1>6, <1>13, <1>14

LEMMA StampedKeeps ==
  ASSUME NEW m, MediaInv(m), m.result = "none", m.phase = "verify", m.job.child # "running"
  PROVE  /\ MediaInv(Stamped(m)) /\ Alike(m, Stamped(m), {"stamp"})
         /\ Stamped(m).stamp = Seen(m, "partial")
  <1> DEFINE t == Stamped(m)
  <1>1. DOMAIN m = MediaFields /\ MediaShape(m) /\ Apart(m) /\ MediaEnded(m) /\ Advancing(m)
    BY DEF MediaInv, MediaShape
  <1>2. Alike(m, t, {"stamp"}) /\ t.stamp = Seen(m, "partial")
    BY <1>1 DEF Stamped, Alike, MediaFields
  <1>3. /\ DOMAIN t = MediaFields /\ t.names = m.names /\ t.version = m.version /\ t.clock = m.clock
        /\ t.stage = m.stage /\ t.receipt = m.receipt /\ t.pinned = m.pinned /\ t.phase = m.phase
        /\ t.hash = m.hash /\ t.read = m.read /\ t.tested = m.tested /\ t.job = m.job /\ t.result = m.result
    BY <1>1, <1>2 DEF Alike, MediaFields
  <1>4. Seen(m, "partial") \in 0..m.clock
    BY <1>1, SeenFacts DEF Names
  <1>5. MediaShape(t) /\ Apart(t) /\ MediaEnded(t)
    BY <1>1, <1>2, <1>3, <1>4 DEF MediaShape, Apart, MediaEnded
  <1>6. SourceUnchanged(t) = SourceUnchanged(m)
    BY <1>3 DEF SourceUnchanged, Seen
  <1>7. Advancing(t)
    BY <1>1, <1>3, <1>6 DEF Advancing, Busy
  <1>8. QED BY <1>2, <1>5, <1>7 DEF MediaInv

\* The encoder and the verification of what it wrote.
LEMMA VerifyKeeps ==
  ASSUME MediaInv(media), Encode \/ Verify \/ Verified
  PROVE  MediaInv(media') /\ Spares(media, media')
  <1>1. CASE Encode
    <2>1. media.result = "none" /\ media.phase = "encode" /\ media.job.child # "running"
      BY <1>1 DEF Encode, Resting, At, Working
    <2>2. Sound(media) /\ MediaShape(media) /\ media.receipt.file = Nothing /\ media.job.child # "loose"
      BY <2>1 DEF MediaInv, Sound, Advancing
    <2>3. CASE media' \in Fail(media, FALSE)
      BY <2>2, <2>3, FailKeeps, FailSpares
    <2>4. CASE SourceUnchanged(media) /\ media.names["partial"] # Nothing /\ media' \in Spawned(media, "encode")
      BY <2>1, <2>4, BeginKeeps DEF JobPhases
    <2>5. QED BY <1>1, <2>3, <2>4 DEF Encode
  <1>2. CASE Verify
    <2>1. media.result = "none" /\ media.phase = "verify" /\ media.job.child # "running"
      BY <1>2 DEF Verify, Resting, At, Working
    <2>2. DOMAIN media = MediaFields /\ Sound(media) /\ MediaShape(media) /\ media.receipt.file = Nothing
          /\ media.job.child # "loose"
      BY <2>1 DEF MediaInv, Sound, Advancing, MediaShape
    <2>3. CASE media' \in Fail(media, FALSE)
      BY <2>2, <2>3, FailKeeps, FailSpares
    <2>4. CASE media' \in Spawned(Stamped(media), "verify")
      <3> DEFINE m == Stamped(media)
      <3>1. MediaInv(m) /\ Alike(media, m, {"stamp"}) /\ m.stamp = Seen(media, "partial")
        BY <2>1, StampedKeeps
      <3>2. /\ m.result = "none" /\ m.phase = "verify" /\ m.job = media.job /\ m.names = media.names
            /\ m.version = media.version /\ m.stage = media.stage
        BY <2>1, <2>2, <3>1 DEF Alike, MediaFields
      <3>3. m.stamp = Seen(m, "partial")
        BY <3>1, <3>2 DEF Seen
      <3>4. MediaInv(media') /\ Spares(m, media')
        BY <2>1, <2>4, <3>1, <3>2, <3>3, BeginKeeps DEF JobPhases
      <3>5. QED BY <3>2, <3>4 DEF Spares
    <2>5. QED BY <1>2, <2>3, <2>4 DEF Verify
  <1>3. CASE Verified
    <2>1. media.result = "none" /\ media.job.kind = "verify" /\ media.job.child = "running"
      BY <1>3 DEF Verified, Running, Working
    <2>2. media.phase = "verify" /\ Sound(media)
      BY <2>1 DEF MediaInv, Advancing, Sound
    <2>3. PICK j \in JobResults("verify") :
            \/ media' \in Fail(j.m, j.issue)
            \/ j.ok /\ media' = Go(j.m, "decode")
      BY <1>3 DEF Verified
    <2>4. j \in UNION {JobSettled(media, how) : how \in {"ok", "failed", "unconfirmed"}}
      BY DEF JobResults
    <2>5. CASE media' \in Fail(j.m, j.issue)
      <3>1. j.issue \in BOOLEAN
        BY <2>1, <2>2, <2>4, JobSettledFacts
      <3>2. QED BY <2>1, <2>2, <2>4, <2>5, <3>1, EndFails
    <2>6. CASE j.ok /\ media' = Go(j.m, "decode")
      <3>1. <<"verify", "decode">> \in Followed
        BY DEF Followed
      <3>2. QED BY <2>1, <2>4, <2>6, <3>1, EndKeeps
    <2>7. QED BY <2>3, <2>5, <2>6
  <1>4. QED BY <1>1, <1>2, <1>3

\* From the last check to the end: the file that was verified gets its name.
LEMMA ConfirmKeeps ==
  ASSUME MediaInv(media), Confirm \/ Hash
  PROVE  MediaInv(media') /\ Spares(media, media')
  <1>1. media.result = "none" /\ media.phase \in {"publish", "hash"} /\ media.job.child # "running"
    BY DEF Confirm, Hash, Resting, At, Working
  <1>2. DOMAIN media = MediaFields /\ Sound(media) /\ Advancing(media) /\ MediaShape(media) /\ Apart(media)
        /\ MediaEnded(media) /\ media.receipt.file = Nothing /\ media.job.child # "loose"
    BY <1>1 DEF MediaInv, MediaShape, Sound, Advancing
  <1>3. CASE media' \in Fail(media, FALSE)
    BY <1>2, <1>3, FailKeeps, FailSpares
  <1>4. ASSUME Alike(media, media', {"phase", "hash"})
        PROVE  /\ MediaShape(media') /\ Apart(media') /\ Spares(media, media') /\ MediaEnded(media')
               /\ media'.read = media.read /\ media'.tested = media.tested /\ media'.job = media.job
               /\ media'.receipt = media.receipt /\ media'.pinned = media.pinned /\ media'.stamp = media.stamp
               /\ media'.result = media.result /\ SourceUnchanged(media') = SourceUnchanged(media)
               /\ StageIntact(media') = StageIntact(media)
               /\ Seen(media', "partial") = Seen(media, "partial")
    <2>1. /\ DOMAIN media' = MediaFields /\ media'.names = media.names /\ media'.version = media.version
          /\ media'.clock = media.clock /\ media'.stage = media.stage /\ media'.receipt = media.receipt
          /\ media'.stamp = media.stamp /\ media'.pinned = media.pinned /\ media'.read = media.read
          /\ media'.tested = media.tested /\ media'.job = media.job /\ media'.result = media.result
      BY <1>2, <1>4 DEF Alike, MediaFields
    <2>2. MediaShape(media') /\ Apart(media')
      BY <1>2, <2>1 DEF MediaShape, Apart
    <2>3. Spares(media, media') /\ MediaEnded(media')
      BY <1>1, <1>2, <2>1 DEF MediaEnded, Spares
    <2>4. SourceUnchanged(media') = SourceUnchanged(media) /\ StageIntact(media') = StageIntact(media)
          /\ Seen(media', "partial") = Seen(media, "partial")
      BY <2>1 DEF SourceUnchanged, StageIntact, Seen
    <2>5. QED BY <2>1, <2>2, <2>3, <2>4
  <1>5. CASE media.phase = "publish" /\ SourceUnchanged(media) /\ media' = Go(media, "hash")
    <2>1. Alike(media, media', {"phase", "hash"}) /\ media'.phase = "hash"
      BY <1>2, <1>5 DEF Go, Alike, MediaFields
    <2>2. media.read = {media.pinned.version}
      BY <1>2, <1>5 DEF Advancing, Encoding
    <2>3. Advancing(media')
      BY <1>1, <1>2, <1>4, <1>5, <2>1, <2>2 DEF Advancing, Untested, Encoding, Busy
    <2>4. QED BY <1>4, <2>1, <2>3 DEF MediaInv
  <1>6. CASE /\ media.phase = "hash" /\ StageIntact(media) /\ Seen(media, "partial") = media.stamp
             /\ media' = Go([media EXCEPT !.hash = Seen(media, "partial")], "link")
    <2>1. Alike(media, media', {"phase", "hash"}) /\ media'.phase = "link" /\ media'.hash = media.stamp
      BY <1>2, <1>6 DEF Go, Alike, MediaFields
    <2>2. media.tested = {media.stamp}
      BY <1>2, <1>6 DEF Advancing
    <2>3. Advancing(media')
      BY <1>1, <1>2, <1>4, <1>6, <2>1, <2>2 DEF Advancing, Untested, Encoding, Busy
    <2>4. QED BY <1>4, <2>1, <2>3 DEF MediaInv
  <1>7. CASE Confirm
    <2>1. media.phase = "publish"
      BY <1>7 DEF Confirm, Resting, At
    <2>2. QED BY <1>3, <1>5, <1>7, <2>1 DEF Confirm
  <1>8. CASE Hash
    <2>1. media.phase = "hash"
      BY <1>8 DEF Hash, Resting, At
    <2>2. QED BY <1>3, <1>6, <1>8, <2>1 DEF Hash
  <1>9. QED BY <1>7, <1>8

LEMMA PublishKeeps ==
  ASSUME MediaInv(media), PublishExport
  PROVE  MediaInv(media') /\ Spares(media, media')
  <1>1. media.result = "none" /\ media.phase = "link" /\ media.job.child # "running"
    BY DEF PublishExport, Resting, At, Working
  <1>2. DOMAIN media = MediaFields /\ Sound(media) /\ Advancing(media) /\ MediaShape(media) /\ Apart(media)
        /\ MediaEnded(media) /\ media.receipt.file = Nothing /\ media.job.child # "loose"
    BY <1>1 DEF MediaInv, MediaShape, Sound, Advancing
  <1>3. CASE media' \in Fail(media, FALSE)
    BY <1>2, <1>3, FailKeeps, FailSpares
  <1> DEFINE l == Linked(media)
  <1>4. CASE /\ StageIntact(media) /\ Seen(media, "partial") = media.hash
             /\ media.names["output"] = Nothing
             /\ \E c \in Cleanup(l) : media' = [Go(c.m, "preview") EXCEPT !.warned = ~c.gone]
    <2>1. PICK c \in Cleanup(l) : media' = [Go(c.m, "preview") EXCEPT !.warned = ~c.gone]
      BY <1>4
    <2>2. PICK r : r = [file |-> media.stage, version |-> Seen(media, "partial")]
      OBVIOUS
    <2>3. l = [media EXCEPT !.names["output"] = media.stage, !.receipt = r]
      BY <2>2 DEF Linked
    <2>4. /\ Alike(media, l, {"names", "receipt"}) /\ l.receipt = r
          /\ l.names = [media.names EXCEPT !["output"] = media.stage]
      BY <1>2, <2>3 DEF Alike, MediaFields
    <2>5. r.file = media.stage /\ r.version = media.hash /\ media.stage # Nothing
      BY <1>4, <2>2 DEF StageIntact
    <2>6. DOMAIN l = MediaFields
      BY <1>2, <2>4 DEF Alike
    <2>7. Alike(l, c.m, {"names"})
          /\ (c.m.names = l.names \/ c.m.names = [l.names EXCEPT !["partial"] = Nothing])
      BY <2>6, CleanupFacts
    <2>8. /\ Alike(media, media', {"names", "receipt", "phase", "warned"})
          /\ media'.names = c.m.names /\ media'.receipt = r /\ media'.phase = "preview"
      BY <1>2, <2>1, <2>4, <2>7 DEF Go, Alike, MediaFields
    <2>9. /\ DOMAIN media' = MediaFields /\ media'.version = media.version /\ media'.hash = media.hash
          /\ media'.clock = media.clock /\ media'.stage = media.stage
          /\ media'.stamp = media.stamp /\ media'.pinned = media.pinned /\ media'.read = media.read
          /\ media'.tested = media.tested /\ media'.job = media.job /\ media'.result = media.result
      BY <1>2, <2>8 DEF Alike, MediaFields
    <2>10. /\ DOMAIN media'.names = Names /\ media'.names["output"] = media.stage
           /\ media'.names["partial"] \in {media.names["partial"], Nothing}
           /\ media'.names["source"] = media.names["source"]
      BY <1>2, <2>4, <2>7, <2>8 DEF MediaShape, Names
    <2>11. MediaShape(media')
      BY <1>2, <2>9, <2>10 DEF MediaShape, Names, Files, Nothing
    <2>12. Apart(media')
      BY <2>5, <2>8 DEF Apart
    <2>13. media.read = {media.pinned.version} /\ media.tested = {media.hash}
      BY <1>1, <1>2 DEF Advancing
    <2>14. MediaEnded(media')
      BY <1>1, <1>2, <2>5, <2>8, <2>9, <2>13 DEF MediaEnded
    <2>15. Advancing(media')
      BY <1>1, <1>2, <2>5, <2>8, <2>9 DEF Advancing, Untested, Encoding, Busy
    <2>16. Spares(media, media')
      BY <1>4, <2>9, <2>10 DEF Spares, Names, StageIntact
    <2>17. QED BY <2>11, <2>12, <2>14, <2>15, <2>16 DEF MediaInv
  <1>5. QED BY <1>3, <1>4 DEF PublishExport

\* A step that touches neither files nor evidence.
LEMMA WarnedKeeps ==
  ASSUME NEW m, MediaShape(m), NEW t, Alike(m, t, {"warned", "cancelled"})
  PROVE  /\ Sound(m) => Sound(t)
         /\ MediaInv(m) => MediaInv(t)
         /\ t.names = m.names /\ t.version = m.version /\ t.stage = m.stage
         /\ t.receipt = m.receipt /\ t.result = m.result
  <1>1. DOMAIN m = MediaFields
    BY DEF MediaShape
  <1>2. /\ DOMAIN t = MediaFields /\ t.names = m.names /\ t.version = m.version /\ t.clock = m.clock
        /\ t.stage = m.stage /\ t.receipt = m.receipt /\ t.pinned = m.pinned /\ t.phase = m.phase
        /\ t.hash = m.hash /\ t.read = m.read /\ t.tested = m.tested /\ t.job = m.job
        /\ t.result = m.result /\ t.stamp = m.stamp /\ t.unconfirmed = m.unconfirmed
    BY <1>1 DEF Alike, MediaFields
  <1>3. MediaShape(m) => MediaShape(t)
    BY <1>2 DEF MediaShape
  <1>4. Apart(m) => Apart(t)
    BY <1>2 DEF Apart
  <1>5. MediaEnded(m) => MediaEnded(t)
    BY <1>2 DEF MediaEnded
  <1>6. SourceUnchanged(t) = SourceUnchanged(m) /\ StageIntact(t) = StageIntact(m)
        /\ Seen(t, "partial") = Seen(m, "partial")
    BY <1>2 DEF SourceUnchanged, StageIntact, Seen
  <1>7. Advancing(m) => Advancing(t)
    BY <1>2, <1>6 DEF Advancing, Busy
  <1>8. QED BY <1>2, <1>3, <1>4, <1>5, <1>7 DEF Sound, MediaInv

LEMMA PreviewKeeps ==
  ASSUME MediaInv(media), Preview \/ Previewed \/ CancelMedia
  PROVE  MediaInv(media') /\ Spares(media, media')
  <1>1. media.result = "none" /\ DOMAIN media = MediaFields /\ MediaShape(media) /\ Sound(media)
        /\ Advancing(media)
    BY DEF Preview, Previewed, CancelMedia, Running, Resting, At, Working, MediaInv, MediaShape, Sound
  <1>2. CASE Preview
    <2>1. media.phase = "preview" /\ media.job.child # "running" /\ media.receipt.file # Nothing
      BY <1>1, <1>2 DEF Preview, Resting, At, Advancing
    <2>2. CASE media' = Exported(media)
      BY <1>1, <2>1, <2>2, ConcludeKeeps DEF Exported
    <2>3. CASE media' = Exported([media EXCEPT !.warned = TRUE])
      <3> DEFINE m == [media EXCEPT !.warned = TRUE]
      <3>1. Alike(media, m, {"warned", "cancelled"})
        BY <1>1 DEF Alike, MediaFields
      <3>2. Sound(m) /\ m.result = "none" /\ m.receipt.file # Nothing /\ m.names = media.names
            /\ m.version = media.version /\ m.stage = media.stage
        BY <1>1, <2>1, <3>1, WarnedKeeps
      <3>3. MediaInv(media') /\ Spares(m, media')
        BY <2>3, <3>2, ConcludeKeeps DEF Exported
      <3>4. QED BY <3>2, <3>3 DEF Spares
    <2>4. CASE media.tools /\ ~media.cancelled /\ media' \in Spawned(media, "preview")
      BY <1>1, <2>1, <2>4, BeginKeeps DEF JobPhases
    <2>5. QED BY <1>2, <2>2, <2>3, <2>4 DEF Preview
  <1>3. CASE Previewed
    <2>1. media.phase = "preview" /\ media.job.child = "running" /\ media.receipt.file # Nothing
      BY <1>1, <1>3 DEF Previewed, Running, Advancing
    <2>2. PICK j \in JobResults("preview") : media' = Exported([j.m EXCEPT !.warned = @ \/ ~j.ok])
      BY <1>3 DEF Previewed
    <2> DEFINE m == [j.m EXCEPT !.warned = @ \/ ~j.ok]
    <2>3. Alike(media, j.m, {"job"}) /\ Sound(j.m)
      BY <1>1, <2>1, JobSettledFacts DEF JobResults
    <2>4. DOMAIN j.m = MediaFields /\ j.m.result = "none" /\ j.m.receipt = media.receipt
          /\ j.m.names = media.names /\ j.m.version = media.version /\ j.m.stage = media.stage
      BY <1>1, <2>3 DEF Alike, MediaFields
    <2>5. Alike(j.m, m, {"warned", "cancelled"})
      BY <2>4 DEF Alike, MediaFields
    <2>6. Sound(m) /\ m.result = "none" /\ m.receipt.file # Nothing /\ m.names = media.names
          /\ m.version = media.version /\ m.stage = media.stage
      BY <2>1, <2>3, <2>4, <2>5, WarnedKeeps DEF Sound
    <2>7. MediaInv(media') /\ Spares(m, media')
      BY <2>2, <2>6, ConcludeKeeps DEF Exported
    <2>8. QED BY <2>6, <2>7 DEF Spares
  <1>4. CASE CancelMedia
    <2>1. Alike(media, media', {"warned", "cancelled"})
      BY <1>1, <1>4 DEF CancelMedia, Alike, MediaFields
    <2>2. QED BY <1>1, <2>1, WarnedKeeps DEF Spares
  <1>5. QED BY <1>2, <1>3, <1>4

\* A dropped operation kills its process without waiting for it.
LEMMA DropKeeps ==
  ASSUME MediaInv(media), DropMedia
  PROVE  MediaInv(media') /\ Spares(media, media')
  <1> DEFINE child == IF media.job.child = "running" THEN "loose" ELSE media.job.child
             work == IF media.job.work = "inflight" THEN "retained" ELSE media.job.work
             m == [media EXCEPT !.job.child = IF @ = "running" THEN "loose" ELSE @,
                                !.job.work = IF @ = "inflight" THEN "retained" ELSE @]
  <1>1. media.result = "none" /\ DOMAIN media = MediaFields /\ MediaShape(media) /\ Apart(media)
        /\ MediaEnded(media) /\ DOMAIN media.job = JobFields
    BY DEF DropMedia, Working, MediaInv, MediaShape
  <1>2. Alike(media, m, {"job"}) /\ Alike(media.job, m.job, {"child", "work"})
        /\ m.job.child = child /\ m.job.work = work
    BY <1>1 DEF Alike, MediaFields, JobFields
  <1>3. DOMAIN m = MediaFields
    BY <1>1, <1>2 DEF Alike
  <1>4. PICK c \in Cleanup(m) : media' = Conclude(c.m, "dropped")
    BY DEF DropMedia
  <1>5. /\ Alike(m, c.m, {"names"})
        /\ \/ c.m.names = m.names
           \/ c.m.names = [m.names EXCEPT !["partial"] = Nothing] /\ StageIntact(m)
    BY <1>3, CleanupFacts
  <1>6. Alike(m, media', {"names", "result", "phase"}) /\ media'.names = c.m.names /\ media'.result = "dropped"
    BY <1>3, <1>4, <1>5 DEF Conclude, Alike, MediaFields
  <1>7. /\ m.names = media.names /\ m.stage = media.stage /\ m.version = media.version
        /\ Alike(media, media', {"names", "result", "phase", "job"}) /\ media'.job = m.job
    BY <1>1, <1>2, <1>6 DEF Alike, MediaFields
  <1>8. /\ DOMAIN media' = MediaFields /\ media'.version = media.version /\ media'.hash = media.hash
        /\ media'.clock = media.clock /\ media'.stage = media.stage /\ media'.receipt = media.receipt
        /\ media'.stamp = media.stamp /\ media'.pinned = media.pinned /\ media'.read = media.read
        /\ media'.tested = media.tested
        /\ DOMAIN media'.job = JobFields /\ media'.job.target = media.job.target
    BY <1>1, <1>2, <1>7 DEF Alike, MediaFields, JobFields
  <1>9. /\ DOMAIN media'.names = Names /\ media'.names["output"] = media.names["output"]
        /\ media'.names["source"] = media.names["source"]
        /\ \/ media'.names["partial"] = media.names["partial"]
           \/ media'.names["partial"] = Nothing /\ media.names["partial"] = media.stage
    BY <1>1, <1>5, <1>6, <1>7 DEF MediaShape, Names, StageIntact
  <1>10. MediaShape(media')
    BY <1>1, <1>8, <1>9 DEF MediaShape, Names, Files, Nothing
  <1>11. Apart(media')
    <2>1. media'.job.child # "running"
      BY <1>2, <1>7
    <2>2. QED BY <1>1, <1>8, <1>9, <2>1 DEF Apart, Names
  <1>12. MediaEnded(media')
    <2>1. media.job.work = "removed" => media.job.child = "reaped"
      BY <1>1 DEF MediaEnded
    <2>2. media'.job.work = "removed" => media'.job.child = "reaped"
      BY <1>2, <1>7, <2>1
    <2>3. QED BY <1>1, <1>6, <1>8, <2>2 DEF MediaEnded
  <1>13. Spares(media, media')
    BY <1>8, <1>9 DEF Spares, Names
  <1>14. QED BY <1>6, <1>10, <1>11, <1>12, <1>13 DEF MediaInv

\* The stage of a settled operation is cleaned up once more, or left.
LEMMA DropStageKeeps ==
  ASSUME MediaInv(media), DropStage
  PROVE  MediaInv(media') /\ Spares(media, media')
  <1>1. media.result # "none" /\ DOMAIN media = MediaFields /\ MediaShape(media) /\ Apart(media)
        /\ MediaEnded(media) /\ DOMAIN media.names = Names
    BY DEF DropStage, StageLeft, MediaInv, MediaShape
  <1>2. PICK c \in Cleanup(media) : media' = Go(c.m, "gone")
    BY DEF DropStage
  <1>3. /\ Alike(media, c.m, {"names"})
        /\ \/ c.m.names = media.names
           \/ c.m.names = [media.names EXCEPT !["partial"] = Nothing] /\ StageIntact(media)
    BY <1>1, CleanupFacts
  <1>4. Alike(media, media', {"names", "phase"}) /\ media'.names = c.m.names
    BY <1>1, <1>2, <1>3 DEF Go, Alike, MediaFields
  <1>5. /\ DOMAIN media' = MediaFields /\ media'.version = media.version /\ media'.hash = media.hash
        /\ media'.clock = media.clock /\ media'.stage = media.stage /\ media'.receipt = media.receipt
        /\ media'.stamp = media.stamp /\ media'.pinned = media.pinned /\ media'.read = media.read
        /\ media'.tested = media.tested /\ media'.job = media.job /\ media'.result = media.result
        /\ media'.unconfirmed = media.unconfirmed
    BY <1>1, <1>4 DEF Alike, MediaFields
  <1>6. /\ DOMAIN media'.names = Names /\ media'.names["output"] = media.names["output"]
        /\ media'.names["source"] = media.names["source"]
        /\ \/ media'.names["partial"] = media.names["partial"]
           \/ media'.names["partial"] = Nothing /\ media.names["partial"] = media.stage
    BY <1>1, <1>3, <1>4 DEF Names, StageIntact
  <1>7. MediaShape(media')
    BY <1>1, <1>5, <1>6 DEF MediaShape, Names, Files, Nothing
  <1>8. Apart(media')
    BY <1>1, <1>5, <1>6 DEF Apart, Names
  <1>9. MediaEnded(media')
    BY <1>1, <1>5 DEF MediaEnded
  <1>10. Spares(media, media')
    BY <1>5, <1>6 DEF Spares, Names
  <1>11. QED BY <1>1, <1>5, <1>7, <1>8, <1>9, <1>10 DEF MediaInv

\* Another program may change files, but never back to what they were.
LEMMA OutsideKeeps ==
  ASSUME MediaInv(media), media.result = "none", NEW u, MediaShape(u), Apart(u),
         Alike(media, u, {"names", "version", "clock", "tools", "root"}),
         media.phase # "directory" /\ SourceUnchanged(u) => SourceUnchanged(media),
         StageIntact(u) /\ Seen(u, "partial") = u.stamp =>
            StageIntact(media) /\ Seen(media, "partial") = media.stamp,
         Outside(u)
  PROVE  MediaInv(media')
  <1>1. DOMAIN media = MediaFields /\ DOMAIN u = MediaFields /\ MediaEnded(media) /\ Advancing(media)
    BY DEF MediaInv, MediaShape, Alike
  <1>2. /\ u.receipt = media.receipt /\ u.pinned = media.pinned /\ u.phase = media.phase
        /\ u.hash = media.hash /\ u.read = media.read /\ u.tested = media.tested /\ u.job = media.job
        /\ u.result = media.result /\ u.stamp = media.stamp /\ u.stage = media.stage
        /\ u.unconfirmed = media.unconfirmed
    BY <1>1 DEF Alike, MediaFields
  <1>3. /\ Alike(u, media', {"read", "tested", "outside"})
        /\ media'.read = (IF u.job.child = "running" /\ u.job.kind \in ReadsSource
                          THEN u.read \union {Seen(u, "source")} ELSE u.read)
        /\ media'.tested = (IF u.job.child = "running" /\ u.job.kind \in ReadsStage
                            THEN u.tested \union {Seen(u, "partial")} ELSE u.tested)
    <2>1. CASE u.job.child # "running"
      BY <1>1, <2>1 DEF Outside, Observed, Alike, MediaFields
    <2>2. CASE u.job.child = "running"
      BY <1>1, <2>2 DEF Outside, Observed, Working, Alike, MediaFields
    <2>3. QED BY <2>1, <2>2
  <1>4. /\ DOMAIN media' = MediaFields /\ media'.names = u.names /\ media'.version = u.version
        /\ media'.clock = u.clock /\ media'.stage = u.stage /\ media'.receipt = u.receipt
        /\ media'.pinned = u.pinned /\ media'.phase = u.phase /\ media'.hash = u.hash
        /\ media'.job = u.job /\ media'.result = u.result /\ media'.stamp = u.stamp
        /\ media'.unconfirmed = u.unconfirmed
    BY <1>1, <1>3 DEF Alike, MediaFields
  <1>5. MediaShape(media') /\ Apart(media')
    BY <1>4 DEF MediaShape, Apart
  <1>6. SourceUnchanged(media') = SourceUnchanged(u) /\ StageIntact(media') = StageIntact(u)
        /\ Seen(media', "partial") = Seen(u, "partial")
    BY <1>4 DEF SourceUnchanged, StageIntact, Seen
  <1>7. u.job.child = "running" => u.phase = u.job.kind
    BY <1>1, <1>2 DEF Advancing
  <1>8. media.receipt.file # Nothing => media'.read = media.read /\ media'.tested = media.tested
    BY <1>1, <1>2, <1>3, <1>7 DEF Advancing, ReadsSource, ReadsStage
  <1>9. MediaEnded(media')
    BY <1>1, <1>2, <1>4, <1>8 DEF MediaEnded
  <1>10. media'.phase \notin {"hash", "link", "directory", "preview"} /\ SourceUnchanged(media') =>
            media'.read \subseteq {media'.pinned.version}
    <2>1. SourceUnchanged(u) => Seen(u, "source") = u.pinned.version
      BY DEF SourceUnchanged
    <2>2. QED BY <1>1, <1>2, <1>3, <1>4, <1>6, <2>1 DEF Advancing
  <1>11. media.read \subseteq media'.read /\ media.tested \subseteq media'.tested
    BY <1>2, <1>3
  <1>12. media'.phase \in {"hash", "link", "directory"} => media'.read = media.read
    BY <1>2, <1>3, <1>4, <1>7 DEF ReadsSource
  <1>13. media'.phase \in Untested \union {"link"} \/ ~(u.job.child = "running") => media'.tested = media.tested
    BY <1>2, <1>3, <1>4, <1>7 DEF Untested, ReadsStage
  <1>14. (media'.phase \in {"decode", "publish", "hash"} \/ Busy(media', "verify")) =>
            /\ media'.stamp \in media'.tested
            /\ StageIntact(media') /\ Seen(media', "partial") = media'.stamp =>
                  media'.tested = {media'.stamp}
    BY <1>1, <1>2, <1>3, <1>4, <1>6, <1>11 DEF Advancing, Busy
  <1>15. Advancing(media')
    <2>1. SourceUnchanged(media') /\ media'.phase # "preview" => media'.read \subseteq {media'.pinned.version}
      BY <1>1, <1>2, <1>4, <1>10, <1>12 DEF Advancing
    <2>2. (media'.phase \in Encoding \/ Busy(media', "encode")) => media'.pinned.version \in media'.read
      BY <1>1, <1>2, <1>4, <1>11 DEF Advancing, Busy
    <2>3. QED BY <1>1, <1>2, <1>4, <1>12, <1>13, <1>14, <2>1, <2>2 DEF Advancing
  <1>16. QED BY <1>5, <1>9, <1>15 DEF MediaInv

LEMMA OutsideAfter ==
  ASSUME MediaInv(media), media.result # "none", NEW u, MediaShape(u), Apart(u),
         Alike(media, u, {"names", "version", "clock", "tools", "root"}), Outside(u)
  PROVE  MediaInv(media')
  <1>1. DOMAIN media = MediaFields /\ DOMAIN u = MediaFields /\ MediaEnded(media)
    BY DEF MediaInv, MediaShape, Alike
  <1>2. Alike(u, media', {"outside"})
    BY <1>1 DEF Outside, Observed, Working, Alike, MediaFields
  <1>3. /\ DOMAIN media' = MediaFields /\ media'.names = u.names /\ media'.version = u.version
        /\ media'.clock = u.clock /\ media'.stage = u.stage /\ media'.pinned = u.pinned
        /\ media'.stamp = u.stamp /\ media'.job = u.job /\ media'.receipt = u.receipt
    BY <1>1, <1>2 DEF Alike, MediaFields
  <1>4. /\ media'.stage = media.stage /\ media'.receipt = media.receipt /\ media'.pinned = media.pinned
        /\ media'.hash = media.hash /\ media'.read = media.read /\ media'.tested = media.tested
        /\ media'.job = media.job /\ media'.result = media.result /\ media'.unconfirmed = media.unconfirmed
    BY <1>1, <1>2 DEF Alike, MediaFields
  <1>5. MediaShape(media') /\ Apart(media')
    BY <1>3 DEF MediaShape, Apart
  <1>6. MediaEnded(media')
    BY <1>1, <1>4 DEF MediaEnded
  <1>7. QED BY <1>4, <1>5, <1>6 DEF MediaInv

LEMMA OutsideEver ==
  ASSUME MediaInv(media), NEW u, MediaShape(u), Apart(u),
         Alike(media, u, {"names", "version", "clock", "tools", "root"}),
         media.result = "none" =>
            /\ media.phase # "directory" /\ SourceUnchanged(u) => SourceUnchanged(media)
            /\ StageIntact(u) /\ Seen(u, "partial") = u.stamp =>
                  StageIntact(media) /\ Seen(media, "partial") = media.stamp,
         Outside(u)
  PROVE  MediaInv(media')
  BY OutsideKeeps, OutsideAfter

LEMMA OthersKeep ==
  ASSUME MediaInv(media), Others
  PROVE  MediaInv(media')
  <1>1. DOMAIN media = MediaFields /\ MediaShape(media) /\ Apart(media)
        /\ (media.result = "none" => Advancing(media)) /\ DOMAIN media.names = Names /\ media.clock \in Nat
    BY DEF MediaInv, MediaShape
  <1>2. CASE SetupChanges
    <2>1. PICK u : Alike(media, u, {"tools", "root"}) /\ Outside(u)
      <3>1. Alike(media, [media EXCEPT !.tools = FALSE], {"tools", "root"})
        BY <1>1 DEF Alike, MediaFields
      <3>2. Alike(media, [media EXCEPT !.root = ~@], {"tools", "root"})
        BY <1>1 DEF Alike, MediaFields
      <3>3. QED BY <1>2, <3>1, <3>2 DEF SetupChanges
    <2>2. /\ DOMAIN u = MediaFields /\ u.names = media.names /\ u.version = media.version
          /\ u.clock = media.clock /\ u.stage = media.stage /\ u.receipt = media.receipt
          /\ u.pinned = media.pinned /\ u.job = media.job /\ u.stamp = media.stamp
      BY <1>1, <2>1 DEF Alike, MediaFields
    <2>3. MediaShape(u) /\ Apart(u)
      BY <1>1, <2>2 DEF MediaShape, Apart
    <2>4. SourceUnchanged(u) = SourceUnchanged(media) /\ StageIntact(u) = StageIntact(media)
          /\ Seen(u, "partial") = Seen(media, "partial")
      BY <2>2 DEF SourceUnchanged, StageIntact, Seen
    <2>5. Alike(media, u, {"names", "version", "clock", "tools", "root"})
      BY <2>1 DEF Alike
    <2>6. QED BY <1>1, <2>1, <2>2, <2>3, <2>4, <2>5, OutsideEver
  <1>3. ASSUME NEW n \in Names, OthersWrite(n)
        PROVE  MediaInv(media')
    <2> DEFINE f == media.names[n]
               u == Written(media, f)
    <2>1. f \in DOMAIN media.version
      BY <1>1, <1>3, SeenFacts DEF OthersWrite
    <2>2. /\ Alike(media, u, {"clock", "version"}) /\ u.clock = media.clock + 1
          /\ DOMAIN u.version = DOMAIN media.version \union {f} /\ u.version[f] = media.clock + 1
          /\ \A g \in DOMAIN media.version : g # f => u.version[g] = media.version[g]
          /\ MediaShape(u)
      BY <1>1, <2>1, WrittenFacts
    <2>3. /\ DOMAIN u = MediaFields /\ u.names = media.names /\ u.stage = media.stage
          /\ u.receipt = media.receipt /\ u.pinned = media.pinned /\ u.job = media.job
          /\ u.stamp = media.stamp
      BY <1>1, <2>2 DEF Alike, MediaFields
    <2>4. Apart(u)
      BY <1>1, <2>3 DEF Apart
    <2>5. \A x \in Names, v \in 0..media.clock : Seen(u, x) = v => Seen(media, x) = v
      <3>1. \A x \in Names : media.names[x] # Nothing => media.names[x] \in DOMAIN media.version
        BY <1>1, SeenFacts
      <3>2. QED BY <1>1, <2>2, <2>3, <3>1 DEF Seen
    <2>6. SourceUnchanged(u) => SourceUnchanged(media)
      BY <1>1, <2>3, <2>5 DEF SourceUnchanged, MediaShape, Names
    <2>7. StageIntact(u) /\ Seen(u, "partial") = u.stamp =>
            StageIntact(media) /\ Seen(media, "partial") = media.stamp
      BY <1>1, <2>3, <2>5 DEF StageIntact, MediaShape, Names
    <2>8. Alike(media, u, {"names", "version", "clock", "tools", "root"})
      BY <2>2 DEF Alike
    <2>9. QED BY <1>1, <1>3, <2>2, <2>4, <2>6, <2>7, <2>8, OutsideEver DEF OthersWrite
  <1>4. ASSUME NEW n \in Names, OthersReplace(n)
        PROVE  MediaInv(media')
    <2> DEFINE f == NewFile
               w == Written(media, f)
               u == [w EXCEPT !.names[n] = f]
    <2>1. f = Cardinality(DOMAIN media.version) + 1 /\ f \notin Files(media.version)
      BY <1>1 DEF NewFile, MediaShape, Numbered, Files
    <2>2. /\ Alike(media, w, {"clock", "version"}) /\ w.clock = media.clock + 1
          /\ DOMAIN w.version = DOMAIN media.version \union {f}
          /\ \A g \in DOMAIN media.version : g # f => w.version[g] = media.version[g]
          /\ MediaShape(w) /\ f # 0
      BY <1>1, <2>1, WrittenFacts
    <2>3. /\ DOMAIN w = MediaFields /\ w.names = media.names /\ w.stage = media.stage
          /\ w.receipt = media.receipt /\ w.pinned = media.pinned /\ w.job = media.job
          /\ w.stamp = media.stamp
      BY <1>1, <2>2 DEF Alike, MediaFields
    <2>4. Alike(w, u, {"names"}) /\ u.names = [media.names EXCEPT ![n] = f]
      BY <2>3 DEF Alike, MediaFields
    <2>5. /\ DOMAIN u = MediaFields /\ u.stage = media.stage /\ u.version = w.version /\ u.clock = w.clock
          /\ u.receipt = media.receipt /\ u.pinned = media.pinned /\ u.job = media.job
          /\ u.stamp = media.stamp
      BY <2>3, <2>4 DEF Alike, MediaFields
    <2>6. DOMAIN u.names = Names /\ u.names[n] = f /\ \A x \in Names \ {n} : u.names[x] = media.names[x]
      BY <1>1, <2>4
    <2>7. MediaShape(u)
      <3>1. f \in Files(u.version)
        BY <2>2, <2>5 DEF Files
      <3>2. \A x \in Names : u.names[x] \in Files(u.version)
        BY <2>2, <2>3, <2>5, <2>6, <3>1 DEF MediaShape
      <3>3. QED BY <2>2, <2>3, <2>5, <2>6, <3>2 DEF MediaShape
    <2>8. \A x \in Names : media.names[x] \in Files(media.version) /\ media.names[x] # f
      BY <1>1, <2>1 DEF MediaShape
    <2>9. media.stage # f /\ media.pinned.file # f /\ media.job.target # f
      BY <1>1, <2>1 DEF MediaShape
    <2>10. Apart(u)
      <3>1. ASSUME u.receipt.file = Nothing
            PROVE  \A x, y \in Names : x # y /\ u.names[x] = u.names[y] => u.names[x] = Nothing
        BY <1>1, <2>5, <2>6, <2>8, <3>1 DEF Apart
      <3>2. ASSUME u.receipt.file = Nothing, u.stage # Nothing PROVE u.names["output"] # u.stage
        BY <1>1, <2>5, <2>6, <2>9, <3>2 DEF Apart, Names
      <3>3. ASSUME u.receipt.file = Nothing, u.job.kind = "encode" /\ u.job.child = "running"
            PROVE  /\ u.job.target # Nothing
                   /\ u.names["source"] # u.job.target /\ u.names["output"] # u.job.target
        BY <1>1, <2>5, <2>6, <2>9, <3>3 DEF Apart, Names
      <3>4. QED BY <3>1, <3>2, <3>3 DEF Apart
    <2>11. \A x \in Names \ {n} : Seen(u, x) = Seen(media, x)
      BY <2>2, <2>5, <2>6, <2>8 DEF Seen, Files, Nothing
    <2>12. SourceUnchanged(u) => SourceUnchanged(media)
      BY <2>5, <2>6, <2>9, <2>11 DEF SourceUnchanged, Names
    <2>13. StageIntact(u) /\ Seen(u, "partial") = u.stamp =>
            StageIntact(media) /\ Seen(media, "partial") = media.stamp
      BY <2>5, <2>6, <2>9, <2>11 DEF StageIntact, Names
    <2>14. Alike(media, u, {"names", "version", "clock", "tools", "root"})
      BY <1>1, <2>2, <2>3, <2>4 DEF Alike
    <2>15. QED BY <1>1, <1>4, <2>7, <2>10, <2>12, <2>13, <2>14, OutsideEver DEF OthersReplace
  <1>5. ASSUME NEW n \in Names, OthersRemove(n)
        PROVE  MediaInv(media')
    <2> DEFINE u == [media EXCEPT !.names[n] = Nothing]
    <2>1. Alike(media, u, {"names"}) /\ u.names = [media.names EXCEPT ![n] = Nothing]
      BY <1>1 DEF Alike, MediaFields
    <2>2. /\ DOMAIN u = MediaFields /\ u.stage = media.stage /\ u.version = media.version
          /\ u.clock = media.clock /\ u.receipt = media.receipt /\ u.pinned = media.pinned
          /\ u.job = media.job /\ u.stamp = media.stamp
      BY <1>1, <2>1 DEF Alike, MediaFields
    <2>3. DOMAIN u.names = Names /\ u.names[n] = Nothing /\ \A x \in Names \ {n} : u.names[x] = media.names[x]
      BY <1>1, <2>1
    <2>4. MediaShape(u)
      BY <1>1, <2>2, <2>3 DEF MediaShape, Files, Nothing
    <2>5. Apart(u)
      <3>1. ASSUME u.receipt.file = Nothing
            PROVE  \A x, y \in Names : x # y /\ u.names[x] = u.names[y] => u.names[x] = Nothing
        BY <1>1, <2>2, <2>3, <3>1 DEF Apart
      <3>2. ASSUME u.receipt.file = Nothing, u.stage # Nothing PROVE u.names["output"] # u.stage
        BY <1>1, <2>2, <2>3, <3>2 DEF Apart, Names
      <3>3. ASSUME u.receipt.file = Nothing, u.job.kind = "encode" /\ u.job.child = "running"
            PROVE  /\ u.job.target # Nothing
                   /\ u.names["source"] # u.job.target /\ u.names["output"] # u.job.target
        BY <1>1, <2>2, <2>3, <3>3 DEF Apart, Names
      <3>4. QED BY <3>1, <3>2, <3>3 DEF Apart
    <2>6. \A x \in Names \ {n} : Seen(u, x) = Seen(media, x)
      BY <2>2, <2>3 DEF Seen
    <2>7. media.result = "none" /\ media.phase # "directory" /\ SourceUnchanged(u) => SourceUnchanged(media)
      <3>1. media.result = "none" /\ media.phase # "directory" => media.pinned.file # Nothing
        BY <1>1 DEF Advancing
      <3>2. QED BY <2>2, <2>3, <2>6, <3>1 DEF SourceUnchanged, Names
    <2>8. StageIntact(u) /\ Seen(u, "partial") = u.stamp =>
            StageIntact(media) /\ Seen(media, "partial") = media.stamp
      BY <2>2, <2>3, <2>6 DEF StageIntact, Names
    <2>9. Alike(media, u, {"names", "version", "clock", "tools", "root"})
      BY <2>1 DEF Alike
    <2>10. QED BY <1>1, <1>5, <2>4, <2>5, <2>7, <2>8, <2>9, OutsideEver DEF OthersRemove
  <1>6. QED BY <1>2, <1>3, <1>4, <1>5 DEF Others

LEMMA OursKeeps ==
  ASSUME MediaInv(media), Ours
  PROVE  MediaInv(media') /\ Spares(media, media')
  BY DirectoryKeeps, ReadingKeeps, ReserveKeeps, RefuseKeeps, EncodedKeeps, VerifyKeeps,
     ConfirmKeeps, PublishKeeps, PreviewKeeps, DropKeeps, DropStageKeeps DEF Ours

LEMMA MediaNextKeeps ==
  ASSUME MediaInv(media), MediaNext
  PROVE  MediaInv(media')
  BY OursKeeps, OthersKeep DEF MediaNext

LEMMA MediaInitKeeps ==
  ASSUME NEW r, MediaInit(r)
  PROVE  MediaInv(media)
  <1>1. DOMAIN media = MediaFields
    BY DEF MediaInit, MediaFields
  <1>2. /\ media.names = [n \in Names |-> IF n = "source" THEN 1 ELSE Nothing]
        /\ media.version = [f \in {1} |-> 1] /\ media.clock = 1 /\ media.phase = "directory"
        /\ media.pinned = [file |-> Nothing, version |-> 0] /\ media.read = {} /\ media.stage = Nothing
        /\ media.stamp = 0 /\ media.tested = {} /\ media.receipt = [file |-> Nothing, version |-> 0]
        /\ media.job = NoJob /\ media.result = "none"
    BY DEF MediaInit
  <1>3. media.pinned.file = 0 /\ media.pinned.version = 0 /\ media.receipt.file = 0
    BY <1>2 DEF Nothing
  <1>4. DOMAIN media.job = JobFields /\ media.job.kind = "none" /\ media.job.child = "none"
        /\ media.job.target = 0 /\ media.job.work = "none"
    BY <1>2 DEF NoJob, JobFields, Nothing
  <1>5. DOMAIN media.version = 1..1 /\ media.version[1] = 1
    BY <1>2
  <1>6. Cardinality(DOMAIN media.version) = 1
    <2>1. DOMAIN media.version = {1}
      BY <1>2
    <2>2. QED BY <2>1, FS_Singleton, Zenon
  <1>7. Numbered(media.version)
    BY <1>5, <1>6 DEF Numbered
  <1>8. \A x \in Names : media.names[x] \in Files(media.version)
    BY <1>2, <1>5 DEF Files, Nothing
  <1>9. MediaShape(media)
    BY <1>1, <1>2, <1>3, <1>4, <1>5, <1>7, <1>8 DEF MediaShape, Files, Nothing
  <1>10. Apart(media) /\ MediaEnded(media)
    BY <1>2, <1>3, <1>4 DEF Apart, MediaEnded, Nothing, Names
  <1>11. Advancing(media)
    BY <1>2, <1>3, <1>4 DEF Advancing, Untested, Encoding, Busy, Nothing
  <1>12. QED BY <1>9, <1>10, <1>11 DEF MediaInv

LEMMA MediaVerified ==
  ASSUME MediaInv(media)
  PROVE  ExportIsVerified
  <1>1. MediaEnded(media) /\ Apart(media)
    BY DEF MediaInv
  <1>2. media.receipt.file = Nothing => media.names["output"] \notin {media.stage} \ {Nothing}
    BY <1>1 DEF Apart
  <1>3. QED BY <1>1, <1>2 DEF MediaEnded, ExportIsVerified

-----------------------------------------------------------------------------
(* A verified replay save.                                                 *)

SaveFields == {"id", "pc", "late", "meddled", "clock", "names", "version", "last", "pending",
               "buffer", "active", "started", "ended", "sent", "claims", "baseline", "previous",
               "armed", "heard", "snapshot", "tested", "helper", "loose", "unconfirmed", "good",
               "oldest"}
SnapshotFields == {"path", "file", "version", "copy", "made", "hash"}
SaveNames == Paths \union {Copy}

SaveShape(s) ==
    /\ DOMAIN s = SaveFields /\ DOMAIN s.snapshot = SnapshotFields
    /\ Numbered(s.version) /\ s.clock \in Nat /\ s.id \in Nat /\ s.oldest \in Nat
    /\ s.oldest <= Cardinality(DOMAIN s.version) + 1
    /\ \A f \in DOMAIN s.version : s.version[f] \in 1..s.clock
    /\ DOMAIN s.names = SaveNames /\ \A n \in SaveNames : s.names[n] \in Files(s.version)
    /\ s.snapshot.copy \in Files(s.version) /\ s.snapshot.made \in 0..s.clock
    /\ s.heard \in Seq(Paths)
    /\ s.sent \subseteq s.started /\ \A i \in s.started : i \in Nat /\ i <= s.id

\* The journal: a helper at large keeps its attempt open, and an attempt that
\* has not asked OBS yet follows only attempts that ended.
Journalled(s) ==
    /\ s.pc # "idle" => s.active
    /\ s.loose => s.active /\ (s.pc = "idle" \/ (s.pc = "close" /\ s.unconfirmed))
    /\ s.helper = "loose" => s.loose
    /\ s.pc \in {"prerequisites", "baseline", "dispatch"} =>
          s.id \in s.started \ s.sent /\ s.started \subseteq s.ended \union {s.id}

CopyIntact(s) ==
    s.snapshot.copy # Free /\ s.names[Copy] = s.snapshot.copy /\ VersionOf(s, Copy) = s.snapshot.made
Asking == {"prerequisites", "baseline", "dispatch", "sent", "candidate", "copy"}
Copied == {"compare", "probe", "probing", "decode", "decoding", "corroborate", "confirm", "finish"}
\* The evidence: files made since the attempt began, and what helpers read.
Evident(s) ==
    /\ s.pc \in Asking \union Copied \union {"idle", "close", "discard"}
    /\ s.pc \in {"dispatch", "sent", "candidate"} =>
          \A n \in Paths \ s.baseline : s.names[n] = Free \/ s.names[n] >= s.oldest
    /\ s.pc \in {"copy"} \union Copied => s.snapshot.file >= s.oldest
    /\ s.pc \in {"sent", "candidate", "copy"} \union Copied => s.id \in s.sent
    /\ s.pc \in Asking => s.tested = {}
    /\ s.pc = "compare" => s.tested = {}
    /\ s.pc \in Copied => s.snapshot.copy # Free
    /\ s.pc \in Copied /\ CopyIntact(s) => s.tested \subseteq {s.snapshot.made}
    /\ s.pc \in Copied \ {"compare", "probe"} /\ CopyIntact(s) => s.snapshot.made \in s.tested

SaveInv(s) == SaveShape(s) /\ Journalled(s) /\ Evident(s)

\* What SavesAreGrounded asks of a step, but for the private copy.
Grounded(s, t) ==
    /\ t.good /\ ~s.good =>
          /\ s.names[s.snapshot.path] = s.snapshot.file /\ s.snapshot.file >= s.oldest
          /\ s.version[s.snapshot.file] = s.snapshot.hash /\ s.tested = {s.snapshot.made}
          /\ s.id \in s.sent
    /\ t.sent # s.sent => s.sent \subseteq s.ended /\ ~s.loose
    /\ t.claims # s.claims => s.id \in t.ended /\ s.good
\* And of the copy: it goes only under the name that still leads to it.
Careful(s, t) ==
    s.names[Copy] # t.names[Copy] /\ s.names[Copy] # Free =>
        s.names[Copy] = s.snapshot.copy /\ ~s.loose

LEMMA RewrittenFacts ==
  ASSUME NEW s, SaveShape(s), NEW f,
         f \in DOMAIN s.version \/ f = FreshFile(s)
  PROVE  LET w == Rewritten(s, f) IN
         /\ Alike(s, w, {"clock", "version"}) /\ w.clock = s.clock + 1
         /\ DOMAIN w.version = DOMAIN s.version \union {f} /\ w.version[f] = s.clock + 1
         /\ \A g \in DOMAIN s.version : g # f => w.version[g] = s.version[g]
         /\ SaveShape(w) /\ f \in Nat /\ f # 0
  <1> DEFINE w == Rewritten(s, f)
  <1>1. DOMAIN s = SaveFields /\ Numbered(s.version) /\ s.clock \in Nat
    BY DEF SaveShape
  <1>2. Alike(s, w, {"clock", "version"}) /\ w.clock = s.clock + 1
    BY <1>1 DEF Rewritten, Alike, SaveFields
  <1>3. w.version = [g \in DOMAIN s.version \union {f} |-> IF g = f THEN s.clock + 1 ELSE s.version[g]]
    BY <1>1 DEF Rewritten, SaveFields
  <1>4. DOMAIN w.version = DOMAIN s.version \union {f} /\ w.version[f] = s.clock + 1
        /\ \A g \in DOMAIN s.version : g # f => w.version[g] = s.version[g]
    BY <1>3
  <1>5. Numbered(w.version) /\ Cardinality(DOMAIN w.version) >= Cardinality(DOMAIN s.version)
    BY <1>1, <1>4, NumberedGrows DEF FreshFile
  <1>6. \A g \in DOMAIN w.version : w.version[g] \in 1..w.clock
    BY <1>1, <1>2, <1>4 DEF SaveShape
  <1>7. /\ w.names = s.names /\ w.snapshot = s.snapshot /\ w.id = s.id /\ w.oldest = s.oldest
        /\ w.heard = s.heard /\ w.sent = s.sent /\ w.started = s.started
    BY <1>1, <1>2 DEF Alike, SaveFields
  <1>8. w.oldest <= Cardinality(DOMAIN w.version) + 1
    <2>1. s.oldest \in Nat /\ s.oldest <= Cardinality(DOMAIN s.version) + 1
          /\ Cardinality(DOMAIN s.version) \in Nat /\ Cardinality(DOMAIN w.version) \in Nat
      BY <1>1, <1>5 DEF SaveShape, Numbered
    <2>2. QED BY <1>5, <1>7, <2>1
  <1>9. SaveShape(w)
    BY <1>1, <1>2, <1>4, <1>5, <1>6, <1>7, <1>8 DEF SaveShape, Alike, Files
  <1>10. f \in Nat /\ f # 0
    BY <1>1 DEF Numbered, FreshFile
  <1>11. QED BY <1>2, <1>4, <1>9, <1>10

LEMMA NamedFacts ==
  ASSUME NEW s, SaveShape(s), NEW n \in SaveNames
  PROVE  LET u == Named(s, n)  f == FreshFile(s) IN
         /\ Alike(s, u, {"clock", "version", "names"}) /\ u.clock = s.clock + 1
         /\ DOMAIN u.version = DOMAIN s.version \union {f} /\ u.version[f] = s.clock + 1
         /\ \A g \in DOMAIN s.version : u.version[g] = s.version[g]
         /\ u.names[n] = f /\ \A x \in SaveNames \ {n} : u.names[x] = s.names[x]
         /\ f \notin Files(s.version) /\ f >= s.oldest /\ f \in Nat /\ f # 0 /\ SaveShape(u)
  <1> DEFINE f == FreshFile(s)
             w == Rewritten(s, f)
             u == Named(s, n)
  <1>1. DOMAIN s = SaveFields /\ Numbered(s.version) /\ s.clock \in Nat /\ DOMAIN s.names = SaveNames
    BY DEF SaveShape
  <1>2. /\ Alike(s, w, {"clock", "version"}) /\ w.clock = s.clock + 1
        /\ DOMAIN w.version = DOMAIN s.version \union {f} /\ w.version[f] = s.clock + 1
        /\ \A g \in DOMAIN s.version : g # f => w.version[g] = s.version[g]
        /\ SaveShape(w) /\ f \in Nat /\ f # 0
    BY RewrittenFacts
  <1>3. f \notin Files(s.version)
    BY <1>1 DEF FreshFile, Numbered, Files
  <1>4. f >= s.oldest
    BY <1>1 DEF FreshFile, Numbered, SaveShape
  <1>5. DOMAIN w = SaveFields /\ w.names = s.names
    BY <1>1, <1>2 DEF Alike, SaveFields
  <1>6. Alike(w, u, {"names"}) /\ u.names = [s.names EXCEPT ![n] = f]
    BY <1>5 DEF Named, Alike, SaveFields
  <1>7. Alike(s, u, {"clock", "version", "names"}) /\ u.clock = w.clock /\ u.version = w.version
    BY <1>1, <1>2, <1>6 DEF Alike, SaveFields
  <1>8. u.names[n] = f /\ (\A x \in SaveNames \ {n} : u.names[x] = s.names[x]) /\ DOMAIN u.names = SaveNames
    BY <1>1, <1>6
  <1>9. /\ u.snapshot = w.snapshot /\ u.id = w.id /\ u.oldest = w.oldest /\ DOMAIN u = SaveFields
        /\ u.heard = w.heard /\ u.sent = w.sent /\ u.started = w.started
    BY <1>5, <1>6 DEF Alike, SaveFields
  <1>10. SaveShape(u)
    <2>1. f \in Files(u.version)
      BY <1>2, <1>7 DEF Files
    <2>2. \A x \in SaveNames : u.names[x] \in Files(u.version)
      BY <1>2, <1>5, <1>7, <1>8, <2>1 DEF SaveShape
    <2>3. QED BY <1>2, <1>7, <1>8, <1>9, <2>2 DEF SaveShape
  <1>11. \A g \in DOMAIN s.version : g # f
    BY <1>3 DEF Files
  <1>12. QED BY <1>2, <1>3, <1>4, <1>7, <1>8, <1>10, <1>11

\* Steps that keep files and attempt keep the shape.
LEMMA SameShape ==
  ASSUME NEW s, SaveShape(s), NEW t, DOMAIN t = SaveFields, t.names = s.names, t.version = s.version,
         t.clock = s.clock, t.id = s.id, t.oldest = s.oldest, t.snapshot = s.snapshot,
         t.heard = s.heard, t.started = s.started, t.sent \subseteq t.started
  PROVE  SaveShape(t)
  BY DEF SaveShape

\* The workflow gives up: nothing is claimed of the evidence any more.
LEMMA GivesUp ==
  ASSUME NEW s, SaveInv(s), s.pc \notin {"idle", "close"}
  PROVE  /\ SaveInv(Unverified(s)) /\ Grounded(s, Unverified(s)) /\ Careful(s, Unverified(s))
  <1> DEFINE t == Unverified(s)
  <1>1. DOMAIN s = SaveFields /\ SaveShape(s)
    BY DEF SaveInv, SaveShape
  <1>2. Alike(s, t, {"pc"}) /\ t.pc \in {"discard", "close"}
    BY <1>1 DEF Unverified, SaveTo, Alike, SaveFields
  <1>3. /\ DOMAIN t = SaveFields /\ t.names = s.names /\ t.version = s.version
        /\ t.clock = s.clock /\ t.id = s.id /\ t.oldest = s.oldest /\ t.snapshot = s.snapshot
        /\ t.heard = s.heard /\ t.started = s.started /\ t.sent = s.sent /\ t.good = s.good
        /\ t.claims = s.claims /\ t.active = s.active /\ t.loose = s.loose /\ t.helper = s.helper
    BY <1>1, <1>2 DEF Alike, SaveFields
  <1>4. SaveShape(t)
    BY <1>1, <1>3, SameShape DEF SaveShape
  <1>5. Journalled(t)
    BY <1>2, <1>3 DEF SaveInv, Journalled
  <1>6. Evident(t)
    BY <1>2 DEF Evident, Asking, Copied
  <1>7. QED BY <1>3, <1>4, <1>5, <1>6 DEF SaveInv, Grounded, Careful

\* The copy is removed, or its cleanup remains unconfirmed.
LEMMA RetireKeeps ==
  ASSUME NEW s, SaveShape(s), s.active, s.loose <=> s.helper = "loose", NEW t \in CopyRetired(s)
  PROVE  /\ SaveInv(t) /\ DOMAIN t = SaveFields /\ t.good = s.good /\ t.sent = s.sent /\ t.claims = s.claims
         /\ t.unconfirmed \in {s.unconfirmed, TRUE} /\ t.pc = "close"
         /\ t.names[Copy] # s.names[Copy] => s.names[Copy] = s.snapshot.copy
  <1>1. DOMAIN s = SaveFields /\ DOMAIN s.snapshot = SnapshotFields /\ DOMAIN s.names = SaveNames
    BY DEF SaveShape
  <1> DEFINE done == SaveTo([s EXCEPT !.snapshot.copy = Free], "close")
             kept == [done EXCEPT !.unconfirmed = TRUE]
             gone == [done EXCEPT !.names[Copy] = Free]
  <1>2. \/ t = kept
        \/ t = gone /\ s.helper # "loose" /\ s.names[Copy] = s.snapshot.copy
    BY DEF CopyRetired
  <1>3. /\ Alike(s, done, {"snapshot", "pc"}) /\ done.pc = "close"
        /\ Alike(s.snapshot, done.snapshot, {"copy"}) /\ done.snapshot.copy = Free
    BY <1>1 DEF SaveTo, Alike, SaveFields, SnapshotFields
  <1>4. DOMAIN done = SaveFields /\ done.names = s.names
    BY <1>1, <1>3 DEF Alike, SaveFields
  <1>5. /\ Alike(done, t, {"unconfirmed", "names"})
        /\ \/ t.names = s.names /\ t.unconfirmed = TRUE
           \/ /\ t.names = [s.names EXCEPT ![Copy] = Free] /\ t.unconfirmed = done.unconfirmed
              /\ s.helper # "loose" /\ s.names[Copy] = s.snapshot.copy
    <2>1. CASE t = kept
      BY <1>4, <2>1 DEF Alike, SaveFields
    <2>2. CASE t = gone /\ s.helper # "loose" /\ s.names[Copy] = s.snapshot.copy
      BY <1>4, <2>2 DEF Alike, SaveFields
    <2>3. QED BY <1>2, <2>1, <2>2
  <1> HIDE DEF done
  <1>6. /\ DOMAIN t = SaveFields /\ t.version = s.version /\ t.clock = s.clock /\ t.id = s.id
        /\ t.oldest = s.oldest /\ t.snapshot = done.snapshot /\ t.heard = s.heard
        /\ t.started = s.started /\ t.sent = s.sent /\ t.good = s.good
        /\ t.claims = s.claims /\ t.active = s.active /\ t.loose = s.loose /\ t.helper = s.helper
        /\ t.pc = "close" /\ done.unconfirmed = s.unconfirmed
    BY <1>1, <1>3, <1>5 DEF Alike, SaveFields
  <1>7. /\ DOMAIN t.names = SaveNames /\ \A x \in SaveNames : t.names[x] = s.names[x] \/ (x = Copy /\ t.names[x] = Free)
        /\ DOMAIN t.snapshot = SnapshotFields /\ t.snapshot.copy = Free /\ t.snapshot.made = s.snapshot.made
    BY <1>1, <1>3, <1>5, <1>6 DEF Alike, SnapshotFields
  <1>8. SaveShape(t)
    BY <1>6, <1>7 DEF SaveShape, Files, Free
  <1>9. Journalled(t)
    BY <1>5, <1>6 DEF Journalled
  <1>10. Evident(t)
    BY <1>6 DEF Evident, Asking, Copied
  <1>11. QED BY <1>5, <1>6, <1>8, <1>9, <1>10 DEF SaveInv

\* A new attempt starts from nothing; an old one leaves nothing but the journal.
LEMMA NewAttemptFacts ==
  ASSUME NEW s, SaveShape(s), NEW i, i \in Nat /\ s.id <= i
  PROVE  LET n == NewAttempt(s, i) IN
         /\ Alike(s, n, {"id", "late", "baseline", "previous", "armed", "heard", "snapshot", "tested",
                         "helper", "unconfirmed", "good", "oldest"})
         /\ n.id = i /\ n.tested = {} /\ n.helper = "none" /\ n.good = FALSE /\ SaveShape(n)
  <1> DEFINE n == NewAttempt(s, i)
  <1>1. DOMAIN s = SaveFields /\ Numbered(s.version) /\ s.clock \in Nat
    BY DEF SaveShape
  <1>2. PICK q : q = NoSnapshot
    OBVIOUS
  <1>3. n = [s EXCEPT !.id = i, !.late = FALSE, !.baseline = {}, !.previous = "none", !.armed = FALSE,
                      !.heard = <<>>, !.snapshot = q, !.tested = {}, !.helper = "none",
                      !.unconfirmed = FALSE, !.good = FALSE, !.oldest = Cardinality(DOMAIN s.version) + 1]
    BY <1>2 DEF NewAttempt
  <1>4. /\ Alike(s, n, {"id", "late", "baseline", "previous", "armed", "heard", "snapshot", "tested",
                        "helper", "unconfirmed", "good", "oldest"})
        /\ n.id = i /\ n.tested = {} /\ n.helper = "none" /\ n.good = FALSE /\ n.heard = <<>>
        /\ n.snapshot = q /\ n.oldest = Cardinality(DOMAIN s.version) + 1
    BY <1>1, <1>3 DEF Alike, SaveFields
  <1>5. /\ DOMAIN n = SaveFields /\ n.names = s.names /\ n.version = s.version /\ n.clock = s.clock
        /\ n.started = s.started /\ n.sent = s.sent
    BY <1>1, <1>4 DEF Alike, SaveFields
  <1>6. DOMAIN q = SnapshotFields /\ q.copy = 0 /\ q.made = 0
    BY <1>2 DEF NoSnapshot, SnapshotFields, Free
  <1>7. <<>> \in Seq(Paths)
    OBVIOUS
  <1>8. \A k \in n.started : k \in Nat /\ k <= n.id
    <2>1. s.id \in Nat /\ \A k \in s.started : k \in Nat /\ k <= s.id
      BY DEF SaveShape
    <2>2. QED BY <1>4, <1>5, <2>1
  <1>9. n.oldest \in Nat /\ n.oldest <= Cardinality(DOMAIN n.version) + 1
    BY <1>1, <1>4, <1>5 DEF Numbered
  <1>10. n.id \in Nat /\ 0 \in 0..n.clock
    BY <1>1, <1>4, <1>5
  <1>11. SaveShape(n)
    BY <1>1, <1>4, <1>5, <1>6, <1>7, <1>8, <1>9, <1>10 DEF SaveShape, Files
  <1>12. QED BY <1>4, <1>11

LEMMA BeginSaveKeeps ==
  ASSUME SaveInv(save), BeginSave
  PROVE  SaveInv(save') /\ Grounded(save, save') /\ Careful(save, save')
  <1> DEFINE new == NewAttempt(save, save.id + 1)
             marked == [new EXCEPT !.active = TRUE]
             begun == [marked EXCEPT !.started = @ \cup {new.id}]
  <1>1. DOMAIN save = SaveFields /\ SaveShape(save) /\ save.pc = "idle" /\ save.id \in Nat /\ Journalled(save)
    BY DEF SaveInv, SaveShape, BeginSave, Saving
  <1>2. /\ Alike(save, new, {"id", "late", "baseline", "previous", "armed", "heard", "snapshot", "tested",
                             "helper", "unconfirmed", "good", "oldest"})
        /\ new.id = save.id + 1 /\ new.tested = {} /\ new.helper = "none" /\ new.good = FALSE /\ SaveShape(new)
    <2>1. save.id + 1 \in Nat /\ save.id <= save.id + 1
      BY <1>1
    <2>2. QED BY <1>1, <2>1, NewAttemptFacts
  <1>3. /\ DOMAIN new = SaveFields /\ new.names = save.names /\ new.started = save.started
        /\ new.sent = save.sent /\ new.pc = "idle" /\ new.ended = save.ended
        /\ new.active = save.active /\ new.loose = save.loose /\ new.claims = save.claims
    BY <1>1, <1>2 DEF Alike, SaveFields
  <1> HIDE DEF new
  <1>4. \/ save' = new
        \/ /\ ~save.active /\ save.started = save.ended
           /\ save' \in {SaveTo(begun, "prerequisites"), begun, marked}
    BY DEF BeginSave, new
  <1>5. CASE save' = new
    <2>1. Journalled(save') /\ Evident(save')
      BY <1>1, <1>2, <1>3, <1>5 DEF Journalled, Evident, Asking, Copied
    <2>2. QED BY <1>2, <1>3, <1>5, <2>1 DEF SaveInv, Grounded, Careful
  <1>6. CASE ~save.active /\ save.started = save.ended
             /\ save' \in {SaveTo(begun, "prerequisites"), begun, marked}
    <2>1. /\ Alike(new, save', {"active", "started", "pc"}) /\ save'.active = TRUE
          /\ save'.started \in {new.started, new.started \union {new.id}}
          /\ \/ save'.pc = "idle"
             \/ save'.pc = "prerequisites" /\ save'.started = new.started \union {new.id}
      BY <1>3, <1>6 DEF SaveTo, Alike, SaveFields
    <2>2. /\ DOMAIN save' = SaveFields /\ save'.names = new.names /\ save'.version = new.version
          /\ save'.clock = new.clock /\ save'.id = new.id /\ save'.oldest = new.oldest
          /\ save'.snapshot = new.snapshot /\ save'.heard = new.heard /\ save'.sent = new.sent
          /\ save'.ended = new.ended /\ save'.loose = new.loose /\ save'.helper = new.helper
          /\ save'.tested = new.tested /\ save'.good = new.good /\ save'.claims = new.claims
      BY <1>3, <2>1 DEF Alike, SaveFields
    <2>3. SaveShape(save')
      <3>1. new.sent \subseteq new.started /\ new.id \in Nat /\ \A k \in new.started : k \in Nat /\ k <= new.id
        BY <1>2 DEF SaveShape
      <3>2. save'.sent \subseteq save'.started /\ \A k \in save'.started : k \in Nat /\ k <= save'.id
        BY <2>1, <2>2, <3>1
      <3>3. QED BY <1>2, <2>2, <3>2 DEF SaveShape
    <2>4. ~save.loose
      BY <1>1, <1>6 DEF Journalled
    <2>5. new.id \notin new.sent
      <3>1. \A k \in save.sent : k \in Nat /\ k <= save.id
        BY <1>1 DEF SaveShape
      <3>2. QED BY <1>1, <1>2, <1>3, <3>1
    <2>6. Journalled(save')
      BY <1>2, <1>3, <1>6, <2>1, <2>2, <2>4, <2>5 DEF Journalled
    <2>7. Evident(save')
      BY <1>2, <2>1, <2>2 DEF Evident, Asking, Copied
    <2>8. QED BY <1>2, <1>3, <2>2, <2>3, <2>6, <2>7 DEF SaveInv, Grounded, Careful
  <1>7. QED BY <1>4, <1>5, <1>6

LEMMA CloseSaveKeeps ==
  ASSUME SaveInv(save), CloseSave \/ SaveCrash
  PROVE  SaveInv(save') /\ Grounded(save, save') /\ Careful(save, save')
  <1> DEFINE new == NewAttempt(save, save.id)
             idle == SaveTo(new, "idle")
             recorded == [idle EXCEPT !.ended = @ \cup {idle.id}]
             unmarked == [recorded EXCEPT !.active = FALSE]
             closed == [unmarked EXCEPT !.claims = IF save.good THEN @ \cup {save.id} ELSE @]
             crashed == [idle EXCEPT !.loose = @ \/ save.helper = "running"]
  <1>1. DOMAIN save = SaveFields /\ SaveShape(save) /\ save.id \in Nat /\ Journalled(save)
        /\ save.pc # "idle" /\ save.active
    BY DEF SaveInv, SaveShape, CloseSave, SaveCrash, Saving, Journalled
  <1>2. /\ Alike(save, new, {"id", "late", "baseline", "previous", "armed", "heard", "snapshot", "tested",
                             "helper", "unconfirmed", "good", "oldest"})
        /\ new.id = save.id /\ new.tested = {} /\ new.helper = "none" /\ new.good = FALSE /\ SaveShape(new)
    <2>1. save.id \in Nat /\ save.id <= save.id
      BY <1>1
    <2>2. QED BY <1>1, <2>1, NewAttemptFacts
  <1>3. /\ DOMAIN new = SaveFields /\ new.names = save.names /\ new.started = save.started
        /\ new.sent = save.sent /\ new.ended = save.ended /\ new.active = save.active
        /\ new.loose = save.loose /\ new.claims = save.claims
    BY <1>1, <1>2 DEF Alike, SaveFields
  <1> HIDE DEF new
  <1>4. /\ Alike(new, save', {"pc", "ended", "active", "claims", "loose", "meddled"}) /\ save'.pc = "idle"
        /\ \/ save'.active = new.active /\ save'.claims = new.claims
           \/ /\ save.pc = "close" /\ ~save.unconfirmed /\ save'.loose = new.loose
              /\ save'.ended = new.ended \union {save.id}
              /\ save'.claims \in {new.claims} \union (IF save.good THEN {new.claims \union {save.id}} ELSE {})
    <2>1. CASE SaveCrash
      <3>1. save' = [crashed EXCEPT !.meddled = @ + 1]
        BY <2>1 DEF SaveCrash, Meddle, new
      <3>2. QED BY <1>3, <3>1 DEF SaveTo, Alike, SaveFields
    <2>2. CASE CloseSave
      <3>1. save.pc = "close" /\ (save' = idle \/ (~save.unconfirmed /\ save' \in {recorded, unmarked, closed}))
        BY <2>2 DEF CloseSave, Completed, Saving, new
      <3>2. idle.id = save.id
        BY <1>2, <1>3 DEF SaveTo, SaveFields
      <3>3. QED BY <1>3, <3>1, <3>2 DEF SaveTo, Alike, SaveFields
    <2>3. QED BY <2>1, <2>2
  <1>5. /\ DOMAIN save' = SaveFields /\ save'.names = new.names /\ save'.version = new.version
        /\ save'.clock = new.clock /\ save'.id = new.id /\ save'.oldest = new.oldest
        /\ save'.snapshot = new.snapshot /\ save'.heard = new.heard /\ save'.sent = new.sent
        /\ save'.started = new.started /\ save'.helper = new.helper
        /\ save'.tested = new.tested /\ save'.good = new.good
    BY <1>3, <1>4 DEF Alike, SaveFields
  <1>6. SaveShape(save')
    BY <1>2, <1>5 DEF SaveShape
  <1>7. Journalled(save')
    BY <1>1, <1>2, <1>3, <1>4, <1>5 DEF Journalled
  <1>8. Evident(save')
    BY <1>4 DEF Evident, Asking, Copied
  <1>9. Grounded(save, save') /\ Careful(save, save')
    BY <1>2, <1>3, <1>4, <1>5 DEF Grounded, Careful
  <1>10. QED BY <1>6, <1>7, <1>8, <1>9 DEF SaveInv

\* Asking OBS to save, and waiting for its word.
LEMMA AskingKeeps ==
  ASSUME SaveInv(save),
         \/ Prerequisites \/ TakeBaseline \/ DispatchSave \/ SaveAnswered \/ AskAgain \/ ConfirmSave
  PROVE  SaveInv(save') /\ Grounded(save, save') /\ Careful(save, save')
  <1>1. DOMAIN save = SaveFields /\ SaveShape(save) /\ Journalled(save) /\ Evident(save)
        /\ save.pc \in {"prerequisites", "baseline", "dispatch", "sent", "corroborate", "confirm"}
    BY DEF SaveInv, SaveShape, Prerequisites, TakeBaseline, DispatchSave, SaveAnswered, AskAgain,
           ConfirmSave, Saving
  <1>2. CASE save' = Unverified(save)
    BY <1>1, <1>2, GivesUp
  <1>3. CASE save' # Unverified(save)
    <2>1. /\ Alike(save, save', {"pc", "previous", "baseline", "armed", "sent"})
          /\ \/ /\ save.pc = "prerequisites" /\ save'.pc = "baseline" /\ save'.sent = save.sent
             \/ /\ save.pc = "baseline" /\ save'.pc = "dispatch" /\ save'.sent = save.sent
                /\ save'.baseline = {n \in Paths : save.names[n] # Free}
             \/ /\ save.pc = "dispatch" /\ save'.pc = "sent" /\ save'.sent = save.sent \union {save.id}
                /\ save'.baseline = save.baseline
             \/ /\ save.pc = "sent" /\ save'.pc = "candidate" /\ save'.sent = save.sent
                /\ save'.baseline = save.baseline
             \/ save.pc = "corroborate" /\ save'.pc = "confirm" /\ save'.sent = save.sent
             \/ save.pc = "confirm" /\ save'.pc = "finish" /\ save'.sent = save.sent
      <3>1. CASE Prerequisites
        BY <1>1, <1>3, <3>1 DEF Prerequisites, Saving, SaveTo, Alike, SaveFields
      <3>2. CASE TakeBaseline
        BY <1>1, <1>3, <3>2 DEF TakeBaseline, Saving, SaveTo, Alike, SaveFields
      <3>3. CASE DispatchSave
        BY <1>1, <1>3, <3>3 DEF DispatchSave, Saving, SaveTo, Alike, SaveFields
      <3>4. CASE SaveAnswered
        BY <1>1, <1>3, <3>4 DEF SaveAnswered, Saving, SaveTo, Alike, SaveFields
      <3>5. CASE AskAgain
        BY <1>1, <1>3, <3>5 DEF AskAgain, Saving, SaveTo, Alike, SaveFields
      <3>6. CASE ConfirmSave
        BY <1>1, <1>3, <3>6 DEF ConfirmSave, Saving, SaveTo, Alike, SaveFields
      <3>7. QED BY <3>1, <3>2, <3>3, <3>4, <3>5, <3>6
    <2>2. /\ DOMAIN save' = SaveFields /\ save'.names = save.names /\ save'.version = save.version
          /\ save'.clock = save.clock /\ save'.id = save.id /\ save'.oldest = save.oldest
          /\ save'.snapshot = save.snapshot /\ save'.heard = save.heard /\ save'.started = save.started
          /\ save'.helper = save.helper /\ save'.tested = save.tested /\ save'.good = save.good
          /\ save'.claims = save.claims /\ save'.active = save.active /\ save'.loose = save.loose
          /\ save'.ended = save.ended
      BY <1>1, <2>1 DEF Alike, SaveFields
    <2>3. CopyIntact(save') = CopyIntact(save)
      BY <2>2 DEF CopyIntact, VersionOf
    <2>4. ~save.loose
      BY <1>1 DEF Journalled
    <2>5. save'.sent \subseteq save'.started /\ Journalled(save')
      <3>1. save.pc = "dispatch" => save.id \in save.started
        BY <1>1 DEF Journalled
      <3>2. QED BY <1>1, <2>1, <2>2, <2>4, <3>1 DEF Journalled, SaveShape
    <2>6. SaveShape(save')
      BY <1>1, <2>2, <2>5, SameShape
    <2>7. \A n \in Paths : save.names[n] \in Nat
      BY <1>1 DEF SaveShape, SaveNames, Files, Numbered
    <2>8. Evident(save')
      BY <1>1, <2>1, <2>2, <2>3 DEF Evident, Asking, Copied
    <2>9. Grounded(save, save') /\ Careful(save, save')
      BY <1>1, <2>1, <2>2, <2>4 DEF Grounded, Careful, Journalled, SaveShape
    <2>10. QED BY <2>5, <2>6, <2>8, <2>9 DEF SaveInv
  <1>4. QED BY <1>2, <1>3

LEMMA CandidateKeeps ==
  ASSUME SaveInv(save), TakeCandidate
  PROVE  SaveInv(save') /\ Grounded(save, save') /\ Careful(save, save')
  <1>1. DOMAIN save = SaveFields /\ SaveShape(save) /\ Journalled(save) /\ Evident(save)
        /\ save.pc = "candidate"
    BY DEF SaveInv, SaveShape, TakeCandidate, Saving
  <1>2. CASE save' = Unverified(save)
    BY <1>1, <1>2, GivesUp
  <1> DEFINE n == Head(save.heard)
  <1>3. CASE save' # Unverified(save)
    <2>1. PICK q : q = [NoSnapshot EXCEPT !.path = n, !.file = save.names[n], !.version = VersionOf(save, n)]
      OBVIOUS
    <2>2. /\ Len(save.heard) = 1 /\ n \notin save.baseline /\ save.names[n] # Free
          /\ save' = SaveTo([save EXCEPT !.snapshot = q], "copy")
      BY <1>3, <2>1 DEF TakeCandidate
    <2>3. n \in Paths
      <3>1. save.heard \in Seq(Paths)
        BY <1>1 DEF SaveShape
      <3>2. QED BY <2>2, <3>1
    <2>4. /\ Alike(save, save', {"snapshot", "pc"}) /\ save'.pc = "copy" /\ save'.snapshot = q
      BY <1>1, <2>2 DEF SaveTo, Alike, SaveFields
    <2>5. DOMAIN q = SnapshotFields /\ q.copy = 0 /\ q.made = 0 /\ q.file = save.names[n]
      BY <2>1 DEF NoSnapshot, SnapshotFields, Free
    <2>6. /\ DOMAIN save' = SaveFields /\ save'.names = save.names /\ save'.version = save.version
          /\ save'.clock = save.clock /\ save'.id = save.id /\ save'.oldest = save.oldest
          /\ save'.heard = save.heard /\ save'.started = save.started /\ save'.sent = save.sent
          /\ save'.helper = save.helper /\ save'.tested = save.tested /\ save'.good = save.good
          /\ save'.claims = save.claims /\ save'.active = save.active /\ save'.loose = save.loose
          /\ save'.ended = save.ended
      BY <1>1, <2>4 DEF Alike, SaveFields
    <2>7. SaveShape(save')
      BY <1>1, <2>4, <2>5, <2>6 DEF SaveShape, Files
    <2>8. Journalled(save')
      BY <1>1, <2>4, <2>6 DEF Journalled
    <2>9. save.names[n] >= save.oldest
      BY <1>1, <2>2, <2>3 DEF Evident
    <2>10. Evident(save')
      BY <1>1, <2>4, <2>5, <2>6, <2>9 DEF Evident, Asking, Copied
    <2>11. QED BY <2>6, <2>7, <2>8, <2>10 DEF SaveInv, Grounded, Careful
  <1>4. QED BY <1>2, <1>3

LEMMA MakeCopyKeeps ==
  ASSUME SaveInv(save), MakeCopy
  PROVE  SaveInv(save') /\ Grounded(save, save') /\ Careful(save, save')
  <1>1. DOMAIN save = SaveFields /\ SaveShape(save) /\ Journalled(save) /\ Evident(save)
        /\ save.pc = "copy"
    BY DEF SaveInv, SaveShape, MakeCopy, Saving
  <1>2. CASE save' = Unverified(save)
    BY <1>1, <1>2, GivesUp
  <1> DEFINE u == Named(save, Copy)
             f == FreshFile(save)
  <1>3. CASE save' # Unverified(save)
    <2>1. /\ save.names[Copy] = Free
          /\ save' = SaveTo([u EXCEPT !.snapshot.copy = u.names[Copy], !.snapshot.made = VersionOf(u, Copy),
                                      !.snapshot.hash = save.version[save.snapshot.file]], "compare")
      BY <1>3 DEF MakeCopy
    <2>2. /\ Alike(save, u, {"clock", "version", "names"}) /\ u.clock = save.clock + 1
          /\ u.version[f] = save.clock + 1 /\ u.names[Copy] = f
          /\ \A x \in SaveNames \ {Copy} : u.names[x] = save.names[x]
          /\ f \in Nat /\ f # 0 /\ SaveShape(u)
      BY <1>1, NamedFacts DEF SaveNames
    <2>3. /\ DOMAIN u = SaveFields /\ u.id = save.id /\ u.oldest = save.oldest /\ u.snapshot = save.snapshot
          /\ u.heard = save.heard /\ u.started = save.started /\ u.sent = save.sent
          /\ u.helper = save.helper /\ u.tested = save.tested /\ u.good = save.good
          /\ u.claims = save.claims /\ u.active = save.active /\ u.loose = save.loose
          /\ u.ended = save.ended /\ DOMAIN u.snapshot = SnapshotFields
      BY <1>1, <2>2 DEF Alike, SaveFields, SaveShape
    <2>4. VersionOf(u, Copy) = save.clock + 1
      BY <2>2 DEF VersionOf, Free
    <2> HIDE DEF u, f
    <2>5. /\ Alike(u, save', {"snapshot", "pc"}) /\ save'.pc = "compare"
          /\ Alike(u.snapshot, save'.snapshot, {"copy", "made", "hash"})
          /\ save'.snapshot.copy = f /\ save'.snapshot.made = save.clock + 1
      BY <2>1, <2>2, <2>3, <2>4 DEF SaveTo, Alike, SaveFields, SnapshotFields
    <2>6. /\ DOMAIN save' = SaveFields /\ save'.names = u.names /\ save'.version = u.version
          /\ save'.clock = u.clock /\ save'.id = u.id /\ save'.oldest = u.oldest
          /\ save'.heard = u.heard /\ save'.started = u.started /\ save'.sent = u.sent
          /\ save'.helper = u.helper /\ save'.tested = u.tested /\ save'.good = u.good
          /\ save'.claims = u.claims /\ save'.active = u.active /\ save'.loose = u.loose
          /\ save'.ended = u.ended
      BY <2>3, <2>5 DEF Alike, SaveFields
    <2>7. DOMAIN save'.snapshot = SnapshotFields /\ save'.snapshot.file = save.snapshot.file
      BY <2>3, <2>5 DEF Alike, SnapshotFields
    <2>8. f \in Files(u.version) /\ save.clock + 1 \in 0..u.clock
      <3>1. u.names[Copy] \in Files(u.version) /\ save.clock \in Nat
        BY <1>1, <2>2 DEF SaveShape, SaveNames
      <3>2. QED BY <2>2, <3>1
    <2>9. SaveShape(save')
      BY <2>2, <2>5, <2>6, <2>7, <2>8 DEF SaveShape
    <2>10. Journalled(save')
      BY <1>1, <2>3, <2>5, <2>6 DEF Journalled
    <2>11. save.tested = {} /\ save.id \in save.sent /\ save.snapshot.file >= save.oldest
      BY <1>1 DEF Evident, Asking
    <2>12. Evident(save')
      BY <2>2, <2>3, <2>5, <2>6, <2>7, <2>11 DEF Evident, Asking, Copied, Free
    <2>13. Grounded(save, save') /\ Careful(save, save')
      BY <2>1, <2>3, <2>6 DEF Grounded, Careful
    <2>14. QED BY <2>9, <2>10, <2>12, <2>13 DEF SaveInv
  <1>4. QED BY <1>2, <1>3

\* The helpers read the copy; one that is not joined stops the attempt.
LEMMA HelperKeeps ==
  ASSUME SaveInv(save),
         \/ CompareCopy \/ Discard
         \/ \E x \in {<<"probe", "probing">>, <<"decode", "decoding">>} : RunHelper(x[1], x[2])
         \/ \E x \in {<<"probing", "decode">>, <<"decoding", "corroborate">>} : HelperEnds(x[1], x[2])
  PROVE  SaveInv(save') /\ Grounded(save, save') /\ Careful(save, save')
  <1>1. DOMAIN save = SaveFields /\ SaveShape(save) /\ Journalled(save) /\ Evident(save)
        /\ save.pc \in {"compare", "discard", "probe", "decode", "probing", "decoding"}
    BY DEF SaveInv, SaveShape, CompareCopy, Discard, RunHelper, HelperEnds, Saving
  <1>2. save.active /\ ~save.loose /\ save.helper # "loose"
    BY <1>1 DEF Journalled
  <1>3. CASE save' \in CopyRetired(save)
    <2>1. /\ SaveInv(save') /\ save'.good = save.good /\ save'.sent = save.sent /\ save'.claims = save.claims
          /\ save'.names[Copy] # save.names[Copy] => save.names[Copy] = save.snapshot.copy
      BY <1>1, <1>2, <1>3, RetireKeeps
    <2>2. QED BY <1>2, <2>1 DEF Grounded, Careful
  <1>4. CASE CompareCopy /\ save' = SaveTo(save, "probe")
    <2>1. Alike(save, save', {"pc"}) /\ save'.pc = "probe" /\ save.pc = "compare"
      BY <1>1, <1>4 DEF CompareCopy, Saving, SaveTo, Alike, SaveFields
    <2>2. /\ DOMAIN save' = SaveFields /\ save'.names = save.names /\ save'.version = save.version
          /\ save'.clock = save.clock /\ save'.id = save.id /\ save'.oldest = save.oldest
          /\ save'.snapshot = save.snapshot /\ save'.heard = save.heard /\ save'.started = save.started
          /\ save'.helper = save.helper /\ save'.tested = save.tested /\ save'.good = save.good
          /\ save'.claims = save.claims /\ save'.active = save.active /\ save'.loose = save.loose
          /\ save'.ended = save.ended /\ save'.sent = save.sent
      BY <1>1, <2>1 DEF Alike, SaveFields
    <2>3. SaveShape(save') /\ Journalled(save')
      BY <1>1, <2>1, <2>2, SameShape DEF Journalled, SaveShape
    <2>4. Evident(save')
      BY <1>1, <2>1, <2>2 DEF Evident, Asking, Copied
    <2>5. QED BY <2>2, <2>3, <2>4 DEF SaveInv, Grounded, Careful
  <1> DEFINE reads(r) == [SaveTo(save, r) EXCEPT !.helper = "running", !.tested = @ \cup {VersionOf(save, Copy)}]
  <1>5. ASSUME NEW pc, NEW running, <<pc, running>> \in {<<"probe", "probing">>, <<"decode", "decoding">>},
               save.pc = pc,
               save' = reads(running)
        PROVE  SaveInv(save') /\ Grounded(save, save') /\ Careful(save, save')
    <2>1. /\ Alike(save, save', {"pc", "helper", "tested"}) /\ save'.pc = running /\ save'.helper = "running"
          /\ save'.tested = save.tested \union {VersionOf(save, Copy)}
      BY <1>1, <1>5 DEF SaveTo, Alike, SaveFields
    <2>2. /\ DOMAIN save' = SaveFields /\ save'.names = save.names /\ save'.version = save.version
          /\ save'.clock = save.clock /\ save'.id = save.id /\ save'.oldest = save.oldest
          /\ save'.snapshot = save.snapshot /\ save'.heard = save.heard /\ save'.started = save.started
          /\ save'.good = save.good /\ save'.sent = save.sent
          /\ save'.claims = save.claims /\ save'.active = save.active /\ save'.loose = save.loose
          /\ save'.ended = save.ended
      BY <1>1, <2>1 DEF Alike, SaveFields
    <2>3. pc \in {"probe", "decode"} /\ running \in {"probing", "decoding"}
      BY <1>5
    <2>4. SaveShape(save') /\ Journalled(save')
      BY <1>1, <1>2, <2>1, <2>2, <2>3, SameShape DEF Journalled, SaveShape
    <2>5. CopyIntact(save') = CopyIntact(save) /\ (CopyIntact(save) => VersionOf(save, Copy) = save.snapshot.made)
      BY <2>2 DEF CopyIntact, VersionOf
    <2>6. Evident(save')
      BY <1>1, <1>5, <2>1, <2>2, <2>3, <2>5 DEF Evident, Asking, Copied
    <2>7. QED BY <2>2, <2>4, <2>6 DEF SaveInv, Grounded, Careful
  <1>6. ASSUME NEW running, NEW next,
               <<running, next>> \in {<<"probing", "decode">>, <<"decoding", "corroborate">>},
               save.pc = running, HelperEnds(running, next)
        PROVE  SaveInv(save') /\ Grounded(save, save') /\ Careful(save, save')
    <2>1. PICK how \in {"ok", "failed", "loose"} :
            LET s == [save EXCEPT !.helper = IF how = "loose" THEN how ELSE "joined",
                                  !.loose = @ \/ how = "loose"]
            IN  save' \in IF how = "ok" /\ ~save.late THEN {SaveTo(s, next)} ELSE CopyRetired(s)
      BY <1>6 DEF HelperEnds
    <2> DEFINE s == [save EXCEPT !.helper = IF how = "loose" THEN how ELSE "joined",
                                 !.loose = @ \/ how = "loose"]
    <2>2. /\ Alike(save, s, {"helper", "loose"}) /\ s.helper = (IF how = "loose" THEN how ELSE "joined")
          /\ s.loose = (save.loose \/ how = "loose")
      BY <1>1 DEF Alike, SaveFields
    <2>3. /\ DOMAIN s = SaveFields /\ s.names = save.names /\ s.version = save.version
          /\ s.clock = save.clock /\ s.id = save.id /\ s.oldest = save.oldest /\ s.tested = save.tested
          /\ s.snapshot = save.snapshot /\ s.heard = save.heard /\ s.started = save.started
          /\ s.good = save.good /\ s.sent = save.sent /\ s.pc = save.pc
          /\ s.claims = save.claims /\ s.active = save.active /\ s.ended = save.ended
      BY <1>1, <2>2 DEF Alike, SaveFields
    <2>4. SaveShape(s)
      BY <1>1, <2>3, SameShape DEF SaveShape
    <2>5. \/ save' \in CopyRetired(s)
          \/ how = "ok" /\ save' = SaveTo(s, next)
      BY <2>1
    <2> HIDE DEF s
    <2>6. CASE save' \in CopyRetired(s)
      <3>1. s.loose <=> s.helper = "loose"
        BY <1>2, <2>2
      <3>2. /\ SaveInv(save') /\ save'.good = s.good /\ save'.sent = s.sent /\ save'.claims = s.claims
            /\ save'.names[Copy] # s.names[Copy] => s.names[Copy] = s.snapshot.copy
        BY <1>2, <2>3, <2>4, <2>6, <3>1, RetireKeeps
      <3>3. QED BY <1>2, <2>3, <3>2 DEF Grounded, Careful
    <2>7. CASE how = "ok" /\ save' = SaveTo(s, next)
      <3>1. Alike(s, save', {"pc"}) /\ save'.pc = next
        BY <2>3, <2>7 DEF SaveTo, Alike, SaveFields
      <3>2. /\ DOMAIN save' = SaveFields /\ save'.names = save.names /\ save'.version = save.version
            /\ save'.clock = save.clock /\ save'.id = save.id /\ save'.oldest = save.oldest
            /\ save'.snapshot = save.snapshot /\ save'.heard = save.heard /\ save'.started = save.started
            /\ save'.good = save.good /\ save'.sent = save.sent /\ save'.tested = save.tested
            /\ save'.claims = save.claims /\ save'.active = save.active
            /\ save'.ended = save.ended /\ save'.helper = s.helper /\ save'.loose = s.loose
        BY <2>3, <3>1 DEF Alike, SaveFields
      <3>3. running \in {"probing", "decoding"} /\ next \in {"decode", "corroborate"}
        BY <1>6
      <3>4. save'.helper = "joined" /\ ~save'.loose
        BY <1>2, <2>2, <2>7, <3>2
      <3>5. SaveShape(save') /\ Journalled(save')
        BY <1>1, <1>2, <3>1, <3>2, <3>3, <3>4, SameShape DEF Journalled, SaveShape
      <3>6. CopyIntact(save') = CopyIntact(save)
        BY <3>2 DEF CopyIntact, VersionOf
      <3>7. Evident(save')
        BY <1>1, <1>6, <3>1, <3>2, <3>3, <3>6 DEF Evident, Asking, Copied
      <3>8. QED BY <3>2, <3>5, <3>7 DEF SaveInv, Grounded, Careful
    <2>8. QED BY <2>5, <2>6, <2>7
  <1>7. CASE CompareCopy \/ Discard
    BY <1>3, <1>4, <1>7 DEF CompareCopy, Discard
  <1>8. CASE \E x \in {<<"probe", "probing">>, <<"decode", "decoding">>} : RunHelper(x[1], x[2])
    <2>1. PICK pc, running : /\ <<pc, running>> \in {<<"probe", "probing">>, <<"decode", "decoding">>}
                             /\ RunHelper(pc, running)
      BY <1>8
    <2>2. /\ save.pc = pc
          /\ save' \in CopyRetired(save) \/ save' = reads(running)
      BY <2>1 DEF RunHelper, Saving
    <2> HIDE DEF reads
    <2>3. QED BY <1>3, <1>5, <2>1, <2>2
  <1>9. CASE \E x \in {<<"probing", "decode">>, <<"decoding", "corroborate">>} : HelperEnds(x[1], x[2])
    <2>1. PICK running, next : /\ <<running, next>> \in {<<"probing", "decode">>, <<"decoding", "corroborate">>}
                               /\ HelperEnds(running, next)
      BY <1>9
    <2>2. save.pc = running
      BY <2>1 DEF HelperEnds, Saving
    <2>3. QED BY <1>6, <2>1, <2>2
  <1>10. QED BY <1>7, <1>8, <1>9

\* The verdict: the copy is compared with the original once more.
LEMMA FinishKeeps ==
  ASSUME SaveInv(save), FinishSave
  PROVE  SaveInv(save') /\ Grounded(save, save') /\ Careful(save, save')
  <1>1. DOMAIN save = SaveFields /\ SaveShape(save) /\ Journalled(save) /\ Evident(save)
        /\ save.pc = "finish"
    BY DEF SaveInv, SaveShape, FinishSave, Saving
  <1>2. save.active /\ ~save.loose /\ save.helper # "loose"
    BY <1>1 DEF Journalled
  <1>3. PICK t \in CopyRetired(save) :
           save' = t \/ (Unchanged(save) /\ save' = [t EXCEPT !.good = ~t.unconfirmed])
    BY DEF FinishSave
  <1>4. /\ SaveInv(t) /\ DOMAIN t = SaveFields /\ t.good = save.good /\ t.sent = save.sent
        /\ t.claims = save.claims /\ t.pc = "close"
        /\ t.names[Copy] # save.names[Copy] => save.names[Copy] = save.snapshot.copy
    BY <1>1, <1>2, RetireKeeps
  <1>5. CASE save' = t
    BY <1>2, <1>4, <1>5 DEF Grounded, Careful
  <1>6. CASE Unchanged(save) /\ save' = [t EXCEPT !.good = ~t.unconfirmed]
    <2>1. Alike(t, save', {"good"})
      BY <1>4, <1>6 DEF Alike, SaveFields
    <2>2. /\ DOMAIN save' = SaveFields /\ save'.names = t.names /\ save'.version = t.version
          /\ save'.clock = t.clock /\ save'.id = t.id /\ save'.oldest = t.oldest /\ save'.pc = t.pc
          /\ save'.snapshot = t.snapshot /\ save'.heard = t.heard /\ save'.started = t.started
          /\ save'.sent = t.sent /\ save'.claims = t.claims /\ save'.active = t.active
          /\ save'.ended = t.ended /\ save'.helper = t.helper /\ save'.loose = t.loose
          /\ save'.unconfirmed = t.unconfirmed
      BY <1>4, <2>1 DEF Alike, SaveFields
    <2>3. SaveInv(save')
      <3>1. SaveShape(save')
        BY <1>4, <2>2, SameShape DEF SaveInv, SaveShape
      <3>2. Journalled(save')
        BY <1>4, <2>2 DEF SaveInv, Journalled
      <3>3. Evident(save')
        BY <1>4, <2>2 DEF Evident, Asking, Copied
      <3>4. QED BY <3>1, <3>2, <3>3 DEF SaveInv
    <2>4. CopyIntact(save)
      BY <1>1, <1>6 DEF Unchanged, CopyIntact, Evident, Copied
    <2>5. save.tested = {save.snapshot.made} /\ save.id \in save.sent /\ save.snapshot.file >= save.oldest
      BY <1>1, <2>4 DEF Evident, Copied
    <2>6. Grounded(save, save') /\ Careful(save, save')
      BY <1>2, <1>4, <1>6, <2>2, <2>5 DEF Grounded, Careful, Unchanged
    <2>7. QED BY <2>3, <2>6
  <1>7. QED BY <1>3, <1>5, <1>6

\* Others may change files and announce saves, but never make a copy intact.
LEMMA DiskKeeps ==
  ASSUME NEW s, SaveInv(s), NEW u, SaveShape(u),
         Alike(s, u, {"names", "version", "clock", "last", "pending", "buffer", "late", "heard"}),
         CopyIntact(u) => CopyIntact(s),
         \A n \in Paths : u.names[n] \in {s.names[n], Free} \/ u.names[n] >= s.oldest,
         NEW t, Alike(u, t, {"tested", "meddled", "last", "pending"}),
         t.tested = u.tested \/ (u.pc \in {"probing", "decoding"} /\ t.tested = u.tested \union {VersionOf(u, Copy)})
  PROVE  SaveInv(t) /\ t.good = s.good /\ t.sent = s.sent /\ t.claims = s.claims
  <1>1. DOMAIN s = SaveFields /\ DOMAIN u = SaveFields /\ Journalled(s) /\ Evident(s)
    BY DEF SaveInv, SaveShape
  <1>2. /\ u.id = s.id /\ u.oldest = s.oldest /\ u.pc = s.pc /\ u.baseline = s.baseline
        /\ u.snapshot = s.snapshot /\ u.started = s.started /\ u.unconfirmed = s.unconfirmed
        /\ u.good = s.good /\ u.sent = s.sent /\ u.tested = s.tested
        /\ u.claims = s.claims /\ u.active = s.active
        /\ u.ended = s.ended /\ u.helper = s.helper /\ u.loose = s.loose
    BY <1>1 DEF Alike, SaveFields
  <1>3. /\ DOMAIN t = SaveFields /\ t.names = u.names /\ t.version = u.version /\ t.clock = u.clock
        /\ t.id = u.id /\ t.oldest = u.oldest /\ t.pc = u.pc /\ t.baseline = u.baseline
        /\ t.snapshot = u.snapshot /\ t.started = u.started /\ t.unconfirmed = u.unconfirmed
        /\ t.good = u.good /\ t.sent = u.sent /\ t.heard = u.heard
        /\ t.claims = u.claims /\ t.active = u.active
        /\ t.ended = u.ended /\ t.helper = u.helper /\ t.loose = u.loose
    BY <1>1 DEF Alike, SaveFields
  <1>4. SaveShape(t)
    BY <1>3, SameShape DEF SaveShape
  <1>5. Journalled(t)
    BY <1>1, <1>2, <1>3 DEF Journalled
  <1>6. CopyIntact(t) = CopyIntact(u) /\ (CopyIntact(u) => VersionOf(u, Copy) = u.snapshot.made)
    BY <1>3 DEF CopyIntact, VersionOf
  <1>7. t.pc \in {"dispatch", "sent", "candidate"} =>
          \A n \in Paths \ t.baseline : t.names[n] = Free \/ t.names[n] >= t.oldest
    BY <1>1, <1>2, <1>3 DEF Evident
  <1>8. u.pc \in {"probing", "decoding"} \/ t.tested = s.tested
    BY <1>2
  <1>9. t.pc \in Copied /\ CopyIntact(t) => t.tested \subseteq {t.snapshot.made}
    BY <1>1, <1>2, <1>3, <1>6 DEF Evident
  <1>10. t.pc \in Copied \ {"compare", "probe"} /\ CopyIntact(t) => t.snapshot.made \in t.tested
    BY <1>1, <1>2, <1>3, <1>6 DEF Evident
  <1>11. Evident(t)
    BY <1>1, <1>2, <1>3, <1>7, <1>8, <1>9, <1>10 DEF Evident, Asking
  <1>12. QED BY <1>2, <1>3, <1>4, <1>5, <1>11 DEF SaveInv

LEMMA RewriteMonotone ==
  ASSUME NEW s, SaveShape(s), NEW n \in SaveNames, s.names[n] # Free, NEW u, u = Rewritten(s, s.names[n])
  PROVE  /\ SaveShape(u) /\ Alike(s, u, {"version", "clock"}) /\ u.names = s.names
         /\ CopyIntact(u) => CopyIntact(s)
  <1> DEFINE f == s.names[n]
  <1>1. f \in DOMAIN s.version /\ DOMAIN s = SaveFields /\ s.clock \in Nat /\ s.snapshot.made \in 0..s.clock
        /\ s.names[Copy] \in Files(s.version)
    BY DEF SaveShape, Files, Free, SaveNames
  <1>2. /\ Alike(s, u, {"clock", "version"}) /\ u.version[f] = s.clock + 1 /\ SaveShape(u)
        /\ \A g \in DOMAIN s.version : g # f => u.version[g] = s.version[g]
    BY <1>1, RewrittenFacts
  <1>3. u.names = s.names /\ u.snapshot = s.snapshot
    BY <1>1, <1>2 DEF Alike, SaveFields
  <1>4. CopyIntact(u) => CopyIntact(s)
    BY <1>1, <1>2, <1>3 DEF CopyIntact, VersionOf, Files, Free
  <1>5. QED BY <1>2, <1>3, <1>4 DEF Alike

LEMMA NameMonotone ==
  ASSUME NEW s, SaveShape(s), NEW n \in SaveNames, NEW u, u = Named(s, n)
  PROVE  /\ SaveShape(u) /\ Alike(s, u, {"version", "clock", "names"})
         /\ CopyIntact(u) => CopyIntact(s)
         /\ \A x \in Paths : u.names[x] \in {s.names[x], Free} \/ u.names[x] >= s.oldest
  <1> DEFINE f == FreshFile(s)
  <1>1. DOMAIN s = SaveFields /\ s.names[Copy] \in Files(s.version) /\ s.snapshot.copy \in Files(s.version)
    BY DEF SaveShape, SaveNames
  <1>2. /\ Alike(s, u, {"clock", "version", "names"})
        /\ \A g \in DOMAIN s.version : u.version[g] = s.version[g]
        /\ u.names[n] = f /\ \A x \in SaveNames \ {n} : u.names[x] = s.names[x]
        /\ f \notin Files(s.version) /\ f >= s.oldest /\ SaveShape(u)
    BY NamedFacts
  <1>3. u.snapshot = s.snapshot
    BY <1>1, <1>2 DEF Alike, SaveFields
  <1>4. CopyIntact(u) => CopyIntact(s)
    <2>1. CASE n = Copy
      BY <1>1, <1>2, <1>3, <2>1 DEF CopyIntact
    <2>2. CASE n # Copy
      <3>1. u.names[Copy] = s.names[Copy]
        BY <1>2, <2>2 DEF SaveNames
      <3>2. QED BY <1>1, <1>2, <1>3, <3>1 DEF CopyIntact, VersionOf, Files, Free
    <2>3. QED BY <2>1, <2>2
  <1>5. \A x \in Paths : u.names[x] \in {s.names[x], Free} \/ u.names[x] >= s.oldest
    BY <1>2 DEF SaveNames
  <1>6. QED BY <1>2, <1>4, <1>5 DEF Alike

LEMMA OthersSaveKeep ==
  ASSUME SaveInv(save),
         TooLate \/ SaveMeddling \/ (\E n \in Paths : ObsSaves(n) \/ SaveAnnounced(n))
  PROVE  SaveInv(save') /\ Grounded(save, save')
  <1>1. DOMAIN save = SaveFields /\ SaveShape(save) /\ DOMAIN save.names = SaveNames
    BY DEF SaveInv, SaveShape
  <1>2. ASSUME NEW u, SaveShape(u),
               Alike(save, u, {"names", "version", "clock", "last", "pending", "buffer", "late", "heard"}),
               CopyIntact(u) => CopyIntact(save),
               \A n \in Paths : u.names[n] \in {save.names[n], Free} \/ u.names[n] >= save.oldest,
               \/ save' = u
               \/ save' = [u EXCEPT !.meddled = @ + 1]
               \/ save' = [ReadByHelper(u) EXCEPT !.meddled = @ + 1]
               \/ \E n : save' = SavedAs(u, n)
               \/ \E n : save' = [SavedAs(u, n) EXCEPT !.meddled = @ + 1]
        PROVE  SaveInv(save') /\ Grounded(save, save')
    <2>1. DOMAIN u = SaveFields
      BY <1>1, <1>2 DEF Alike
    <2>2. /\ Alike(u, save', {"tested", "meddled", "last", "pending"})
          /\ \/ save'.tested = u.tested
             \/ u.pc \in {"probing", "decoding"} /\ save'.tested = u.tested \union {VersionOf(u, Copy)}
      <3>1. CASE save' = u
        BY <2>1, <3>1 DEF Alike
      <3>2. CASE save' = [u EXCEPT !.meddled = @ + 1]
        BY <2>1, <3>2 DEF Alike, SaveFields
      <3>3. CASE save' = [ReadByHelper(u) EXCEPT !.meddled = @ + 1]
        BY <2>1, <3>3 DEF Alike, SaveFields, ReadByHelper
      <3>4. ASSUME NEW n, save' = SavedAs(u, n) \/ save' = [SavedAs(u, n) EXCEPT !.meddled = @ + 1]
            PROVE  Alike(u, save', {"tested", "meddled", "last", "pending"}) /\ save'.tested = u.tested
        BY <2>1, <3>4 DEF Alike, SaveFields, SavedAs
      <3>5. QED BY <1>2, <3>1, <3>2, <3>3, <3>4
    <2>3. SaveInv(save') /\ save'.good = save.good /\ save'.sent = save.sent /\ save'.claims = save.claims
      BY <1>2, <2>2, DiskKeeps
    <2>4. QED BY <2>3 DEF Grounded
  <1>3. ASSUME NEW n \in SaveNames, save.names[n] # Free, NEW u, u = Rewritten(save, save.names[n])
        PROVE  /\ SaveShape(u)
               /\ Alike(save, u, {"names", "version", "clock", "last", "pending", "buffer", "late", "heard"})
               /\ CopyIntact(u) => CopyIntact(save)
               /\ \A x \in Paths : u.names[x] \in {save.names[x], Free} \/ u.names[x] >= save.oldest
    BY <1>1, <1>3, RewriteMonotone DEF Alike
  <1>4. ASSUME NEW n \in SaveNames, NEW u, u = Named(save, n)
        PROVE  /\ SaveShape(u)
               /\ Alike(save, u, {"names", "version", "clock", "last", "pending", "buffer", "late", "heard"})
               /\ CopyIntact(u) => CopyIntact(save)
               /\ \A x \in Paths : u.names[x] \in {save.names[x], Free} \/ u.names[x] >= save.oldest
    BY <1>1, <1>4, NameMonotone DEF Alike
  <1>5. ASSUME NEW n \in SaveNames, NEW u, u = [save EXCEPT !.names[n] = Free]
        PROVE  /\ SaveShape(u)
               /\ Alike(save, u, {"names", "version", "clock", "last", "pending", "buffer", "late", "heard"})
               /\ CopyIntact(u) => CopyIntact(save)
               /\ \A x \in Paths : u.names[x] \in {save.names[x], Free} \/ u.names[x] >= save.oldest
    <2>1. Alike(save, u, {"names"}) /\ u.names = [save.names EXCEPT ![n] = Free]
      BY <1>1, <1>5 DEF Alike, SaveFields
    <2>2. DOMAIN u.names = SaveNames /\ u.names[n] = Free /\ \A x \in SaveNames \ {n} : u.names[x] = save.names[x]
      BY <1>1, <2>1
    <2>3. /\ DOMAIN u = SaveFields /\ u.version = save.version
          /\ u.clock = save.clock /\ u.id = save.id /\ u.oldest = save.oldest
          /\ u.snapshot = save.snapshot /\ u.heard = save.heard /\ u.started = save.started
          /\ u.sent = save.sent
      BY <1>1, <2>1 DEF Alike, SaveFields
    <2>4. SaveShape(u)
      BY <1>1, <2>2, <2>3 DEF SaveShape, Files, Free
    <2>5. CopyIntact(u) => CopyIntact(save)
      BY <2>2, <2>3 DEF CopyIntact, VersionOf, SaveNames
    <2>6. QED BY <2>1, <2>2, <2>4, <2>5 DEF Alike, SaveNames
  <1>6. ASSUME NEW u, Alike(save, u, {"buffer", "late", "pending", "heard"}), u.heard \in Seq(Paths)
        PROVE  /\ SaveShape(u)
               /\ Alike(save, u, {"names", "version", "clock", "last", "pending", "buffer", "late", "heard"})
               /\ CopyIntact(u) => CopyIntact(save)
               /\ \A x \in Paths : u.names[x] \in {save.names[x], Free} \/ u.names[x] >= save.oldest
    <2>1. /\ DOMAIN u = SaveFields /\ u.version = save.version /\ u.names = save.names
          /\ u.clock = save.clock /\ u.id = save.id /\ u.oldest = save.oldest
          /\ u.snapshot = save.snapshot /\ u.started = save.started /\ u.sent = save.sent
      BY <1>1, <1>6 DEF Alike, SaveFields
    <2>2. SaveShape(u)
      BY <1>1, <1>6, <2>1 DEF SaveShape
    <2>3. CopyIntact(u) => CopyIntact(save)
      BY <2>1 DEF CopyIntact, VersionOf
    <2>4. QED BY <1>6, <2>1, <2>2, <2>3 DEF Alike
  <1>7. save.heard \in Seq(Paths)
    BY <1>1 DEF SaveShape
  <1>8. CASE TooLate
    <2>1. PICK u : u = [save EXCEPT !.late = TRUE]
      OBVIOUS
    <2>2. Alike(save, u, {"buffer", "late", "pending", "heard"}) /\ u.heard = save.heard
      BY <1>1, <2>1 DEF Alike, SaveFields
    <2>3. save' = u
      BY <1>8, <2>1 DEF TooLate
    <2>4. QED BY <1>2, <1>6, <1>7, <2>2, <2>3
  <1>9. ASSUME NEW n \in Paths, SaveAnnounced(n)
        PROVE  SaveInv(save') /\ Grounded(save, save')
    <2>1. Alike(save, save', {"buffer", "late", "pending", "heard"})
          /\ save'.heard \in {save.heard, Append(save.heard, n)}
      BY <1>1, <1>9 DEF SaveAnnounced, Alike, SaveFields
    <2>2. save'.heard \in Seq(Paths)
      <3>1. Append(save.heard, n) \in Seq(Paths)
        BY <1>7, AppendProperties
      <3>2. QED BY <1>7, <2>1, <3>1
    <2>3. PICK u : u = save'
      OBVIOUS
    <2>4. QED BY <1>2, <1>6, <2>1, <2>2, <2>3
  <1>10. ASSUME NEW n \in Paths, ObsSaves(n)
         PROVE  SaveInv(save') /\ Grounded(save, save')
    <2>1. n \in SaveNames
      BY DEF SaveNames
    <2>2. CASE save' = SavedAs(Named(save, n), n)
      <3>1. PICK u : u = Named(save, n)
        OBVIOUS
      <3>2. save' = SavedAs(u, n)
        BY <2>2, <3>1
      <3>3. QED BY <1>2, <1>4, <2>1, <3>1, <3>2
    <2>3. CASE save.names[n] # Free /\ Meddle(SavedAs(Rewritten(save, save.names[n]), n))
      <3>1. PICK u : u = Rewritten(save, save.names[n])
        OBVIOUS
      <3>2. save' = [SavedAs(u, n) EXCEPT !.meddled = @ + 1]
        BY <2>3, <3>1 DEF Meddle
      <3>3. QED BY <1>2, <1>3, <2>1, <2>3, <3>1, <3>2
    <2>4. QED BY <1>10, <2>2, <2>3 DEF ObsSaves
  <1>11. CASE SaveMeddling
    <2>1. CASE Meddle([save EXCEPT !.buffer = ~@])
      <3>1. PICK u : u = [save EXCEPT !.buffer = ~@]
        OBVIOUS
      <3>2. Alike(save, u, {"buffer", "late", "pending", "heard"}) /\ u.heard = save.heard
        BY <1>1, <3>1 DEF Alike, SaveFields
      <3>3. save' = [u EXCEPT !.meddled = @ + 1]
        BY <2>1, <3>1 DEF Meddle
      <3>4. QED BY <1>2, <1>6, <1>7, <3>2, <3>3
    <2>2. ASSUME NEW n \in SaveNames,
                 \/ save.names[n] # Free /\ Meddle(ReadByHelper(Rewritten(save, save.names[n])))
                 \/ Meddle(ReadByHelper(Named(save, n)))
                 \/ Meddle([save EXCEPT !.names[n] = Free])
          PROVE  SaveInv(save') /\ Grounded(save, save')
      <3>1. CASE save.names[n] # Free /\ Meddle(ReadByHelper(Rewritten(save, save.names[n])))
        <4>1. PICK u : u = Rewritten(save, save.names[n])
          OBVIOUS
        <4>2. save' = [ReadByHelper(u) EXCEPT !.meddled = @ + 1]
          BY <3>1, <4>1 DEF Meddle
        <4>3. QED BY <1>2, <1>3, <3>1, <4>1, <4>2
      <3>2. CASE Meddle(ReadByHelper(Named(save, n)))
        <4>1. PICK u : u = Named(save, n)
          OBVIOUS
        <4>2. save' = [ReadByHelper(u) EXCEPT !.meddled = @ + 1]
          BY <3>2, <4>1 DEF Meddle
        <4>3. QED BY <1>2, <1>4, <4>1, <4>2
      <3>3. CASE Meddle([save EXCEPT !.names[n] = Free])
        <4>1. PICK u : u = [save EXCEPT !.names[n] = Free]
          OBVIOUS
        <4>2. save' = [u EXCEPT !.meddled = @ + 1]
          BY <3>3, <4>1 DEF Meddle
        <4>3. QED BY <1>2, <1>5, <4>1, <4>2
      <3>4. QED BY <2>2, <3>1, <3>2, <3>3
    <2>3. QED BY <1>11, <2>1, <2>2 DEF SaveMeddling, SaveNames
  <1>12. QED BY <1>8, <1>9, <1>10, <1>11

LEMMA SaveStepsKeep ==
  ASSUME SaveInv(save), SaveSteps
  PROVE  SaveInv(save') /\ Grounded(save, save') /\ Careful(save, save')
  <1>1. CASE \E x \in {<<"probe", "probing">>, <<"decode", "decoding">>} : RunHelper(x[1], x[2])
    BY <1>1, HelperKeeps
  <1>2. CASE \E x \in {<<"probing", "decode">>, <<"decoding", "corroborate">>} : HelperEnds(x[1], x[2])
    BY <1>2, HelperKeeps
  <1>3. RunHelper("probe", "probing") \/ RunHelper("decode", "decoding") =>
          \E x \in {<<"probe", "probing">>, <<"decode", "decoding">>} : RunHelper(x[1], x[2])
    OBVIOUS
  <1>4. HelperEnds("probing", "decode") \/ HelperEnds("decoding", "corroborate") =>
          \E x \in {<<"probing", "decode">>, <<"decoding", "corroborate">>} : HelperEnds(x[1], x[2])
    OBVIOUS
  <1>5. CASE CompareCopy \/ Discard
    BY <1>5, HelperKeeps
  <1>6. QED BY <1>1, <1>2, <1>3, <1>4, <1>5, BeginSaveKeeps, CloseSaveKeeps, AskingKeeps,
               CandidateKeeps, MakeCopyKeeps, FinishKeeps DEF SaveSteps

LEMMA SaveNextKeeps ==
  ASSUME SaveInv(save), SaveNext
  PROVE  SaveInv(save') /\ Grounded(save, save')
  BY SaveStepsKeep, CloseSaveKeeps, OthersSaveKeep DEF SaveNext

LEMMA SaveInitKeeps ==
  ASSUME SaveInit
  PROVE  SaveInv(save)
  <1>1. DOMAIN save = SaveFields
    BY DEF SaveInit, SaveFields
  <1>2. /\ save.names = [n \in SaveNames |-> IF n = "old" THEN 1 ELSE IF n = "other" THEN 2 ELSE Free]
        /\ save.version = [f \in {1, 2} |-> 1] /\ save.clock = 1 /\ save.id = 0 /\ save.oldest = 1
        /\ save.snapshot = NoSnapshot /\ save.heard = <<>> /\ save.started = {} /\ save.sent = {}
        /\ save.pc = "idle" /\ save.loose = FALSE /\ save.helper = "none"
    BY DEF SaveInit, SaveNames
  <1>3. DOMAIN save.snapshot = SnapshotFields /\ save.snapshot.copy = 0 /\ save.snapshot.made = 0
    BY <1>2 DEF NoSnapshot, SnapshotFields, Free
  <1>4. DOMAIN save.version = 1..2 /\ save.version[1] = 1 /\ save.version[2] = 1
    BY <1>2
  <1>5. Cardinality(DOMAIN save.version) = 2
    <2>1. Cardinality({1} \union {2}) = 2
      <3>1. IsFiniteSet({1}) /\ Cardinality({1}) = 1
        BY FS_Singleton
      <3>2. QED BY <3>1, FS_AddElement
    <2>2. DOMAIN save.version = {1} \union {2}
      BY <1>2
    <2>3. QED BY <2>1, <2>2, Zenon
  <1>6. Numbered(save.version)
    BY <1>4, <1>5 DEF Numbered
  <1>7. DOMAIN save.names = SaveNames /\ \A n \in SaveNames : save.names[n] \in Files(save.version)
    BY <1>2, <1>4 DEF Files, Free
  <1>8. <<>> \in Seq(Paths)
    OBVIOUS
  <1>9. SaveShape(save)
    BY <1>1, <1>2, <1>3, <1>4, <1>5, <1>6, <1>7, <1>8 DEF SaveShape, Files
  <1>10. Journalled(save) /\ Evident(save)
    BY <1>2 DEF Journalled, Evident, Asking, Copied
  <1>11. QED BY <1>9, <1>10 DEF SaveInv

-----------------------------------------------------------------------------
(* A confirmed output start.                                               *)

LaunchFields == {"pc", "try", "records", "sent", "accepted", "told", "allowed", "late", "output",
                 "seen", "meddled"}
TryFields == {"id", "event", "expired", "reply"}
Fates == {"none", "prepared", "dispatching", "not sent", "unknown", "rejected", "accepted"}
Answers == [fate : Fates, started : BOOLEAN]
LaunchShape(l) ==
    /\ DOMAIN l = LaunchFields /\ DOMAIN l.try = TryFields
    /\ l.records \in Seq(Fates) /\ l.told \in Seq(Answers)
    /\ l.try.id = Len(l.records)
    /\ l.accepted \subseteq l.sent /\ l.sent \subseteq 1..Len(l.records)

Truthful(l, i, fate) ==
    /\ fate = "not sent" => i \notin l.sent
    /\ fate = "accepted" => i \in l.accepted
    /\ fate = "rejected" => i \notin l.accepted
ToldTruly(l) ==
    \A i \in 1..Len(l.told) :
        /\ Truthful(l, i, l.told[i].fate) /\ Truthful(l, i, l.records[i])
        /\ l.told[i].started => l.records[i] = "accepted"
\* What the running attempt has recorded, sent and seen.
Underway(l) ==
    l.pc # "idle" =>
        /\ l.pc \in {"subscribed", "dispatch", "sent", "failed", "accepted", "waiting", "status"}
        /\ l.records[l.try.id] = IF l.pc = "subscribed" THEN "none"
                                 ELSE IF l.pc \in {"waiting", "status"} THEN "accepted"
                                 ELSE "dispatching"
        /\ l.pc \in {"subscribed", "dispatch"} => l.try.id \notin l.sent
        /\ l.pc \in {"sent", "accepted", "waiting", "status"} => l.try.id \in l.sent
        /\ l.pc = "failed" => /\ l.try.reply \in {"not sent", "unknown", "rejected"}
                              /\ Truthful(l, l.try.id, l.try.reply)
        /\ l.pc \in {"accepted", "waiting", "status"} => l.try.id \in l.accepted
        /\ l.output = "on" \/ l.try.event = "started" => l.seen
        /\ l.pc = "dispatch" => \A i \in 1..(l.try.id - 1) :
                                   l.records[i] \notin {"prepared", "dispatching", "unknown"}

\* Every attempt but the running one has been told of.
Counted(l) == Len(l.records) = IF l.pc = "idle" THEN Len(l.told) ELSE Len(l.told) + 1

LaunchInv(l) == LaunchShape(l) /\ Counted(l) /\ ToldTruly(l) /\ Underway(l)

LEMMA LaunchSizes ==
  ASSUME NEW l, LaunchShape(l)
  PROVE  /\ Len(l.records) \in Nat /\ Len(l.told) \in Nat
         /\ DOMAIN l.records = 1..Len(l.records) /\ DOMAIN l.told = 1..Len(l.told)
         /\ DOMAIN l = LaunchFields /\ DOMAIN l.try = TryFields
  BY LenProperties DEF LaunchShape

\* What StartsAreHonest asks of a step beyond the state it leads to.
Heard(l, t) ==
    /\ \A i \in DOMAIN t.told : i \notin DOMAIN l.told /\ t.told[i].started => l.seen
    /\ t.sent # l.sent => ~\E i \in DOMAIN l.records :
          i # l.try.id /\ l.records[i] \in {"dispatching", "unknown"}

\* The client is told: the attempt is over.
LEMMA TellKeeps ==
  ASSUME NEW l, LaunchShape(l), ToldTruly(l), Len(l.records) = Len(l.told) + 1,
         NEW fate \in Fates, NEW started \in BOOLEAN, Truthful(l, l.try.id, fate),
         Truthful(l, l.try.id, l.records[l.try.id]), started => l.records[l.try.id] = "accepted",
         NEW k, l.told = k.told, l.sent = k.sent, started => k.seen,
         NEW t, t = Tell(l, fate, started)
  PROVE  LaunchInv(t) /\ Heard(k, t)
  <1>1. /\ Len(l.records) \in Nat /\ Len(l.told) \in Nat /\ DOMAIN l = LaunchFields
        /\ l.told \in Seq(Answers)
    BY LaunchSizes DEF LaunchShape
  <1>2. PICK a : a = [fate |-> fate, started |-> started]
    OBVIOUS
  <1>3. a \in Answers /\ a.fate = fate /\ a.started = started
    BY <1>2 DEF Answers
  <1>4. /\ Alike(l, t, {"pc", "told"}) /\ t.pc = "idle" /\ t.told = Append(l.told, a)
    BY <1>1, <1>2 DEF Tell, LaunchTo, Alike, LaunchFields
  <1>5. /\ t.told \in Seq(Answers) /\ Len(t.told) = Len(l.told) + 1
        /\ \A i \in 1..Len(l.told) : t.told[i] = l.told[i]
        /\ t.told[Len(l.told) + 1] = a
    BY <1>1, <1>3, <1>4, AppendProperties
  <1>6. /\ DOMAIN t = LaunchFields /\ t.records = l.records /\ t.try = l.try /\ t.sent = l.sent
        /\ t.accepted = l.accepted
    BY <1>1, <1>4 DEF Alike, LaunchFields
  <1>7. LaunchShape(t)
    BY <1>5, <1>6 DEF LaunchShape
  <1>8. Counted(t) /\ Underway(t)
    BY <1>4, <1>5, <1>6 DEF Counted, Underway
  <1>9. ToldTruly(t)
    <2>1. l.try.id = Len(l.told) + 1
      BY DEF LaunchShape
    <2>2. \A i, f : Truthful(t, i, f) = Truthful(l, i, f)
      BY <1>6 DEF Truthful
    <2>3. ASSUME NEW i \in 1..Len(t.told)
          PROVE  /\ Truthful(t, i, t.told[i].fate) /\ Truthful(t, i, t.records[i])
                 /\ t.told[i].started => t.records[i] = "accepted"
      <3>1. CASE i \in 1..Len(l.told)
        BY <1>5, <1>6, <2>2, <3>1 DEF ToldTruly
      <3>2. CASE i = Len(l.told) + 1
        BY <1>3, <1>5, <1>6, <2>1, <2>2, <3>2
      <3>3. QED BY <1>1, <1>5, <3>1, <3>2
    <2>4. QED BY <2>3 DEF ToldTruly
  <1>10. Heard(k, t)
    <2>1. DOMAIN t.told = 1..(Len(l.told) + 1) /\ DOMAIN k.told = 1..Len(l.told)
      BY <1>1, <1>5, LenProperties
    <2>2. \A i \in DOMAIN t.told : i \notin DOMAIN k.told => t.told[i] = a
      BY <1>1, <1>5, <2>1
    <2>3. QED BY <1>3, <1>6, <2>2 DEF Heard
  <1>11. QED BY <1>7, <1>8, <1>9, <1>10 DEF LaunchInv

LEMMA TellsFailure ==
  ASSUME NEW l, LaunchShape(l), ToldTruly(l), Len(l.records) = Len(l.told) + 1,
         NEW fate \in Fates, Truthful(l, l.try.id, fate),
         Truthful(l, l.try.id, l.records[l.try.id]),
         NEW k, l.told = k.told, l.sent = k.sent,
         NEW t, t = Tell(l, fate, FALSE)
  PROVE  LaunchInv(t) /\ Heard(k, t)
  <1>1. PICK b \in BOOLEAN : b = FALSE
    OBVIOUS
  <1>2. t = Tell(l, fate, b)
    BY <1>1
  <1>3. QED BY <1>1, <1>2, TellKeeps

LEMMA StoresFacts ==
  ASSUME NEW l, LaunchShape(l), l.try.id \in 1..Len(l.records), NEW phase \in Fates
  PROVE  LET t == Stores(l, phase) IN
         /\ Alike(l, t, {"records"}) /\ Len(t.records) = Len(l.records)
         /\ t.records[l.try.id] = phase
         /\ \A i \in 1..Len(l.records) : i # l.try.id => t.records[i] = l.records[i]
         /\ LaunchShape(t)
  <1> DEFINE t == Stores(l, phase)
             r == [l.records EXCEPT ![l.try.id] = phase]
  <1>1. DOMAIN l = LaunchFields /\ l.records \in Seq(Fates)
    BY DEF LaunchShape
  <1>2. Alike(l, t, {"records"}) /\ t.records = r
    BY <1>1 DEF Stores, Alike, LaunchFields
  <1>3. /\ r \in Seq(Fates) /\ Len(r) = Len(l.records)
        /\ \A j \in 1..Len(l.records) : r[j] = IF j = l.try.id THEN phase ELSE l.records[j]
    BY <1>1, ExceptSeq
  <1>4. DOMAIN t = LaunchFields /\ t.told = l.told /\ t.try = l.try /\ t.sent = l.sent /\ t.accepted = l.accepted
    BY <1>1, <1>2 DEF Alike, LaunchFields
  <1>5. LaunchShape(t)
    BY <1>2, <1>3, <1>4 DEF LaunchShape
  <1>6. QED BY <1>2, <1>3, <1>5

\* A record of the running attempt changes nothing that was told.
LEMMA StoresTruly ==
  ASSUME NEW l, LaunchShape(l), ToldTruly(l), l.try.id = Len(l.told) + 1, Len(l.records) = Len(l.told) + 1,
         NEW phase \in Fates
  PROVE  LET t == Stores(l, phase) IN
         /\ ToldTruly(t) /\ t.told = l.told /\ t.try = l.try /\ t.sent = l.sent
         /\ t.accepted = l.accepted /\ t.pc = l.pc /\ t.output = l.output /\ t.seen = l.seen
  <1> DEFINE t == Stores(l, phase)
  <1>1. Len(l.told) \in Nat /\ DOMAIN l = LaunchFields
    BY LaunchSizes
  <1>2. l.try.id \in 1..Len(l.records)
    BY <1>1
  <1>3. /\ Alike(l, t, {"records"})
        /\ \A i \in 1..Len(l.records) : i # l.try.id => t.records[i] = l.records[i]
    BY <1>2, StoresFacts
  <1>4. /\ t.told = l.told /\ t.try = l.try /\ t.sent = l.sent /\ t.accepted = l.accepted
        /\ t.pc = l.pc /\ t.output = l.output /\ t.seen = l.seen
    BY <1>1, <1>3 DEF Alike, LaunchFields
  <1>5. \A i, f : Truthful(t, i, f) = Truthful(l, i, f)
    BY <1>4 DEF Truthful
  <1>6. \A i \in 1..Len(l.told) : t.records[i] = l.records[i]
    BY <1>1, <1>3
  <1>7. ToldTruly(t)
    BY <1>4, <1>5, <1>6 DEF ToldTruly
  <1>8. QED BY <1>4, <1>7

LEMMA BeginLaunchKeeps ==
  ASSUME LaunchInv(launch), BeginLaunch
  PROVE  LaunchInv(launch') /\ Heard(launch, launch')
  <1>1. LaunchShape(launch) /\ ToldTruly(launch) /\ launch.pc = "idle"
        /\ Len(launch.records) = Len(launch.told) /\ launch.records \in Seq(Fates)
    BY DEF LaunchInv, LaunchShape, Counted, BeginLaunch, Launching
  <1>2. Len(launch.told) \in Nat /\ DOMAIN launch = LaunchFields /\ DOMAIN launch.told = 1..Len(launch.told)
    BY <1>1, LaunchSizes
  <1> DEFINE n == Len(launch.told) + 1
  <1>3. PICK q : q = NewLaunch(n)
    OBVIOUS
  <1>4. DOMAIN q = TryFields /\ q.id = n /\ q.event = "none"
    BY <1>3 DEF NewLaunch, TryFields
  <1> DEFINE new == [launch EXCEPT !.try = q, !.late = FALSE, !.seen = launch.output = "on",
                                   !.records = Append(@, "none")]
  <1>5. launch' = Tell(new, "not sent", FALSE) \/ launch' = LaunchTo(new, "subscribed")
    BY <1>3 DEF BeginLaunch
  <1>6. /\ Alike(launch, new, {"try", "late", "seen", "records"}) /\ new.try = q
        /\ new.seen = (launch.output = "on") /\ new.records = Append(launch.records, "none")
    BY <1>2 DEF Alike, LaunchFields
  <1> HIDE DEF new
  <1>7. /\ DOMAIN new = LaunchFields /\ new.told = launch.told /\ new.sent = launch.sent
        /\ new.accepted = launch.accepted /\ new.output = launch.output
    BY <1>2, <1>6 DEF Alike, LaunchFields
  <1>8. /\ new.records \in Seq(Fates) /\ Len(new.records) = n /\ new.records[n] = "none"
        /\ \A i \in 1..Len(launch.told) : new.records[i] = launch.records[i]
    <2>1. "none" \in Fates
      BY DEF Fates
    <2>2. /\ Append(launch.records, "none") \in Seq(Fates)
          /\ Len(Append(launch.records, "none")) = Len(launch.records) + 1
          /\ \A i \in 1..Len(launch.records) : Append(launch.records, "none")[i] = launch.records[i]
          /\ Append(launch.records, "none")[Len(launch.records) + 1] = "none"
      BY <1>1, <2>1, AppendProperties
    <2>3. QED BY <1>1, <1>6, <2>2
  <1>9. LaunchShape(new) /\ n \notin new.sent
    <2>1. launch.sent \subseteq 1..Len(launch.told) /\ launch.accepted \subseteq launch.sent
          /\ launch.told \in Seq(Answers)
      BY <1>1 DEF LaunchShape
    <2>2. launch.sent \subseteq 1..n /\ n \notin launch.sent
      BY <1>2, <2>1
    <2>3. QED BY <1>4, <1>6, <1>7, <1>8, <2>1, <2>2 DEF LaunchShape
  <1>10. ToldTruly(new)
    BY <1>1, <1>7, <1>8 DEF ToldTruly, Truthful
  <1>11. CASE launch' = Tell(new, "not sent", FALSE)
    <2>1. Truthful(new, n, "not sent") /\ Truthful(new, n, "none")
      BY <1>9 DEF Truthful
    <2>2. new.try.id = n /\ Len(new.records) = Len(new.told) + 1
          /\ Truthful(new, new.try.id, new.records[new.try.id])
      BY <1>4, <1>6, <1>7, <1>8, <2>1
    <2>3. "not sent" \in Fates
      BY DEF Fates
    <2>4. QED BY <1>7, <1>9, <1>10, <1>11, <2>1, <2>2, <2>3, TellsFailure
  <1>12. CASE launch' = LaunchTo(new, "subscribed")
    <2>1. Alike(new, launch', {"pc"}) /\ launch'.pc = "subscribed"
      BY <1>7, <1>12 DEF LaunchTo, Alike, LaunchFields
    <2>2. /\ DOMAIN launch' = LaunchFields /\ launch'.told = new.told /\ launch'.sent = new.sent
          /\ launch'.accepted = new.accepted /\ launch'.output = new.output /\ launch'.records = new.records
          /\ launch'.try = new.try /\ launch'.seen = new.seen
      BY <1>7, <2>1 DEF Alike, LaunchFields
    <2>3. LaunchShape(launch') /\ ToldTruly(launch')
      BY <1>9, <1>10, <2>2 DEF LaunchShape, ToldTruly, Truthful
    <2>4. Counted(launch')
      BY <1>7, <1>8, <2>1, <2>2 DEF Counted
    <2>5. Underway(launch')
      BY <1>4, <1>6, <1>7, <1>8, <1>9, <2>1, <2>2 DEF Underway
    <2>6. Heard(launch, launch')
      BY <1>7, <2>2 DEF Heard
    <2>7. QED BY <2>3, <2>4, <2>5, <2>6 DEF LaunchInv
  <1>13. QED BY <1>5, <1>11, <1>12

\* From the subscription to the request.
LEMMA PrepareLaunchKeeps ==
  ASSUME LaunchInv(launch), PrepareLaunch
  PROVE  LaunchInv(launch') /\ Heard(launch, launch')
  <1> DEFINE n == launch.try.id
  <1>1. LaunchShape(launch) /\ ToldTruly(launch) /\ Underway(launch) /\ launch.pc = "subscribed"
        /\ Len(launch.records) = Len(launch.told) + 1 /\ n = Len(launch.records)
    BY DEF LaunchInv, LaunchShape, Counted, PrepareLaunch, Launching
  <1>2. /\ Len(launch.told) \in Nat /\ DOMAIN launch = LaunchFields /\ DOMAIN launch.told = 1..Len(launch.told)
        /\ DOMAIN launch.records = 1..Len(launch.records)
    BY <1>1, LaunchSizes
  <1>3. n \in 1..Len(launch.records) /\ n \notin launch.sent /\ launch.records[n] = "none"
    BY <1>1, <1>2 DEF Underway
  <1>4. ASSUME NEW phase \in {"none", "prepared", "dispatching"}, NEW l, LaunchShape(l), ToldTruly(l), l.try = launch.try,
               l.told = launch.told, l.sent = launch.sent, Len(l.records) = Len(launch.records),
               l.records[n] = phase, launch' = Tell(l, "not sent", FALSE)
        PROVE  LaunchInv(launch') /\ Heard(launch, launch')
    <2>1. Truthful(l, n, "not sent") /\ Truthful(l, n, phase)
      BY <1>3, <1>4 DEF Truthful
    <2>2. "not sent" \in Fates
      BY DEF Fates
    <2>3. Len(l.records) = Len(l.told) + 1 /\ Truthful(l, l.try.id, "not sent")
          /\ Truthful(l, l.try.id, l.records[l.try.id])
      BY <1>1, <1>4, <2>1
    <2>4. QED BY <1>4, <2>2, <2>3, TellsFailure
  <1>5. CASE launch' = Tell(launch, "not sent", FALSE)
    BY <1>1, <1>3, <1>4, <1>5
  <1>6. ASSUME NEW phase \in {"prepared", "dispatching"}, NEW l, l = Stores(launch, phase)
        PROVE  /\ LaunchShape(l) /\ ToldTruly(l) /\ l.try = launch.try /\ l.told = launch.told
               /\ l.sent = launch.sent /\ Len(l.records) = Len(launch.records) /\ l.records[n] = phase
               /\ \A i \in 1..Len(launch.records) : i # n => l.records[i] = launch.records[i]
               /\ l.accepted = launch.accepted /\ l.output = launch.output /\ l.seen = launch.seen
    <2>1. phase \in Fates
      BY <1>6 DEF Fates
    <2>2. QED BY <1>1, <1>3, <1>6, <2>1, StoresFacts, StoresTruly
  <1>7. ASSUME NEW phase \in {"prepared", "dispatching"},
               launch' = Tell(Stores(launch, phase), "not sent", FALSE)
        PROVE  LaunchInv(launch') /\ Heard(launch, launch')
    <2>1. PICK l : l = Stores(launch, phase)
      OBVIOUS
    <2>2. launch' = Tell(l, "not sent", FALSE)
      BY <1>7, <2>1
    <2>3. QED BY <1>4, <1>6, <2>1, <2>2
  <1>8. CASE launch' = LaunchTo(Stores(launch, "dispatching"), "dispatch") /\ ~Barred
    <2>1. PICK l : l = Stores(launch, "dispatching")
      OBVIOUS
    <2>2. /\ LaunchShape(l) /\ ToldTruly(l) /\ l.try = launch.try /\ l.told = launch.told
          /\ l.sent = launch.sent /\ Len(l.records) = Len(launch.records) /\ l.records[n] = "dispatching"
          /\ \A i \in 1..Len(launch.records) : i # n => l.records[i] = launch.records[i]
          /\ l.accepted = launch.accepted /\ l.output = launch.output /\ l.seen = launch.seen
      BY <1>6, <2>1
    <2>3. DOMAIN l = LaunchFields
      BY <2>2 DEF LaunchShape
    <2>4. Alike(l, launch', {"pc"}) /\ launch'.pc = "dispatch"
      BY <1>8, <2>1, <2>3 DEF LaunchTo, Alike, LaunchFields
    <2>5. /\ DOMAIN launch' = LaunchFields /\ launch'.told = l.told /\ launch'.sent = l.sent
          /\ launch'.accepted = l.accepted /\ launch'.output = l.output /\ launch'.records = l.records
          /\ launch'.try = l.try /\ launch'.seen = l.seen
      BY <2>3, <2>4 DEF Alike, LaunchFields
    <2>6. LaunchShape(launch') /\ ToldTruly(launch')
      BY <2>2, <2>5 DEF LaunchShape, ToldTruly, Truthful
    <2>7. Counted(launch')
      BY <1>1, <2>2, <2>4, <2>5 DEF Counted
    <2>8. \A i \in 1..(n - 1) : launch'.records[i] \notin {"prepared", "dispatching", "unknown"}
      <3>1. \A i \in 1..(n - 1) : i \in 1..Len(launch.records) /\ i # n
        BY <1>1, <1>2
      <3>2. QED BY <1>2, <1>8, <2>2, <2>5, <3>1 DEF Barred
    <2>9. Underway(launch')
      BY <1>1, <1>3, <2>2, <2>4, <2>5, <2>8 DEF Underway
    <2>10. Heard(launch, launch')
      BY <2>2, <2>5 DEF Heard
    <2>11. QED BY <2>6, <2>7, <2>9, <2>10 DEF LaunchInv
  <1>9. QED BY <1>5, <1>7, <1>8 DEF PrepareLaunch

\* A step of the running attempt that tells nothing and writes no record.
LEMMA UnderwayKeeps ==
  ASSUME LaunchInv(launch), Alike(launch, launch', {"pc", "try", "sent", "accepted", "late", "output",
                                                    "seen", "allowed", "meddled"}),
         launch'.pc = "idle" <=> launch.pc = "idle", DOMAIN launch'.try = TryFields,
         launch'.try.id = launch.try.id,
         launch.pc = "idle" => launch'.sent = launch.sent /\ launch'.accepted = launch.accepted,
         launch'.sent \in {launch.sent, launch.sent \union {launch.try.id}},
         launch'.accepted \in {launch.accepted, launch.accepted \union {launch.try.id}},
         launch'.accepted \subseteq launch'.sent
  PROVE  LaunchShape(launch') /\ Counted(launch') /\ ToldTruly(launch')
         /\ launch'.records = launch.records /\ launch'.told = launch.told
  <1>1. LaunchShape(launch) /\ ToldTruly(launch) /\ Counted(launch) /\ launch.try.id = Len(launch.records)
    BY DEF LaunchInv, LaunchShape
  <1>2. Len(launch.told) \in Nat /\ DOMAIN launch = LaunchFields /\ Len(launch.records) \in Nat
    BY <1>1, LaunchSizes
  <1>3. DOMAIN launch' = LaunchFields /\ launch'.records = launch.records /\ launch'.told = launch.told
    BY <1>2 DEF Alike, LaunchFields
  <1>4. launch'.sent \subseteq 1..Len(launch.records)
    <2>1. launch.sent \subseteq 1..Len(launch.records)
      BY <1>1 DEF LaunchShape
    <2>2. launch.pc # "idle" => launch.try.id \in 1..Len(launch.records)
      BY <1>1, <1>2 DEF Counted
    <2>3. QED BY <2>1, <2>2
  <1>5. LaunchShape(launch')
    BY <1>1, <1>3, <1>4 DEF LaunchShape
  <1>6. Counted(launch')
    BY <1>1, <1>3 DEF Counted
  <1>7. ASSUME NEW i \in 1..Len(launch.told)
        PROVE  /\ i \in launch'.sent <=> i \in launch.sent
               /\ i \in launch'.accepted <=> i \in launch.accepted
    BY <1>1, <1>2 DEF Counted
  <1>8. ToldTruly(launch')
    BY <1>1, <1>3, <1>7 DEF ToldTruly, Truthful
  <1>9. QED BY <1>3, <1>5, <1>6, <1>8

LEMMA SendingKeeps ==
  ASSUME LaunchInv(launch), DispatchLaunch \/ Accept \/ LaunchReply \/ ConfirmationExpires
  PROVE  LaunchInv(launch') /\ Heard(launch, launch')
  <1> DEFINE n == launch.try.id
  <1>1. LaunchShape(launch) /\ ToldTruly(launch) /\ Underway(launch) /\ launch.pc # "idle"
        /\ Len(launch.records) = Len(launch.told) + 1 /\ n = Len(launch.records)
        /\ launch.accepted \subseteq launch.sent
    BY DEF LaunchInv, LaunchShape, Counted, DispatchLaunch, Accept, LaunchReply, ConfirmationExpires, Launching
  <1>2. /\ Len(launch.told) \in Nat /\ DOMAIN launch = LaunchFields /\ DOMAIN launch.told = 1..Len(launch.told)
        /\ DOMAIN launch.records = 1..Len(launch.records) /\ DOMAIN launch.try = TryFields
    BY <1>1, LaunchSizes
  <1>3. /\ Alike(launch, launch', {"pc", "try", "sent", "accepted", "late", "output", "seen", "allowed", "meddled"})
        /\ DOMAIN launch'.try = TryFields /\ launch'.try.id = n /\ launch'.try.event = launch.try.event
        /\ launch'.seen = launch.seen
        /\ \/ /\ launch.pc = "dispatch" /\ launch'.pc = "failed" /\ launch'.sent = launch.sent
              /\ launch'.accepted = launch.accepted /\ launch'.output = launch.output
              /\ launch'.try.reply = "not sent"
           \/ /\ launch.pc = "dispatch" /\ launch'.pc = "sent" /\ launch'.sent = launch.sent \union {n}
              /\ launch'.accepted = launch.accepted /\ launch'.output = launch.output
           \/ /\ launch.pc = "sent" /\ launch'.pc = "sent" /\ launch'.sent = launch.sent
              /\ launch'.accepted = launch.accepted \union {n} /\ launch'.output = "starting"
           \/ /\ launch.pc = "sent" /\ launch'.pc = "failed" /\ launch'.sent = launch.sent
              /\ launch'.accepted = launch.accepted /\ launch'.output = launch.output
              /\ \/ launch'.try.reply = "unknown"
                 \/ launch'.try.reply = "rejected" /\ n \notin launch.accepted
           \/ /\ launch.pc = "sent" /\ launch'.pc = "accepted" /\ launch'.sent = launch.sent
              /\ launch'.accepted = launch.accepted /\ launch'.output = launch.output
              /\ n \in launch.accepted
           \/ /\ launch.pc \in {"sent", "accepted", "waiting"} /\ launch'.pc = launch.pc
              /\ launch'.sent = launch.sent /\ launch'.accepted = launch.accepted
              /\ launch'.output = launch.output
    <2>0. ASSUME NEW reply, launch' = LaunchTo([launch EXCEPT !.try.reply = reply], "failed")
          PROVE  /\ Alike(launch, launch', {"pc", "try"}) /\ launch'.pc = "failed"
                 /\ Alike(launch.try, launch'.try, {"reply"}) /\ launch'.try.reply = reply
      BY <1>2, <2>0 DEF LaunchTo, Alike, LaunchFields, TryFields
    <2>1. CASE DispatchLaunch
      <3>1. CASE launch' = LaunchTo([launch EXCEPT !.try.reply = "not sent"], "failed")
        BY <1>2, <2>0, <2>1, <3>1 DEF DispatchLaunch, Launching, Alike, LaunchFields, TryFields
      <3>2. CASE launch' = LaunchTo([launch EXCEPT !.sent = @ \cup {n}], "sent")
        BY <1>2, <2>1, <3>2 DEF DispatchLaunch, Launching, LaunchTo, Alike, LaunchFields, TryFields
      <3>3. QED BY <2>1, <3>1, <3>2 DEF DispatchLaunch
    <2>2. CASE Accept
      BY <1>2, <2>2 DEF Accept, Launching, LaunchTo, Alike, LaunchFields, TryFields
    <2>3. CASE LaunchReply
      <3>1. ASSUME NEW reply, launch' = LaunchTo([launch EXCEPT !.try.reply = reply], "failed"),
                   reply = "unknown" \/ (reply = "rejected" /\ n \notin launch.accepted)
            PROVE  /\ Alike(launch, launch', {"pc", "try"}) /\ launch'.pc = "failed" /\ launch.pc = "sent"
                   /\ Alike(launch.try, launch'.try, {"reply"}) /\ launch'.try.reply = reply
        BY <2>0, <2>3, <3>1 DEF LaunchReply, Launching
      <3>2. ASSUME launch' = LaunchTo(launch, "accepted"), n \in launch.accepted
            PROVE  Alike(launch, launch', {"pc"}) /\ launch'.pc = "accepted" /\ launch.pc = "sent"
        BY <1>2, <2>3, <3>2 DEF LaunchReply, Launching, LaunchTo, Alike, LaunchFields
      <3>3. \/ launch' = LaunchTo(launch, "accepted") /\ n \in launch.accepted
            \/ /\ \E reply \in {"unknown", "rejected"} :
                     launch' = LaunchTo([launch EXCEPT !.try.reply = reply], "failed")
                              /\ (reply = "unknown" \/ (reply = "rejected" /\ n \notin launch.accepted))
        BY <2>3 DEF LaunchReply
      <3>4. QED BY <1>2, <3>1, <3>2, <3>3 DEF Alike, LaunchFields, TryFields
    <2>4. CASE ConfirmationExpires
      BY <1>2, <2>4 DEF ConfirmationExpires, Alike, LaunchFields, TryFields
    <2>5. QED BY <2>1, <2>2, <2>3, <2>4
  <1>4. launch.pc = "sent" => n \in launch.sent
    BY <1>1 DEF Underway
  <1>5. launch'.accepted \subseteq launch'.sent
    BY <1>1, <1>3, <1>4
  <1>6. LaunchShape(launch') /\ Counted(launch') /\ ToldTruly(launch')
        /\ launch'.records = launch.records /\ launch'.told = launch.told
    BY <1>1, <1>3, <1>5, UnderwayKeeps
  <1>7. Underway(launch')
    BY <1>1, <1>3, <1>4, <1>6 DEF Underway, Truthful
  <1>8. Heard(launch, launch')
    <2>1. launch'.sent # launch.sent => launch.pc = "dispatch"
      BY <1>3
    <2>2. launch.pc = "dispatch" => \A i \in DOMAIN launch.records :
             i # n => launch.records[i] \notin {"dispatching", "unknown"}
      BY <1>1, <1>2 DEF Underway
    <2>3. QED BY <1>6, <2>1, <2>2 DEF Heard
  <1>9. QED BY <1>6, <1>7, <1>8 DEF LaunchInv

\* The fate of the request is recorded and told.
LEMMA RecordingKeeps ==
  ASSUME LaunchInv(launch), RecordFailure \/ RecordAccepted
  PROVE  LaunchInv(launch') /\ Heard(launch, launch')
  <1> DEFINE n == launch.try.id
  <1>1. LaunchShape(launch) /\ ToldTruly(launch) /\ Underway(launch)
        /\ launch.pc \in {"failed", "accepted"}
        /\ Len(launch.records) = Len(launch.told) + 1 /\ n = Len(launch.records)
    BY DEF LaunchInv, LaunchShape, Counted, RecordFailure, RecordAccepted, Launching
  <1>2. Len(launch.told) \in Nat /\ DOMAIN launch = LaunchFields
    BY <1>1, LaunchSizes
  <1>3. n \in 1..Len(launch.records) /\ launch.records[n] = "dispatching"
        /\ Truthful(launch, n, launch.records[n])
    <2>1. n \in 1..Len(launch.records)
      BY <1>1, <1>2
    <2>2. launch.records[n] = "dispatching"
      BY <1>1 DEF Underway
    <2>3. Truthful(launch, n, "dispatching")
      BY DEF Truthful
    <2>4. QED BY <2>1, <2>2, <2>3
  <1>4. ASSUME NEW phase \in Fates, NEW l, l = Stores(launch, phase)
        PROVE  /\ LaunchShape(l) /\ ToldTruly(l) /\ l.try = launch.try /\ l.told = launch.told
               /\ l.sent = launch.sent /\ Len(l.records) = Len(launch.records) /\ l.records[n] = phase
               /\ l.accepted = launch.accepted /\ l.output = launch.output /\ l.seen = launch.seen
    BY <1>1, <1>3, <1>4, StoresFacts, StoresTruly
  <1>5. CASE RecordFailure
    <2> DEFINE reply == launch.try.reply
    <2>1. launch.pc = "failed"
      BY <1>5 DEF RecordFailure, Launching
    <2>2. reply \in Fates /\ Truthful(launch, n, reply)
      BY <1>1, <2>1 DEF Underway, Fates
    <2>3. CASE launch' = Tell(launch, reply, FALSE)
      BY <1>1, <1>3, <2>2, <2>3, TellsFailure
    <2>4. CASE launch' = Tell(Stores(launch, reply), reply, FALSE)
      <3>1. PICK l : l = Stores(launch, reply)
        OBVIOUS
      <3>2. /\ LaunchShape(l) /\ ToldTruly(l) /\ l.try = launch.try /\ l.told = launch.told
            /\ l.sent = launch.sent /\ Len(l.records) = Len(launch.records) /\ l.records[n] = reply
            /\ l.accepted = launch.accepted
        BY <1>4, <2>2, <3>1
      <3>3. Truthful(l, l.try.id, reply) /\ l.records[l.try.id] = reply /\ Len(l.records) = Len(l.told) + 1
        BY <1>1, <2>2, <3>2 DEF Truthful
      <3>4. launch' = Tell(l, reply, FALSE)
        BY <2>4, <3>1
      <3>5. QED BY <2>2, <3>2, <3>3, <3>4, TellsFailure
    <2>5. QED BY <1>5, <2>3, <2>4 DEF RecordFailure
  <1>6. CASE RecordAccepted
    <2>1. launch.pc = "accepted" /\ n \in launch.accepted /\ n \in launch.sent
      BY <1>1, <1>6 DEF RecordAccepted, Launching, Underway
    <2>2. "accepted" \in Fates /\ Truthful(launch, n, "accepted")
      BY <2>1 DEF Fates, Truthful
    <2>3. CASE launch' = Tell(launch, "accepted", FALSE)
      BY <1>1, <1>3, <2>2, <2>3, TellsFailure
    <2>4. CASE launch' = LaunchTo(Stores(launch, "accepted"), "waiting")
      <3>1. PICK l : l = Stores(launch, "accepted")
        OBVIOUS
      <3>2. /\ LaunchShape(l) /\ ToldTruly(l) /\ l.try = launch.try /\ l.told = launch.told
            /\ l.sent = launch.sent /\ Len(l.records) = Len(launch.records) /\ l.records[n] = "accepted"
            /\ l.accepted = launch.accepted /\ l.output = launch.output /\ l.seen = launch.seen
        BY <1>4, <2>2, <3>1
      <3>3. DOMAIN l = LaunchFields
        BY <3>2 DEF LaunchShape
      <3>4. Alike(l, launch', {"pc"}) /\ launch'.pc = "waiting"
        BY <2>4, <3>1, <3>3 DEF LaunchTo, Alike, LaunchFields
      <3>5. /\ DOMAIN launch' = LaunchFields /\ launch'.told = l.told /\ launch'.sent = l.sent
            /\ launch'.accepted = l.accepted /\ launch'.output = l.output /\ launch'.records = l.records
            /\ launch'.try = l.try /\ launch'.seen = l.seen
        BY <3>3, <3>4 DEF Alike, LaunchFields
      <3>6. LaunchShape(launch') /\ ToldTruly(launch')
        BY <3>2, <3>5 DEF LaunchShape, ToldTruly, Truthful
      <3>7. Counted(launch')
        BY <1>1, <3>2, <3>4, <3>5 DEF Counted
      <3>8. Underway(launch')
        BY <1>1, <2>1, <3>2, <3>4, <3>5 DEF Underway
      <3>9. Heard(launch, launch')
        BY <3>2, <3>5 DEF Heard
      <3>10. QED BY <3>6, <3>7, <3>8, <3>9 DEF LaunchInv
    <2>5. QED BY <1>6, <2>3, <2>4 DEF RecordAccepted
  <1>7. QED BY <1>5, <1>6

\* A success is told only of an output that was seen to run.
LEMMA ConfirmingKeeps ==
  ASSUME LaunchInv(launch), AwaitOutput \/ LookAtStatus
  PROVE  LaunchInv(launch') /\ Heard(launch, launch')
  <1> DEFINE n == launch.try.id
  <1>1. LaunchShape(launch) /\ ToldTruly(launch) /\ Underway(launch)
        /\ launch.pc \in {"waiting", "status"}
        /\ Len(launch.records) = Len(launch.told) + 1 /\ n = Len(launch.records)
        /\ launch.accepted \subseteq launch.sent
    BY DEF LaunchInv, LaunchShape, Counted, AwaitOutput, LookAtStatus, Launching
  <1>2. DOMAIN launch = LaunchFields /\ DOMAIN launch.try = TryFields
    BY <1>1, LaunchSizes
  <1>3. launch.records[n] = "accepted" /\ Truthful(launch, n, "accepted") /\ "accepted" \in Fates
    BY <1>1 DEF Underway, Truthful, Fates
  <1>4. CASE launch' = Tell(launch, "accepted", FALSE)
    BY <1>1, <1>3, <1>4, TellsFailure
  <1>5. CASE launch' = Tell(launch, "accepted", TRUE) /\ (launch.try.event = "started" \/ launch.output = "on")
    <2>1. launch.seen
      BY <1>1, <1>5 DEF Underway
    <2>2. PICK b \in BOOLEAN : b = TRUE
      OBVIOUS
    <2>3. launch' = Tell(launch, "accepted", b)
      BY <1>5, <2>2
    <2>4. QED BY <1>1, <1>3, <2>1, <2>3, TellKeeps
  <1>6. CASE launch' = LaunchTo(launch, "status")
    <2>1. Alike(launch, launch', {"pc"}) /\ launch'.pc = "status"
      BY <1>2, <1>6 DEF LaunchTo, Alike, LaunchFields
    <2>2. /\ launch'.sent = launch.sent /\ launch'.accepted = launch.accepted
          /\ launch'.output = launch.output /\ launch'.try = launch.try /\ launch'.seen = launch.seen
          /\ launch'.records = launch.records /\ launch'.told = launch.told /\ DOMAIN launch' = LaunchFields
      BY <1>2, <2>1 DEF Alike, LaunchFields
    <2>3. LaunchShape(launch') /\ Counted(launch') /\ ToldTruly(launch')
      BY <1>1, <2>1, <2>2 DEF LaunchShape, Counted, ToldTruly, Truthful
    <2>4. Underway(launch') /\ Heard(launch, launch')
      BY <1>1, <2>1, <2>2 DEF Underway, Heard
    <2>5. QED BY <2>3, <2>4 DEF LaunchInv
  <1>7. QED BY <1>4, <1>5, <1>6 DEF AwaitOutput, LookAtStatus, StatusActive

\* OBS turns the output on or off; policy and deadlines change.
LEMMA OutputKeeps ==
  ASSUME LaunchInv(launch), OutputTurns \/ LaunchMeddling
  PROVE  LaunchInv(launch') /\ Heard(launch, launch')
  <1>1. LaunchShape(launch) /\ Underway(launch) /\ launch.accepted \subseteq launch.sent
    BY DEF LaunchInv, LaunchShape
  <1>2. DOMAIN launch = LaunchFields /\ DOMAIN launch.try = TryFields
    BY <1>1, LaunchSizes
  <1>3. ASSUME NEW state, NEW event,
               launch' = Turns(state, event) \/ launch' = [Turns(state, event) EXCEPT !.meddled = @ + 1],
               <<state, event>> \in {<<"on", "started">>, <<"off", "stopped">>}
        PROVE  /\ Alike(launch, launch', {"try", "output", "seen", "meddled"})
               /\ DOMAIN launch'.try = TryFields /\ launch'.try.id = launch.try.id
               /\ launch'.try.reply = launch.try.reply
               /\ launch'.try.event \in {launch.try.event, event}
               /\ launch'.output = state /\ launch'.seen = (launch.seen \/ state = "on")
    <2>1. PICK t : t = Turns(state, event)
      OBVIOUS
    <2>2. /\ Alike(launch, t, {"try", "output", "seen"}) /\ Alike(launch.try, t.try, {"event"})
          /\ t.try.event \in {launch.try.event, event}
          /\ t.output = state /\ t.seen = (launch.seen \/ state = "on")
      BY <1>2, <2>1 DEF Turns, Alike, LaunchFields, TryFields
    <2>3. launch' = t \/ launch' = [t EXCEPT !.meddled = @ + 1]
      BY <1>3, <2>1
    <2>4. /\ Alike(t, launch', {"meddled"}) /\ DOMAIN t = LaunchFields
      BY <1>2, <2>2, <2>3 DEF Alike, LaunchFields
    <2>5. QED BY <1>2, <2>2, <2>4 DEF Alike, LaunchFields, TryFields
  <1>4. CASE OutputTurns
    <2>1. PICK state, event :
            /\ launch' = Turns(state, event) \/ launch' = [Turns(state, event) EXCEPT !.meddled = @ + 1]
            /\ <<state, event>> \in {<<"on", "started">>, <<"off", "stopped">>}
      BY <1>4 DEF OutputTurns
    <2>2. /\ Alike(launch, launch', {"try", "output", "seen", "meddled"})
          /\ DOMAIN launch'.try = TryFields /\ launch'.try.id = launch.try.id
          /\ launch'.try.reply = launch.try.reply
          /\ launch'.try.event \in {launch.try.event, event}
          /\ launch'.output = state /\ launch'.seen = (launch.seen \/ state = "on")
      BY <1>3, <2>1
    <2>3. /\ launch'.pc = launch.pc /\ launch'.sent = launch.sent /\ launch'.accepted = launch.accepted
          /\ Alike(launch, launch', {"pc", "try", "sent", "accepted", "late", "output", "seen", "allowed", "meddled"})
      BY <1>2, <2>2 DEF Alike, LaunchFields
    <2>4. LaunchShape(launch') /\ Counted(launch') /\ ToldTruly(launch')
          /\ launch'.records = launch.records /\ launch'.told = launch.told
      BY <1>1, <2>2, <2>3, UnderwayKeeps
    <2>5. (state = "on" /\ event = "started") \/ (state = "off" /\ event = "stopped")
      BY <2>1
    <2>6. Underway(launch')
      BY <1>1, <2>2, <2>3, <2>4, <2>5 DEF Underway, Truthful
    <2>7. QED BY <2>3, <2>4, <2>6 DEF LaunchInv, Heard
  <1>5. CASE LaunchMeddling
    <2>1. Alike(launch, launch', {"allowed", "late", "meddled"})
      BY <1>2, <1>5 DEF LaunchMeddling, Alike, LaunchFields
    <2>2. /\ launch'.pc = launch.pc /\ launch'.sent = launch.sent /\ launch'.accepted = launch.accepted
          /\ launch'.try = launch.try /\ launch'.output = launch.output /\ launch'.seen = launch.seen
          /\ Alike(launch, launch', {"pc", "try", "sent", "accepted", "late", "output", "seen", "allowed", "meddled"})
      BY <1>2, <2>1 DEF Alike, LaunchFields
    <2>3. LaunchShape(launch') /\ Counted(launch') /\ ToldTruly(launch')
          /\ launch'.records = launch.records /\ launch'.told = launch.told
      BY <1>1, <1>2, <2>2, UnderwayKeeps
    <2>4. Underway(launch')
      BY <1>1, <2>2, <2>3 DEF Underway, Truthful
    <2>5. QED BY <2>2, <2>3, <2>4 DEF LaunchInv, Heard
  <1>6. QED BY <1>4, <1>5

LEMMA LaunchNextKeeps ==
  ASSUME LaunchInv(launch), LaunchNext
  PROVE  LaunchInv(launch') /\ Heard(launch, launch')
  BY BeginLaunchKeeps, PrepareLaunchKeeps, SendingKeeps, RecordingKeeps, ConfirmingKeeps, OutputKeeps
     DEF LaunchNext

LEMMA LaunchInitKeeps ==
  ASSUME LaunchInit
  PROVE  LaunchInv(launch)
  <1>1. DOMAIN launch = LaunchFields
    BY DEF LaunchInit, LaunchFields
  <1>2. /\ launch.pc = "idle" /\ launch.try = NewLaunch(0) /\ launch.records = <<>> /\ launch.told = <<>>
        /\ launch.sent = {} /\ launch.accepted = {}
    BY DEF LaunchInit
  <1>3. DOMAIN launch.try = TryFields /\ launch.try.id = 0
    BY <1>2 DEF NewLaunch, TryFields
  <1>4. <<>> \in Seq(Fates) /\ <<>> \in Seq(Answers) /\ Len(<<>>) = 0
    BY EmptySeq
  <1>5. LaunchShape(launch)
    BY <1>1, <1>2, <1>3, <1>4 DEF LaunchShape
  <1>6. Counted(launch) /\ ToldTruly(launch) /\ Underway(launch)
    BY <1>2, <1>4 DEF Counted, ToldTruly, Underway
  <1>7. QED BY <1>5, <1>6 DEF LaunchInv

-----------------------------------------------------------------------------
(* The specification.                                                      *)

FilesInv == ProcInv(proc) /\ MediaInv(media) /\ SaveInv(save) /\ LaunchInv(launch)

LEMMA FilesInitially == ASSUME Init PROVE FilesInv
  <1>1. ProcInv(proc)
    <2>1. PICK capture \in Runs("process", BOOLEAN) : ProcInit(capture)
      BY DEF Init
    <2>2. capture \in BOOLEAN
      BY DEF Runs, Some
    <2>3. QED BY <2>1, <2>2, ProcInitKeeps
  <1>2. MediaInv(media)
    BY MediaInitKeeps DEF Init
  <1>3. QED BY <1>1, <1>2, SaveInitKeeps, LaunchInitKeeps DEF Init, FilesInv

LEMMA FilesStep ==
  ASSUME FilesInv, [Next]_planVars
  PROVE  FilesInv'
  <1>1. CASE UNCHANGED planVars
    BY <1>1 DEF planVars, procVars, mediaVars, saveVars, launchVars, FilesInv
  <1>2. CASE ProcNext /\ InProcess
    BY <1>2, ProcNextKeeps DEF FilesInv, InProcess, mediaVars, saveVars, launchVars
  <1>3. CASE MediaNext /\ InMedia
    BY <1>3, MediaNextKeeps DEF FilesInv, InMedia, procVars, saveVars, launchVars
  <1>4. CASE SaveNext /\ InSave
    BY <1>4, SaveNextKeeps DEF FilesInv, InSave, procVars, mediaVars, launchVars
  <1>5. CASE LaunchNext /\ InStart
    BY <1>5, LaunchNextKeeps DEF FilesInv, InStart, procVars, mediaVars, saveVars
  <1>6. CASE Preparing \/ InWorkflow \/ Trimming
    BY <1>6 DEF Preparing, InWorkflow, Trimming, procVars, mediaVars, saveVars, launchVars, FilesInv
  <1>7. QED BY <1>1, <1>2, <1>3, <1>4, <1>5, <1>6 DEF Next

\* The invariant the results below are read from: what a process, a media
\* operation, a replay save and an output start know is what is so.
THEOREM FilesHold == Spec => []FilesInv
  BY FilesInitially, FilesStep, PTL DEF Spec

\* An export is the file that was probed, decoded and hashed, cut from the one
\* state of the recording that was planned on; a failed operation published
\* nothing; and a process is reported as it ended.
THEOREM ExportsFaithful == Spec => []ExportsAreFaithful
  <1>1. FilesInv => ExportsAreFaithful
    BY ProcHonest, MediaVerified DEF FilesInv, ExportsAreFaithful
  <1>2. QED BY <1>1, FilesHold, PTL

\* No step of an export rewrites the recording or takes a name from a file
\* that is not its own.
THEOREM FilesUnreplaced == Spec => FilesAreNeverReplaced
  <1>1. FilesInv /\ Ours => Spares(media, media')
    BY OursKeeps DEF FilesInv
  <1>2. FilesInv => [Ours =>
        \A n \in Names : media.names[n] # Nothing =>
            /\ media'.names[n] = media.names[n] \/ (n = "partial" /\ media.names[n] = media.stage)
            /\ n # "partial" /\ media.names[n] # media.stage =>
                  media'.version[media.names[n]] = media.version[media.names[n]]]_mediaVars
    BY <1>1 DEF Spares
  <1>3. QED BY <1>2, FilesHold, PTL DEF FilesAreNeverReplaced

\* A replay is called verified only when the file OBS named is, at that step,
\* the new file whose bytes the helpers read; OBS is asked to save only when
\* every earlier attempt is closed.
THEOREM SavesGrounded == Spec => SavesAreGrounded
  <1>1. FilesInv /\ [Next]_planVars => save' = save \/ (Grounded(save, save') /\ (SaveSteps => Careful(save, save')))
    <2>1. FilesInv /\ SaveNext => Grounded(save, save')
      BY SaveNextKeeps DEF FilesInv
    <2>2. FilesInv /\ SaveSteps => Careful(save, save')
      BY SaveStepsKeep DEF FilesInv
    <2>3. [Next]_planVars => save' = save \/ SaveNext
      BY DEF Next, planVars, saveVars, Preparing, InWorkflow, Trimming, InProcess, InMedia, InStart
    <2>4. QED BY <2>1, <2>2, <2>3
  <1>2. FilesInv /\ [Next]_planVars =>
          [/\ save'.good /\ ~save.good =>
                LET c == save.snapshot
                IN  /\ save.names[c.path] = c.file /\ c.file >= save.oldest
                    /\ save.version[c.file] = c.hash /\ save.tested = {c.made}
                    /\ save.id \in save.sent
           /\ save'.sent # save.sent => save.sent \subseteq save.ended /\ ~save.loose
           /\ SaveSteps /\ save.names[Copy] # save'.names[Copy] /\ save.names[Copy] # Free =>
                save.names[Copy] = save.snapshot.copy /\ ~save.loose
           /\ save'.claims # save.claims => save.id \in save'.ended /\ save.good]_saveVars
    BY <1>1 DEF Grounded, Careful, saveVars
  <1>3. QED BY <1>2, FilesHold, PTL DEF Spec, SavesAreGrounded

\* What the store and the client learn of a start is what happened, and no
\* start is sent while the fate of an earlier one is open.
THEOREM StartsHonest == Spec => StartsAreHonest
  <1>1. FilesInv /\ [Next]_planVars => launch' = launch \/ (LaunchInv(launch') /\ Heard(launch, launch'))
    <2>1. FilesInv /\ LaunchNext => LaunchInv(launch') /\ Heard(launch, launch')
      BY LaunchNextKeeps DEF FilesInv
    <2>2. [Next]_planVars => launch' = launch \/ LaunchNext
      BY DEF Next, planVars, launchVars, Preparing, InWorkflow, Trimming, InProcess, InMedia, InSave
    <2>3. QED BY <2>1, <2>2
  <1>2. LaunchInv(launch') =>
          \A i \in DOMAIN launch'.told :
            /\ Truthful(launch', i, launch'.told[i].fate) /\ Truthful(launch', i, launch'.records[i])
            /\ launch'.told[i].started => launch'.records[i] = "accepted"
    BY LaunchSizes DEF LaunchInv, ToldTruly
  <1>3. FilesInv /\ [Next]_planVars =>
          [/\ \A i \in DOMAIN launch'.told :
                LET t == launch'.told[i]  r == launch'.records[i]
                IN  /\ \A fate \in {t.fate, r} :
                          /\ fate = "not sent" => i \notin launch'.sent
                          /\ fate = "accepted" => i \in launch'.accepted
                          /\ fate = "rejected" => i \notin launch'.accepted
                    /\ t.started => r = "accepted"
                    /\ i \notin DOMAIN launch.told /\ t.started => launch.seen
           /\ launch'.sent # launch.sent => ~\E i \in DOMAIN launch.records :
                i # launch.try.id /\ launch.records[i] \in {"dispatching", "unknown"}]_launchVars
    BY <1>1, <1>2 DEF Heard, Truthful, launchVars
  <1>4. QED BY <1>3, FilesHold, PTL DEF Spec, StartsAreHonest

=============================================================================
