------------------------------ MODULE Process ------------------------------
(***************************************************************************)
(* One child process of the media tools (media_verification.rs): spawned   *)
(* once, driven by one actor that reads both pipes, obeys a deadline and a *)
(* cancellation, terminates and then kills the child, and reports how it   *)
(* ended and whether its cleanup is confirmed.                             *)
(*                                                                         *)
(* A timer that is armed may expire at any time.  A pipe carries at most   *)
(* MaxChunks chunks; its write end is closed when the child and every      *)
(* descendant that inherited it are gone.  What a failed child printed is  *)
(* left out.                                                               *)
(***************************************************************************)
EXTENDS Integers

CONSTANTS MaxChunks   \* bound on the chunks a child writes to a pipe

VARIABLE proc

procVars == <<proc>>
Pipes == {"stdout", "stderr"}

\* capture: stdout is a pipe (otherwise the child has none).
ProcInit(capture) ==
    proc = [child |-> "running", exit |-> "none", killed |-> FALSE,
            writers |-> [p \in Pipes |-> p = "stderr" \/ capture],
            reader |-> [p \in Pipes |-> IF p = "stderr" \/ capture THEN "open" ELSE "none"],
            written |-> [p \in Pipes |-> 0], consumed |-> [p \in Pipes |-> 0],
            cancelled |-> FALSE, failure |-> "none", issue |-> FALSE,
            status |-> "none", killAt |-> FALSE, exitUntil |-> FALSE, drainUntil |-> FALSE,
            result |-> "pending"]

-----------------------------------------------------------------------------
(* The child, its descendants and its owner *)

ChildWrites(p) ==
    /\ proc.writers[p] /\ proc.written[p] < MaxChunks
    /\ proc' = [proc EXCEPT !.written[p] = @ + 1]
ChildExits ==
    /\ proc.child = "running"
    /\ \E how \in IF proc.killed THEN {"bad"} ELSE {"good", "bad"} :
          proc' = [proc EXCEPT !.child = "exited", !.exit = how]
\* A descendant may keep a pipe open for as long as it likes.
WriterCloses(p) ==
    /\ proc.child = "exited" /\ proc.writers[p]
    /\ proc' = [proc EXCEPT !.writers[p] = FALSE]
CancelProcess == ~proc.cancelled /\ proc' = [proc EXCEPT !.cancelled = TRUE]

-----------------------------------------------------------------------------
(* The actor *)

Open(p) == proc.reader[p] = "open"
AnyOpen == \E p \in Pipes : Open(p)
Joined == proc.status # "none" /\ ~AnyOpen
Driving == proc.result = "pending" /\ ~Joined
Return(q, how) == [q EXCEPT !.result = how]
Failing(q, how) == IF q.failure = "none" THEN [q EXCEPT !.failure = how] ELSE q

\* Stopping the child: SIGTERM through a helper and a timer for SIGKILL.  A
\* helper that hangs is overtaken by SIGKILL, and if its own end cannot be
\* confirmed the actor gives up on the confirmation.
Terminate(q) ==
    IF q.status # "none" THEN {q}
    ELSE {[q EXCEPT !.killAt = TRUE],
          [q EXCEPT !.killAt = TRUE, !.killed = TRUE],
          Return([q EXCEPT !.killed = TRUE, !.issue = TRUE], q.failure)}

SeesCancellation ==
    /\ Driving /\ proc.failure = "none" /\ proc.cancelled
    /\ proc' \in Terminate([proc EXCEPT !.failure = "cancelled"])
DeadlinePasses ==
    /\ Driving /\ proc.failure = "none"
    /\ proc' \in Terminate([proc EXCEPT !.failure = "timed out"])
KillTimer ==
    /\ Driving /\ proc.killAt /\ proc.status = "none"
    /\ \E sent \in BOOLEAN :
          proc' = [proc EXCEPT !.killAt = FALSE, !.exitUntil = TRUE, !.killed = @ \/ sent,
                               !.issue = @ \/ ~sent]
ExitTimer ==
    /\ Driving /\ proc.exitUntil /\ proc.status = "none"
    /\ proc' = Return([proc EXCEPT !.issue = TRUE], proc.failure)
\* The child is gone and a pipe stays open: our end is closed, and that is said.
DrainTimer ==
    /\ Driving /\ proc.drainUntil /\ AnyOpen
    /\ proc' = [Failing(proc, IF proc.status = "bad" THEN "decode" ELSE "cleanup") EXCEPT
                   !.issue = TRUE, !.reader = [p \in Pipes |-> IF Open(p) THEN "given up" ELSE @[p]]]
Waited ==
    /\ Driving /\ proc.status = "none" /\ proc.child = "exited"
    /\ proc' \in {[proc EXCEPT !.status = proc.exit, !.killAt = FALSE, !.exitUntil = FALSE, !.drainUntil = TRUE],
                  LET lost == Failing(proc, "cleanup") IN Return([lost EXCEPT !.issue = TRUE], lost.failure)}
ReadsChunk(p) ==
    /\ Driving /\ Open(p) /\ proc.consumed[p] < proc.written[p]
    /\ LET read == [proc EXCEPT !.consumed[p] = @ + 1]
       IN  \/ proc' = read
           \* the sink refuses what it is given
           \/ /\ proc.failure = "none"
              /\ proc' \in Terminate([read EXCEPT !.failure = "output",
                        !.reader["stdout"] = IF @ = "open" THEN "given up" ELSE @])
ReadsEnd(p) ==
    /\ Driving /\ Open(p) /\ proc.consumed[p] = proc.written[p] /\ ~proc.writers[p]
    /\ proc' = [proc EXCEPT !.reader[p] = "eof"]
ReadFails(p) ==
    /\ Driving /\ Open(p)
    /\ LET gone == [Failing(proc, "cleanup") EXCEPT !.issue = TRUE, !.reader[p] = "given up"]
       IN  proc' \in IF proc.failure = "none" THEN Terminate(gone) ELSE {gone}
Ends ==
    /\ proc.result = "pending" /\ Joined
    /\ \E ok \in BOOLEAN :   \* whether the sink accepts the whole
          proc' = Return(proc, IF proc.failure # "none" THEN proc.failure
                               ELSE IF proc.status = "bad" THEN "decode"
                               ELSE IF ok THEN "ok" ELSE "output")

\* The actor's task fails; nothing is known of the child.
ActorFails ==
    /\ proc.result = "pending"
    /\ proc' = Return([proc EXCEPT !.issue = TRUE], "actor")

ProcNext ==
    \/ \E p \in Pipes : ChildWrites(p) \/ WriterCloses(p) \/ ReadsChunk(p) \/ ReadsEnd(p) \/ ReadFails(p)
    \/ ChildExits \/ CancelProcess
    \/ SeesCancellation \/ DeadlinePasses \/ KillTimer \/ ExitTimer \/ DrainTimer \/ Waited \/ Ends
    \/ ActorFails

-----------------------------------------------------------------------------

(* ProcessIsHonest: a process that is reported without a cleanup issue has   *)
(* been waited for, and no pipe of it was left to a descendant; one that is  *)
(* reported successful exited well and everything it wrote was read to the   *)
(* end.                                                                      *)
ProcessIsHonest ==
    /\ proc.result # "pending" /\ ~proc.issue =>
          /\ proc.child = "exited"
          /\ proc.reader["stderr"] = "eof"
          /\ proc.reader["stdout"] # "eof" /\ proc.reader["stdout"] # "none" => proc.result = "output"
    /\ proc.result = "ok" =>
          /\ proc.exit = "good"
          /\ ~proc.issue
          /\ \A p \in Pipes : proc.reader[p] \in {"eof", "none"} /\ proc.consumed[p] = proc.written[p]

=============================================================================
