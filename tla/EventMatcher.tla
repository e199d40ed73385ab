---------------------------- MODULE EventMatcher -----------------------------
(***************************************************************************)
(* What matcher_accept promises, whatever the order and the number of its   *)
(* threads: a verdict is about the set of addresses a thread can reach.     *)
(*                                                                          *)
(* MATCH_OK (MATCH_ERROR) is only returned when a MATCH (an ABORT) is       *)
(* reached.  Unless the matcher is lossy, MATCH_NEXT is only returned when  *)
(* everything reachable was explored without finding either, and exactly    *)
(* the threads that executed NEXT wait for the next event.  A lossy matcher *)
(* may give up early and forget waiting threads, and never invents one.     *)
(***************************************************************************)
EXTENDS MatcherCode

CONSTANTS Programs, Events

VARIABLES code, phase, verdict, event, waiting, reached, lossy

vars == <<code, phase, verdict, event, waiting, reached, lossy>>

Final == {"MATCH_OK", "MATCH_ERROR"}

Init ==
  /\ code = <<>> /\ phase = "none" /\ verdict = "NONE" /\ event = 0
  /\ waiting = {} /\ reached = {} /\ lossy = FALSE

Restart(program, to) ==
  /\ code' = program /\ phase' = to
  /\ verdict' = "NONE" /\ waiting' = {} /\ lossy' = FALSE
  /\ UNCHANGED <<event, reached>>

Create  == phase = "none" /\ \E program \in Programs : Restart(program, "idle")
Destroy == phase = "idle" /\ Restart(<<>>, "none")
Reset   == phase = "idle" /\ Restart(code, "idle")

MayLose == lossy' \in {lossy, TRUE}

Begin(e) ==
  /\ phase = "idle" /\ verdict \notin Final
  /\ phase' = "busy" /\ event' = e
  /\ reached' = waiting \cup {0} /\ waiting' = {}
  /\ MayLose
  /\ UNCHANGED <<code, verdict>>

Explore(p) ==
  /\ phase = "busy"
  /\ reached' = reached \cup Successors(code, p, event)
  /\ MayLose
  /\ UNCHANGED <<code, phase, verdict, event, waiting>>

Closed == \A p \in reached : Successors(code, p, event) \subseteq reached

(* Where the threads that executed NEXT resume. *)
Resumed == {p + 1 : p \in {q \in reached : At(code, q).op = "NEXT"}}

Reply(v) ==
  /\ phase = "busy"
  /\ phase' = "idle" /\ verdict' = v /\ event' = 0 /\ reached' = {}
  /\ UNCHANGED <<code, lossy>>

ReplyNext ==
  /\ Reply("MATCH_NEXT")
  /\ waiting' \subseteq Resumed
  /\ ~lossy => /\ waiting' = Resumed
               /\ Closed
               /\ \A p \in reached : At(code, p).op \notin {"MATCH", "ABORT"}

ReplyFinal ==
  \E p \in reached :
    /\ \/ At(code, p).op = "MATCH" /\ Reply("MATCH_OK")
       \/ At(code, p).op = "ABORT" /\ Reply("MATCH_ERROR")
    /\ waiting' = {}

Next ==
  \/ Create \/ Destroy \/ Reset
  \/ \E e \in Events : Begin(e)
  \/ \E p \in reached : Explore(p)
  \/ ReplyNext \/ ReplyFinal

Spec == Init /\ [][Next]_vars

=============================================================================
