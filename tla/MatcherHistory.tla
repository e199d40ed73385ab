--------------------------- MODULE MatcherHistory ----------------------------
(***************************************************************************)
(* What the verdicts of a session say about the events it was fed, for      *)
(* patterns without branches.  seen is a history variable: the events       *)
(* accepted since the matcher was created or reset.                         *)
(***************************************************************************)
EXTENDS PigletMatcher, FiniteSets

VARIABLE seen

HistoryInit == Init /\ seen = <<>>

(* The steps of SessionNext, with what they add to the history. *)
HistoryNext ==
  \/ Manage /\ seen' = <<>>
  \/ /\ InSession
     /\ \E event \in Events : Accept(event) /\ seen' = Append(seen, event)
  \/ Run /\ UNCHANGED seen

HistorySpec == HistoryInit /\ [][HistoryNext]_<<vars, seen>>

-----------------------------------------------------------------------------
(* The event before the last n. *)
Ago(n) == seen[Len(seen) - n]

(* How many events a pattern has consumed where p is reached. *)
NextsBefore(p) == Cardinality({q \in Addresses(bytecode) : q < p /\ At(bytecode, q).op = "NEXT"})

(* The event that came as many NEXTs ago passes the test at q. *)
Holds(q, p) ==
  LET i == At(bytecode, q)
  IN  /\ i.op \notin {"MATCH", "ABORT"}
      /\ i.op \in {"NAME", "SCREEN"} => Passes(i, Ago(NextsBefore(p) - NextsBefore(q)))

(* The events seen last satisfy what a linear pattern asks before address p. *)
Fulfilled(p) ==
  /\ NextsBefore(p) < Len(seen)
  /\ \A q \in Addresses(bytecode) : q < p => Holds(q, p)

Finds(op) == \E p \in Addresses(bytecode) : At(bytecode, p).op = op /\ Fulfilled(p)

(* The verdict on an event is right for a linear pattern: a match is reported  *)
(* with the very event that completes the first occurrence in the session, an  *)
(* error only where a cut-off program has matched to its end, and the client   *)
(* is asked for another event while neither is the case.  The threads, which    *)
(* only ever see the event at hand, together find every window of events.      *)
VerdictsExact ==
  ShortLinear /\ at = "idle" /\ seen # <<>> =>
    /\ result = "MATCH_OK" <=> Finds("MATCH")
    /\ result = "MATCH_ERROR" <=> Finds("ABORT")

=============================================================================
