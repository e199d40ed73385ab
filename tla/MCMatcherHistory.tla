-------------------------- MODULE MCMatcherHistory ---------------------------
(***************************************************************************)
(* Sessions of any length.  Of the events seen only the last ones are kept, *)
(* as many as the longest linear pattern looks back at, and none if the     *)
(* pattern has branches.                                                    *)
(***************************************************************************)
EXTENDS MatcherHistory, MCPigletMatcher

CONSTANT MaxSeen

Forgets(events) ==
  IF ~Linear(bytecode) THEN <<>>
  ELSE IF Len(events) > MaxSeen THEN Tail(events)
  ELSE events

MCAccept(event) == Accept(event) /\ seen' = Forgets(Append(seen, event))

MCHistoryNext ==
  \/ Manage /\ seen' = <<>>
  \/ InSession /\ \E event \in Events : MCAccept(event)
  \/ Run /\ UNCHANGED seen

MCHistorySpec == HistoryInit /\ [][MCHistoryNext]_<<vars, seen>>

=============================================================================
