----------------------------- MODULE MatchEvents -----------------------------
(***************************************************************************)
(* The asmrun and run commands of piglet-matcher-exec.c: a pattern is       *)
(* compiled, and match_events feeds the matcher the events of a file until  *)
(* there is a verdict.  The lines of the file are chosen as their events    *)
(* are fed, so "events" is the part of the file that mattered so far.       *)
(*                                                                          *)
(* A line of the file is the sequence of its leading numbers, none for a    *)
(* comment or an empty line.                                                *)
(***************************************************************************)
EXTENDS PigletMatcher, Regexp

CONSTANTS
  Patterns,   \* token sequences
  FileLines,  \* event lines, of names and screens below 2^16
  MaxEvents

ASSUME PatternsParse == \A p \in Patterns : Parses(p)

VARIABLES
  pattern,
  events,  \* the names and screens read
  loop,    \* where match_events is
  res

driver == <<pattern, events, loop, res>>

InitDriver ==
  /\ Init
  /\ pattern \in Patterns
  /\ events = <<>> /\ loop = "create" /\ res = FALSE

CreateMatcher ==
  /\ loop = "create"
  /\ Create(Compile(pattern))
  /\ loop' = "start"
  /\ UNCHANGED <<pattern, events, res>>

(* The result of the start event is not looked at. *)
StartEvent ==
  /\ loop = "start"
  /\ Accept(0)
  /\ loop' = "events"
  /\ UNCHANGED <<pattern, events, res>>

(* parse_event_line *)
IsEvent(line) == line # <<>>

EventOf(line) == [n |-> line[1], s |-> IF Len(line) > 1 THEN line[2] ELSE 0]

(* An OR of disjoint bits. *)
MakeEvent(event) == event.s * 65536 + event.n

(* The last event was answered with MATCH_NEXT, or there was none. *)
Continues == events = <<>> \/ result = "MATCH_NEXT"

FeedEvent ==
  /\ loop = "events" /\ Continues /\ Len(events) < MaxEvents
  /\ \E line \in FileLines :
       /\ IsEvent(line)
       /\ Accept(MakeEvent(EventOf(line)))
       /\ events' = Append(events, EventOf(line))
  /\ UNCHANGED <<pattern, loop, res>>

(* A final verdict breaks the loop, the end of the file ends it. *)
LeaveLoop ==
  /\ loop = "events" /\ at = "idle"
  /\ loop' = "verdict"
  /\ res' = (~Continues /\ result = "MATCH_OK")
  /\ UNCHANGED <<vars, pattern, events>>

DestroyMatcher ==
  /\ loop = "verdict"
  /\ Destroy
  /\ loop' = "done"
  /\ UNCHANGED <<pattern, events, res>>

RunMatcher == Run /\ UNCHANGED driver

DriverNext ==
  CreateMatcher \/ StartEvent \/ FeedEvent \/ LeaveLoop \/ DestroyMatcher \/ RunMatcher

DriverSpec == InitDriver /\ [][DriverNext]_<<vars, driver>>

-----------------------------------------------------------------------------
Verdict == loop = "verdict"

(* No occurrence is missed: when the file has been read (or a match was     *)
(* reported), a pattern that occurs in it was reported.                     *)
NothingMissed == Verdict /\ events # <<>> /\ Occurs(Parse(pattern), events) => res

(* The same, where no thread list has overflowed. *)
NothingMissedUnlessLost == ~lost => NothingMissed

(* A match that is reported is an occurrence of the pattern. *)
NothingInvented == Verdict /\ res => Occurs(Parse(pattern), events)

(* Patterns without "|" are reported exactly, and at the very event that    *)
(* completes their first occurrence.                                        *)
ExactWithoutChoice ==
  Verdict /\ ChoiceFree(Parse(pattern)) /\ ~lost /\ events # <<>> =>
    /\ res <=> Occurs(Parse(pattern), events)
    /\ Len(events) > 1 => ~Occurs(Parse(pattern), SubSeq(events, 1, Len(events) - 1))

=============================================================================
