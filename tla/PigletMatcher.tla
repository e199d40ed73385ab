---------------------------- MODULE PigletMatcher ----------------------------
(***************************************************************************)
(* The event matcher of piglet-matcher.c: a virtual machine whose threads   *)
(* walk the bytecode of one pattern while a client feeds it events.         *)
(*                                                                          *)
(* current_threads and next_threads are modelled as the sequences of their  *)
(* live entries, so their lengths are current_thread_num and                *)
(* next_thread_num.  This loses nothing: an entry at or above the counter   *)
(* is always overwritten before it is read.  The counters are uint8_t and   *)
(* the arrays have MAX_THREAD_NUM = 256 entries, so a counter that should   *)
(* reach MAX_THREAD_NUM becomes 0: the whole list is forgotten.             *)
(*                                                                          *)
(* reached and lost are history variables: the addresses where a thread has *)
(* stood for the event at hand, and whether a list was forgotten since the  *)
(* matcher was created or reset.  No action tests them.                     *)
(***************************************************************************)
EXTENDS MatcherCode

CONSTANTS
  MaxThreadNum,  \* MAX_THREAD_NUM, and the modulus of the thread counters
  Programs,      \* bytecode a client may pass to matcher_create
  Events         \* events a client may pass to matcher_accept

ASSUME MatcherAssumption ==
  /\ MaxThreadNum \in Nat /\ MaxThreadNum >= 2
  /\ \A code \in Programs : WellFormed(code)
  /\ Events \subseteq Nat

VARIABLES
  bytecode,         \* m->bytecode, <<>> while no matcher exists
  current_threads,  \* addresses of the threads to process for this event
  next_threads,     \* addresses of the threads to process for the event to come
  at,               \* "none", "idle", or the loop of matcher_accept being executed
  result,           \* the last return value of matcher_accept, "NONE" before any
  next_event,       \* locals of matcher_accept, 0 outside it
  thread_i,
  ip,
  reached, lost

vars == <<bytecode, current_threads, next_threads, at, result,
          next_event, thread_i, ip, reached, lost>>

Results == {"NONE", "MATCH_NEXT", "MATCH_OK", "MATCH_ERROR"}

Init ==
  /\ bytecode = <<>> /\ current_threads = <<>> /\ next_threads = <<>>
  /\ at = "none" /\ result = "NONE"
  /\ next_event = 0 /\ thread_i = 0 /\ ip = 0
  /\ reached = {} /\ lost = FALSE

(* The slot that is filled when the counter wraps. *)
LastSlot(threads) == Len(threads) + 1 = MaxThreadNum

AddThread_Unbounded(threads, address) == Append(threads, address)

AddThread(threads, address) ==
  IF LastSlot(threads) THEN <<>> ELSE Append(threads, address)

Standing(threads) == {threads[i] : i \in 1 .. Len(threads)}

-----------------------------------------------------------------------------
(* The client's calls. *)

Create(code) ==
  /\ at = "none"
  /\ at' = "idle"
  /\ bytecode' = code
  /\ current_threads' = <<>> /\ next_threads' = <<>>
  /\ result' = "NONE" /\ lost' = FALSE
  /\ UNCHANGED <<next_event, thread_i, ip, reached>>

Destroy ==
  /\ at = "idle"
  /\ at' = "none"
  /\ bytecode' = <<>> /\ current_threads' = <<>> /\ next_threads' = <<>>
  /\ result' = "NONE" /\ lost' = FALSE
  /\ UNCHANGED <<next_event, thread_i, ip, reached>>

Reset ==
  /\ at = "idle"
  /\ current_threads' = <<>> /\ next_threads' = <<>>
  /\ result' = "NONE" /\ lost' = FALSE
  /\ UNCHANGED <<bytecode, at, next_event, thread_i, ip, reached>>

(* A new thread only where none is waiting. *)
Accept_WhenNoneWaits(event) ==
  /\ at = "idle"
  /\ at' = "for"
  /\ next_event' = event /\ thread_i' = 0
  /\ current_threads' = IF current_threads = <<>> THEN AddThread(<<>>, 0) ELSE current_threads
  /\ reached' = Standing(current_threads')
  /\ UNCHANGED <<bytecode, next_threads, result, ip, lost>>

(* matcher_accept is called: on every event a new thread is started. *)
Accept(event) ==
  /\ at = "idle"
  /\ at' = "for"
  /\ next_event' = event /\ thread_i' = 0
  /\ current_threads' = AddThread(current_threads, 0)
  /\ lost' = (lost \/ LastSlot(current_threads))
  /\ reached' = Standing(current_threads) \cup {0}
  /\ UNCHANGED <<bytecode, next_threads, result, ip>>

-----------------------------------------------------------------------------
(* The two loops of matcher_accept. *)

Return(verdict) ==
  /\ at' = "idle" /\ result' = verdict
  /\ next_event' = 0 /\ thread_i' = 0 /\ ip' = 0 /\ reached' = {}

(* The for loop takes the next thread of the list, which may have grown ... *)
TakeThread ==
  /\ at = "for" /\ thread_i < Len(current_threads)
  /\ at' = "while"
  /\ ip' = current_threads[thread_i + 1]
  /\ UNCHANGED <<bytecode, current_threads, next_threads, result,
                 next_event, thread_i, reached, lost>>

Exhausted_KeepsNext ==
  /\ at = "for" /\ thread_i >= Len(current_threads)
  /\ Return("MATCH_NEXT")
  /\ current_threads' = next_threads
  /\ UNCHANGED <<bytecode, next_threads, lost>>

Exhausted_SwapsBoth ==
  /\ at = "for" /\ thread_i >= Len(current_threads)
  /\ Return("MATCH_NEXT")
  /\ current_threads' = next_threads
  /\ next_threads' = current_threads
  /\ UNCHANGED <<bytecode, lost>>

(* ... and swaps the lists when it has walked it. *)
Exhausted ==
  /\ at = "for" /\ thread_i >= Len(current_threads)
  /\ Return("MATCH_NEXT")
  /\ current_threads' = next_threads
  /\ next_threads' = <<>>
  /\ UNCHANGED <<bytecode, lost>>

(* The while loop executes one instruction of the thread. *)
Executing(ops) ==
  /\ at = "while" /\ At(bytecode, ip).op \in ops
  /\ UNCHANGED bytecode

(* Successors(bytecode, ip, next_event) is where threads stand afterwards. *)
Stand == reached' = reached \cup Successors(bytecode, ip, next_event)

ThreadDone ==
  /\ Stand
  /\ at' = "for"
  /\ thread_i' = thread_i + 1 /\ ip' = 0
  /\ UNCHANGED <<result, next_event>>

ThreadGoesOn ==
  /\ Stand
  /\ ip' = ip + 1
  /\ UNCHANGED <<at, result, next_event, thread_i>>

OpTest ==
  /\ Executing({"NAME", "SCREEN"})
  /\ IF Passes(At(bytecode, ip), next_event) THEN ThreadGoesOn ELSE ThreadDone
  /\ UNCHANGED <<current_threads, next_threads, lost>>

OpNext ==
  /\ Executing({"NEXT"})
  /\ next_threads' = AddThread(next_threads, ip + 1)
  /\ lost' = (lost \/ LastSlot(next_threads))
  /\ ThreadDone
  /\ UNCHANGED current_threads

OpJump_InPlace ==
  /\ Executing({"JUMP"})
  /\ Stand
  /\ ip' = At(bytecode, ip).a
  /\ UNCHANGED <<at, result, next_event, thread_i, current_threads, next_threads, lost>>

(* Neither branch instruction sets thread_done: the thread goes on behind it. *)
OpJump ==
  /\ Executing({"JUMP"})
  /\ current_threads' = AddThread(current_threads, At(bytecode, ip).a)
  /\ lost' = (lost \/ LastSlot(current_threads))
  /\ ThreadGoesOn
  /\ UNCHANGED next_threads

OpSplit_LeftOnly ==
  /\ Executing({"SPLIT"})
  /\ current_threads' = AddThread(current_threads, At(bytecode, ip).a)
  /\ lost' = (lost \/ LastSlot(current_threads))
  /\ ThreadDone
  /\ UNCHANGED next_threads

OpSplit ==
  /\ Executing({"SPLIT"})
  /\ LET left == AddThread(current_threads, At(bytecode, ip).a)
     IN  /\ current_threads' = AddThread(left, At(bytecode, ip).b)
         /\ lost' = (lost \/ LastSlot(current_threads) \/ LastSlot(left))
  /\ ThreadGoesOn
  /\ UNCHANGED next_threads

(* The early returns leave both lists as they are. *)
OpMatch ==
  /\ Executing({"MATCH"})
  /\ Return("MATCH_OK")
  /\ UNCHANGED <<current_threads, next_threads, lost>>

OpAbort ==
  /\ Executing({"ABORT"})
  /\ Return("MATCH_ERROR")
  /\ UNCHANGED <<current_threads, next_threads, lost>>

Run ==
  \/ TakeThread \/ Exhausted
  \/ OpTest \/ OpNext \/ OpJump \/ OpSplit \/ OpMatch \/ OpAbort

-----------------------------------------------------------------------------
Manage == (\E code \in Programs : Create(code)) \/ Destroy \/ Reset

(* Any client: the library does not ask what the last verdict was. *)
Next == Manage \/ (\E event \in Events : Accept(event)) \/ Run

InSession == result \notin {"MATCH_OK", "MATCH_ERROR"}

(* A client that, as the tests do, resets or destroys after a final verdict. *)
SessionNext ==
  \/ Manage
  \/ /\ InSession
     /\ \E event \in Events : Accept(event)
  \/ Run

Spec == Init /\ [][Next]_vars
SessionSpec == Init /\ [][SessionNext]_vars

(* A function call runs to its end once made; nothing obliges the client. *)
FairSpec == Spec /\ WF_vars(Run)

-----------------------------------------------------------------------------
(* Once called, matcher_accept returns, whatever the pattern and whatever   *)
(* the threads it finds: a thread only moves forward, and the wrap of the   *)
(* counter bounds what branches can add, even by a loop without NEXT.       *)
AcceptTerminates == (at \in {"for", "while"}) ~> (at = "idle")

(* In a session, a linear pattern never overflows a thread list: no two     *)
(* threads stand on the same instruction, so no match can be forgotten.     *)
ShortLinear == Linear(bytecode) /\ Len(bytecode) + 1 < MaxThreadNum

LinearNeverLoses == ShortLinear => ~lost

(* The reason for it: threads of a linear pattern are kept oldest first,    *)
(* that is by strictly decreasing address, and every thread but a new one   *)
(* stands behind the NEXT that made it wait.                                *)
Decreasing(threads) ==
  \A i, j \in 1 .. Len(threads) : i < j => threads[i] > threads[j]

Waited(threads) ==
  \A i \in 1 .. Len(threads) : threads[i] > 0 => At(bytecode, threads[i] - 1).op = "NEXT"

OldestFirst ==
  ShortLinear => \A threads \in {current_threads, next_threads} :
                   Decreasing(threads) /\ Waited(threads)

(* The matcher implements EventMatcher for clients that keep sessions: the  *)
(* thread lists, their order and their duplicates are an implementation of  *)
(* a set of positions, exact until a list overflows.                        *)
Promise == INSTANCE EventMatcher WITH
  code    <- bytecode,
  phase   <- IF at \in {"for", "while"} THEN "busy" ELSE at,
  verdict <- result,
  event   <- next_event,
  waiting <- IF at = "idle" /\ InSession THEN Standing(current_threads) ELSE {},
  lossy   <- lost

ImplementsEventMatcher == Promise!Spec

(* The state is well typed: neither list ever fills its array, and every    *)
(* thread stands on an instruction or on the zero byte behind the code.     *)
TypeOK ==
  /\ bytecode \in Programs \cup {<<>>}
  /\ at \in {"none", "idle", "for", "while"}
  /\ at # "none" => bytecode \in Programs
  /\ current_threads \in Seq(Addresses(bytecode))
  /\ next_threads \in Seq(Addresses(bytecode))
  /\ Len(current_threads) < MaxThreadNum
  /\ Len(next_threads) < MaxThreadNum
  /\ result \in Results
  /\ next_event \in Events \cup {0}
  /\ thread_i \in Nat
  /\ ip \in Addresses(bytecode)
  /\ at # "while" => ip = 0
  /\ reached \subseteq Addresses(bytecode)
  /\ at \in {"none", "idle"} => reached = {}
  /\ lost \in BOOLEAN

=============================================================================
