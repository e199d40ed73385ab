------------------------- MODULE PigletMatcherProofs -------------------------
(***************************************************************************)
(* What PigletMatcher promises for every pattern, every stream of events    *)
(* and every capacity of its thread lists.                                  *)
(***************************************************************************)
EXTENDS MatcherHistory, FiniteSetTheorems, WellFoundedInduction, TLAPS

-----------------------------------------------------------------------------
(* Facts about bytecode. *)

(* Only the zero byte lies at the end of the code. *)
LEMMA AtInside ==
  ASSUME NEW code \in Programs, NEW p \in Addresses(code)
  PROVE  /\ At(code, p) \in Instruction
         /\ At(code, p).op # "ABORT" => p + 1 \in Addresses(code)
         /\ At(code, p).op \in {"JUMP", "SPLIT"} => At(code, p).a \in Addresses(code)
         /\ At(code, p).op = "SPLIT" => At(code, p).b \in Addresses(code)
<1>1. WellFormed(code) /\ code \in Seq(Instruction) /\ Len(code) \in Nat
  BY MatcherAssumption DEF WellFormed
<1>2. CASE p < Len(code)
  <2>1. p + 1 \in 1 .. Len(code) /\ At(code, p) = code[p + 1]
    BY <1>1, <1>2 DEF At, Addresses
  <2>2. code[p + 1] \in Instruction
    BY <2>1, <1>1
  <2> QED
    BY <2>1, <2>2, <1>1 DEF WellFormed, Addresses
<1>3. CASE p = Len(code)
  BY <1>3, <1>1 DEF At, Abort, Instruction, Ops
<1> QED
  BY <1>1, <1>2, <1>3 DEF Addresses

(* What a thread can reach in one instruction lies inside the code. *)
LEMMA SuccessorsInside ==
  ASSUME NEW code \in Programs, NEW p \in Addresses(code), NEW event
  PROVE  Successors(code, p, event) \subseteq Addresses(code)
<1>1. At(code, p).op \in {"NAME", "SCREEN", "JUMP", "SPLIT"} => At(code, p).op # "ABORT"
  OBVIOUS
<1> QED
  BY <1>1, AtInside DEF Successors

-----------------------------------------------------------------------------
(* Facts about thread lists. *)

(* The empty list, of every type. *)
LEMMA EmptyList == ASSUME NEW S PROVE <<>> \in Seq(S) /\ Len(<<>>) = 0
  OBVIOUS

(* Adding a thread keeps a list typed and below its capacity. *)
LEMMA AddThreadType ==
  ASSUME NEW S, NEW threads \in Seq(S), NEW address \in S,
         Len(threads) < MaxThreadNum
  PROVE  /\ AddThread(threads, address) \in Seq(S)
         /\ Len(AddThread(threads, address)) < MaxThreadNum
  BY MatcherAssumption DEF AddThread, LastSlot

(* Where the threads of a list stand after one was added to it. *)
LEMMA AddThreadStanding ==
  ASSUME NEW S, NEW threads \in Seq(S), NEW address \in S
  PROVE  /\ Standing(AddThread(threads, address)) \subseteq Standing(threads) \cup {address}
         /\ ~LastSlot(threads) =>
              Standing(AddThread(threads, address)) = Standing(threads) \cup {address}
<1>1. CASE LastSlot(threads)
  BY <1>1 DEF AddThread, Standing
<1>2. CASE ~LastSlot(threads)
  <2> DEFINE more == Append(threads, address)
  <2>1. Len(more) = Len(threads) + 1 /\ Len(threads) \in Nat /\ more[Len(more)] = address
        /\ \A i \in 1 .. Len(threads) : more[i] = threads[i]
    OBVIOUS
  <2>2. AddThread(threads, address) = more
    BY <1>2 DEF AddThread
  <2>3. Standing(more) \subseteq Standing(threads) \cup {address}
    <3>1. SUFFICES ASSUME NEW i \in 1 .. Len(more)
                   PROVE  more[i] \in Standing(threads) \cup {address}
      BY DEF Standing
    <3>2. i = Len(more) \/ i \in 1 .. Len(threads)
      BY <2>1
    <3> QED
      BY <2>1, <3>2 DEF Standing
  <2>4. Standing(threads) \cup {address} \subseteq Standing(more)
    <3>1. 1 .. Len(threads) \subseteq 1 .. Len(more) /\ Len(more) \in 1 .. Len(more)
      BY <2>1
    <3> HIDE DEF more
    <3> QED
      BY <2>1, <3>1 DEF Standing
  <2> QED
    BY <2>2, <2>3, <2>4, <1>2
<1> QED
  BY <1>1, <1>2

(* The threads of a typed list stand inside the type. *)
LEMMA StandingType ==
  ASSUME NEW S, NEW threads \in Seq(S)
  PROVE  Standing(threads) \subseteq S
  BY DEF Standing

-----------------------------------------------------------------------------
(***************************************************************************)
(* Type correctness: in whatever order a client calls, no list outgrows its *)
(* array and no thread leaves the code.                                     *)
(***************************************************************************)
LEMMA TypeInit == Init => TypeOK
<1> SUFFICES ASSUME Init PROVE TypeOK
  OBVIOUS
<1>1. /\ current_threads \in Seq(Addresses(bytecode)) /\ Len(current_threads) < MaxThreadNum
      /\ next_threads \in Seq(Addresses(bytecode)) /\ Len(next_threads) < MaxThreadNum
  BY EmptyList, MatcherAssumption DEF Init
<1>2. 0 \in Addresses(bytecode)
  BY EmptyList DEF Init, Addresses
<1> QED
  BY <1>1, <1>2 DEF Init, TypeOK, Results

(* Each step of matcher_accept and of its client keeps the types. *)
LEMMA TypeStep == TypeOK /\ [Next]_vars => TypeOK'
<1> SUFFICES ASSUME TypeOK, [Next]_vars
             PROVE  TypeOK'
  OBVIOUS
<1> USE MatcherAssumption
<1>0. 0 \in Addresses(bytecode)
  BY DEF TypeOK, Addresses, WellFormed
<1> DEFINE Fits(threads, code) ==
             threads \in Seq(Addresses(code)) /\ Len(threads) < MaxThreadNum
<1>1. ASSUME NEW code \in Programs, Create(code)
      PROVE  TypeOK'
  <2>1. 0 \in Addresses(code)
    BY DEF WellFormed, Addresses
  <2>2. Fits(current_threads, bytecode)' /\ Fits(next_threads, bytecode)'
    BY <1>1, EmptyList DEF Create
  <2> QED
    BY <1>1, <2>1, <2>2 DEF Create, TypeOK, Results
<1>2. CASE Destroy
  <2>1. 0 \in Addresses(<<>>)
    BY EmptyList DEF Addresses
  <2>2. Fits(current_threads, bytecode)' /\ Fits(next_threads, bytecode)'
    BY <1>2, EmptyList DEF Destroy
  <2> QED
    BY <1>2, <2>1, <2>2 DEF Destroy, TypeOK, Results
<1>3. CASE Reset
  <2>1. Fits(current_threads, bytecode)' /\ Fits(next_threads, bytecode)'
    BY <1>3, EmptyList DEF Reset
  <2> QED
    BY <1>3, <2>1 DEF Reset, TypeOK, Results
<1>4. ASSUME NEW event \in Events, Accept(event)
      PROVE  TypeOK'
  <2>1. Standing(current_threads) \subseteq Addresses(bytecode)
    BY StandingType DEF TypeOK
  <2> QED
    BY <1>4, <1>0, <2>1, AddThreadType DEF Accept, TypeOK
<1>5. CASE TakeThread
  BY <1>5 DEF TakeThread, TypeOK
<1>6. CASE Exhausted
  <2>1. Fits(current_threads, bytecode)' /\ Fits(next_threads, bytecode)'
    BY <1>6, EmptyList DEF Exhausted, TypeOK
  <2> QED
    BY <1>6, <1>0, <2>1 DEF Exhausted, Return, TypeOK, Results
<1>7. ASSUME at = "while", Stand
      PROVE  reached' \subseteq Addresses(bytecode)
  BY <1>7, SuccessorsInside DEF Stand, TypeOK
<1>8. ASSUME at = "while", At(bytecode, ip).op # "ABORT"
      PROVE  ip + 1 \in Addresses(bytecode)
  BY <1>8, AtInside DEF TypeOK
<1>9. CASE OpTest
  BY <1>9, <1>0, <1>7, <1>8 DEF OpTest, Executing, ThreadDone, ThreadGoesOn, TypeOK
<1>10. CASE OpNext
  <2>1. ip + 1 \in Addresses(bytecode)
    BY <1>10, <1>8 DEF OpNext, Executing
  <2>2. Fits(next_threads, bytecode)'
    BY <1>10, <2>1, AddThreadType DEF OpNext, Executing, TypeOK
  <2> QED
    BY <1>10, <1>0, <1>7, <2>2 DEF OpNext, Executing, ThreadDone, TypeOK
<1>11. CASE OpJump
  <2>1. At(bytecode, ip).a \in Addresses(bytecode)
    BY <1>11, AtInside DEF OpJump, Executing, TypeOK
  <2> QED
    BY <1>11, <1>7, <1>8, <2>1, AddThreadType DEF OpJump, Executing, ThreadGoesOn, TypeOK
<1>12. CASE OpSplit
  <2> DEFINE left == AddThread(current_threads, At(bytecode, ip).a)
  <2>1. At(bytecode, ip).a \in Addresses(bytecode) /\ At(bytecode, ip).b \in Addresses(bytecode)
    BY <1>12, AtInside DEF OpSplit, Executing, TypeOK
  <2>2. left \in Seq(Addresses(bytecode)) /\ Len(left) < MaxThreadNum
    BY <2>1, AddThreadType DEF TypeOK
  <2>3. current_threads' \in Seq(Addresses(bytecode)) /\ Len(current_threads') < MaxThreadNum
    <3> HIDE DEF left
    <3> QED
      BY <1>12, <2>1, <2>2, AddThreadType DEF OpSplit, left
  <2> QED
    BY <1>12, <1>7, <1>8, <2>3 DEF OpSplit, Executing, ThreadGoesOn, TypeOK
<1>13. CASE OpMatch
  BY <1>13, <1>0 DEF OpMatch, Executing, Return, TypeOK, Results
<1>14. CASE OpAbort
  BY <1>14, <1>0 DEF OpAbort, Executing, Return, TypeOK, Results
<1>15. CASE UNCHANGED vars
  BY <1>15 DEF vars, TypeOK
<1> QED
  BY <1>1, <1>2, <1>3, <1>4, <1>5, <1>6, <1>9, <1>10, <1>11, <1>12, <1>13, <1>14, <1>15
  DEF Next, Manage, Run

(* Whatever a client does, the matcher's state stays well typed. *)
THEOREM TypeCorrect == Spec => []TypeOK
<1> QED
  BY TypeInit, TypeStep, PTL DEF Spec

(* A client that keeps sessions is a client. *)
LEMMA SessionIsClient == [SessionNext]_vars => [Next]_vars
  BY DEF SessionNext, Next, Manage, Run

-----------------------------------------------------------------------------
(***************************************************************************)
(* Linear patterns.  LinearInv is the inductive strengthening of            *)
(* LinearNeverLoses: OldestFirst and its companion Room bound the lists;    *)
(* Behind orders the threads already served before those still to serve,    *)
(* because no thread crosses a NEXT (Between).                              *)
(***************************************************************************)
Room(threads) ==
  \A i \in 1 .. Len(threads) : threads[i] + i <= Len(bytecode) + 1

Behind ==
  \A k \in 1 .. Len(next_threads) :
    \E j \in 1 .. Len(current_threads) : j <= thread_i /\ current_threads[j] < next_threads[k]

Between ==
  /\ thread_i < Len(current_threads)
  /\ current_threads[thread_i + 1] <= ip
  /\ \A p \in Addresses(bytecode) :
       current_threads[thread_i + 1] <= p /\ p < ip => At(bytecode, p).op # "NEXT"

LinearInv ==
  ShortLinear =>
    /\ ~lost
    /\ Decreasing(current_threads) /\ Waited(current_threads) /\ Room(current_threads)
    /\ Decreasing(next_threads) /\ Waited(next_threads) /\ Room(next_threads)
    /\ at \in {"none", "idle"} /\ InSession =>
         /\ next_threads = <<>>
         /\ \A i \in 1 .. Len(current_threads) : current_threads[i] > 0
    /\ at \in {"for", "while"} => Behind
    /\ at = "while" => Between

(* An empty list satisfies all of it. *)
LEMMA EmptyOrdered ==
  ASSUME NEW threads, threads = <<>>
  PROVE  Decreasing(threads) /\ Waited(threads) /\ Room(threads)
<1>1. Len(threads) = 0
  BY EmptyList
<1> QED
  BY <1>1 DEF Decreasing, Waited, Room

(* A thread is added at the end, when the list has room for it. *)
LEMMA AddThreadEnd ==
  ASSUME NEW S, NEW threads \in Seq(S), NEW address \in S, ~LastSlot(threads)
  PROVE  LET more == AddThread(threads, address)
         IN  /\ Len(more) = Len(threads) + 1
             /\ more[Len(threads) + 1] = address
             /\ \A i \in 1 .. Len(threads) : more[i] = threads[i]
  BY DEF AddThread

(* No branch instruction is ever executed in a linear pattern. *)
LEMMA LinearAt ==
  ASSUME TypeOK, Linear(bytecode), bytecode \in Programs
  PROVE  At(bytecode, ip).op \notin {"JUMP", "SPLIT"}
<1>1. bytecode \in Seq(Instruction) /\ ip \in Nat /\ Len(bytecode) \in Nat
  BY MatcherAssumption DEF TypeOK, WellFormed, Addresses
<1>2. CASE ip < Len(bytecode)
  BY <1>1, <1>2 DEF At, Linear
<1>3. CASE ~(ip < Len(bytecode))
  BY <1>3 DEF At, Abort
<1> QED
  BY <1>2, <1>3

(* A thread about to wait stands before every thread already waiting. *)
LEMMA WaitsLast ==
  ASSUME TypeOK, LinearInv, ShortLinear, at = "while"
  PROVE  \A k \in 1 .. Len(next_threads) : ip + 1 < next_threads[k]
<1> TAKE k \in 1 .. Len(next_threads)
<1>1. Behind /\ Between /\ Decreasing(current_threads) /\ Waited(current_threads)
  BY DEF LinearInv
<1>2. PICK j \in 1 .. Len(current_threads) :
             j <= thread_i /\ current_threads[j] < next_threads[k]
  BY <1>1 DEF Behind
<1>3. /\ thread_i + 1 \in 1 .. Len(current_threads) /\ thread_i \in Nat
      /\ current_threads[j] \in Addresses(bytecode)
      /\ current_threads[thread_i + 1] \in Addresses(bytecode)
      /\ next_threads[k] \in Addresses(bytecode) /\ ip \in Addresses(bytecode)
  BY <1>1, <1>2 DEF TypeOK, Between
<1>4. current_threads[j] > current_threads[thread_i + 1]
  BY <1>1, <1>2, <1>3 DEF Decreasing
<1>5. At(bytecode, current_threads[j] - 1).op = "NEXT"
  BY <1>1, <1>3, <1>4 DEF Waited, Addresses
<1>6. current_threads[j] - 1 \in Addresses(bytecode)
      /\ current_threads[thread_i + 1] <= current_threads[j] - 1
  BY <1>3, <1>4, SMTT(20) DEF Addresses
<1>7. ~(current_threads[j] - 1 < ip)
  BY <1>1, <1>5, <1>6 DEF Between
<1> QED
  BY <1>2, <1>3, <1>7 DEF Addresses

(* A matcher that does not exist has no threads. *)
LEMMA LinearInit == Init => LinearInv
<1> SUFFICES ASSUME Init PROVE LinearInv
  OBVIOUS
<1>1. Len(current_threads) = 0
  BY EmptyList DEF Init
<1> QED
  BY <1>1, EmptyOrdered DEF Init, LinearInv

(* Each step of a session keeps the threads of a linear pattern ordered. *)
LEMMA LinearStep == TypeOK /\ TypeOK' /\ LinearInv /\ [SessionNext]_vars => LinearInv'
<1> SUFFICES ASSUME TypeOK, TypeOK', LinearInv, [SessionNext]_vars, ShortLinear'
             PROVE  LinearInv'
  BY DEF LinearInv
<1> USE MatcherAssumption
<1> DEFINE Ordered(threads) == Decreasing(threads) /\ Waited(threads) /\ Room(threads)
<1>a. ASSUME current_threads' = <<>>, next_threads' = <<>>, ~lost', at' \in {"none", "idle"}
      PROVE  LinearInv'
  <2>1. Len(current_threads') = 0
    BY <1>a, EmptyList
  <2>2. /\ Decreasing(current_threads)' /\ Waited(current_threads)' /\ Room(current_threads)'
        /\ Decreasing(next_threads)' /\ Waited(next_threads)' /\ Room(next_threads)'
    BY <1>a, <2>1, EmptyList DEF Decreasing, Waited, Room
  <2> QED
    BY <1>a, <2>1, <2>2 DEF LinearInv
<1>b. ASSUME bytecode' = bytecode
      PROVE  /\ ShortLinear /\ ~lost
             /\ Ordered(current_threads) /\ Ordered(next_threads)
             /\ at \in {"none", "idle"} /\ InSession =>
                  /\ next_threads = <<>>
                  /\ \A i \in 1 .. Len(current_threads) : current_threads[i] > 0
             /\ at \in {"for", "while"} => Behind
             /\ at = "while" => Between
  BY <1>b DEF LinearInv, ShortLinear
<1>c. ASSUME bytecode' = bytecode, current_threads' = current_threads
      PROVE  Ordered(current_threads)'
  BY <1>c, <1>b DEF Decreasing, Waited, Room
<1>d. ASSUME bytecode' = bytecode, next_threads' = next_threads
      PROVE  Ordered(next_threads)'
  BY <1>d, <1>b DEF Decreasing, Waited, Room
<1>e. Len(bytecode) \in Nat /\ current_threads \in Seq(Nat) /\ next_threads \in Seq(Nat)
  <2>1. Addresses(bytecode) \subseteq Nat
    BY DEF Addresses
  <2>2. bytecode = <<>> \/ bytecode \in Seq(Instruction)
    BY DEF TypeOK, WellFormed
  <2> QED
    BY <2>1, <2>2, EmptyList DEF TypeOK
<1>1. ASSUME NEW code \in Programs, Create(code)
      PROVE  LinearInv'
  <2>1. current_threads' = <<>> /\ next_threads' = <<>> /\ ~lost' /\ at' = "idle"
    BY <1>1 DEF Create
  <2> QED
    BY <2>1, <1>a
<1>2. CASE Destroy
  <2>1. current_threads' = <<>> /\ next_threads' = <<>> /\ ~lost' /\ at' = "none"
    BY <1>2 DEF Destroy
  <2> QED
    BY <2>1, <1>a
<1>3. CASE Reset
  <2>1. current_threads' = <<>> /\ next_threads' = <<>> /\ ~lost' /\ at' = "idle"
    BY <1>3 DEF Reset
  <2> QED
    BY <2>1, <1>a
<1>4. ASSUME NEW event \in Events, Accept(event), InSession
      PROVE  LinearInv'
  <2>1. bytecode' = bytecode /\ next_threads' = next_threads /\ next_threads = <<>>
    BY <1>4, <1>b DEF Accept
  <2> DEFINE n == Len(current_threads)
  <2>2. n \in Nat /\ n <= Len(bytecode)
    <3>1. CASE n = 0
      BY <3>1, <1>e
    <3>2. CASE n # 0
      <4>1. n \in 1 .. n /\ n \in Nat /\ current_threads[n] \in Nat
        BY <3>2, <1>e
      <4>2. current_threads[n] > 0 /\ current_threads[n] + n <= Len(bytecode) + 1
        BY <4>1, <2>1, <1>b, <1>4 DEF Room, Accept
      <4> QED
        BY <4>1, <4>2, <1>e
    <3> QED
      BY <3>1, <3>2
  <2>3. ~LastSlot(current_threads)
    BY <2>1, <2>2, <1>b, <1>e DEF LastSlot, ShortLinear
  <2>4. /\ Len(current_threads') = n + 1 /\ current_threads'[n + 1] = 0
        /\ \A i \in 1 .. n : current_threads'[i] = current_threads[i] /\ current_threads[i] > 0
    BY <1>4, <1>b, <1>e, <2>1, <2>3, AddThreadEnd DEF Accept
  <2>5. Decreasing(current_threads)'
    <3> SUFFICES ASSUME NEW i \in 1 .. n + 1, NEW j \in 1 .. n + 1, i < j
                 PROVE  current_threads'[i] > current_threads'[j]
      BY <2>4 DEF Decreasing
    <3>1. i \in 1 .. n /\ (j = n + 1 \/ j \in 1 .. n)
      BY <2>2
    <3> QED
      BY <3>1, <2>4, <2>1, <1>b DEF Decreasing
  <2>6. Waited(current_threads)'
    <3> SUFFICES ASSUME NEW i \in 1 .. n + 1, current_threads'[i] > 0
                 PROVE  At(bytecode, current_threads'[i] - 1).op = "NEXT"
      BY <2>4, <2>1 DEF Waited
    <3>1. i \in 1 .. n
      BY <2>2, <2>4
    <3>2. current_threads'[i] = current_threads[i] /\ current_threads[i] > 0
      BY <3>1, <2>4
    <3>3. Waited(current_threads)
      BY <2>1, <1>b
    <3> QED
      BY <3>1, <3>2, <3>3 DEF Waited
  <2>7. Room(current_threads)'
    <3> SUFFICES ASSUME NEW i \in 1 .. n + 1
                 PROVE  current_threads'[i] + i <= Len(bytecode) + 1
      BY <2>4, <2>1 DEF Room
    <3>1. i = n + 1 \/ i \in 1 .. n
      BY <2>2
    <3> QED
      BY <3>1, <2>2, <2>4, <2>1, <1>b, <1>e DEF Room
  <2>8. ~lost' /\ Behind' /\ at' = "for"
    <3>1. Len(next_threads') = 0
      BY <2>1, EmptyList
    <3>2. Behind'
      BY <3>1 DEF Behind
    <3>3. ~lost' /\ at' = "for"
      BY <1>4, <2>1, <2>3, <1>b DEF Accept
    <3> QED
      BY <3>2, <3>3
  <2> QED
    BY <2>1, <2>5, <2>6, <2>7, <2>8, <1>d DEF LinearInv
<1>5. CASE TakeThread
  <2>1. bytecode' = bytecode /\ current_threads' = current_threads /\ next_threads' = next_threads
    BY <1>5 DEF TakeThread
  <2>2. Behind'
    BY <1>5, <2>1, <1>b DEF TakeThread, Behind
  <2>3. Between'
    <3>1. thread_i + 1 \in 1 .. Len(current_threads)
      BY <1>5, <1>e DEF TakeThread, TypeOK
    <3>2. current_threads[thread_i + 1] \in Nat
      BY <3>1, <1>e
    <3> QED
      BY <1>5, <2>1, <3>2 DEF TakeThread, Between, Addresses
  <2> QED
    BY <1>5, <2>1, <2>2, <2>3, <1>b, <1>c, <1>d DEF TakeThread, LinearInv
<1>6. CASE Exhausted
  <2>1. bytecode' = bytecode /\ current_threads' = next_threads /\ next_threads' = <<>> /\ lost' = lost
    BY <1>6 DEF Exhausted
  <2>2. \A k \in 1 .. Len(next_threads) : next_threads[k] > 0
    <3> TAKE k \in 1 .. Len(next_threads)
    <3>1. PICK j \in 1 .. Len(current_threads) : current_threads[j] < next_threads[k]
      BY <1>6, <2>1, <1>b DEF Exhausted, Behind
    <3>2. current_threads[j] \in Nat /\ next_threads[k] \in Nat
      BY <1>e
    <3> QED
      BY <3>1, <3>2
  <2>3. Decreasing(current_threads)' /\ Waited(current_threads)' /\ Room(current_threads)'
    BY <2>1, <1>b DEF Decreasing, Waited, Room
  <2>4. Decreasing(next_threads)' /\ Waited(next_threads)' /\ Room(next_threads)'
    BY <2>1, EmptyList DEF Decreasing, Waited, Room
  <2> QED
    BY <1>6, <2>1, <2>2, <2>3, <2>4, <1>b DEF Exhausted, Return, LinearInv
<1>7. CASE OpTest
  <2>1. /\ bytecode' = bytecode /\ current_threads' = current_threads
        /\ next_threads' = next_threads /\ lost' = lost
        /\ at = "while" /\ At(bytecode, ip).op # "NEXT"
        /\ at' \in {"for", "while"} /\ thread_i' >= thread_i
        /\ at' = "while" => thread_i' = thread_i /\ ip' = ip + 1
    BY <1>7 DEF OpTest, Executing, ThreadGoesOn, ThreadDone, TypeOK
  <2>2. Behind'
    BY <2>1, <1>b DEF Behind, TypeOK
  <2>3. at' = "while" => Between'
    <3> SUFFICES ASSUME at' = "while" PROVE Between'
      OBVIOUS
    <3>1. thread_i + 1 \in 1 .. Len(current_threads) /\ Between /\ ip \in Nat
      BY <2>1, <1>b, <1>e DEF Between, TypeOK, Addresses
    <3>2. current_threads[thread_i + 1] \in Nat
      BY <3>1, <1>e
    <3>3. \A p \in Addresses(bytecode) : p < ip + 1 => p < ip \/ p = ip
      BY <3>1 DEF Addresses
    <3> QED
      BY <2>1, <3>1, <3>2, <3>3 DEF Between
  <2> QED
    BY <2>1, <2>2, <2>3, <1>b, <1>c, <1>d DEF LinearInv
<1>8. CASE OpNext
  <2> DEFINE n == Len(next_threads)
  <2>1. /\ bytecode' = bytecode /\ current_threads' = current_threads
        /\ next_threads' = AddThread(next_threads, ip + 1)
        /\ at = "while" /\ At(bytecode, ip).op = "NEXT" /\ at' = "for" /\ thread_i' = thread_i + 1
        /\ lost' = (lost \/ LastSlot(next_threads))
    BY <1>8 DEF OpNext, Executing, ThreadDone
  <2>2. n \in Nat /\ ip \in Nat /\ ip + 1 <= Len(bytecode)
    <3>1. bytecode \in Programs
      BY <2>1 DEF TypeOK
    <3> QED
      BY <2>1, <3>1, <1>e, AtInside DEF TypeOK, Addresses
  <2>3. \A k \in 1 .. n : ip + 1 < next_threads[k] /\ next_threads[k] \in Nat
    BY <2>1, <1>b, <1>e, WaitsLast
  <2>4. ip + 1 + n + 1 <= Len(bytecode) + 1
    <3>1. CASE n = 0
      BY <3>1, <2>2, <1>e
    <3>2. CASE n # 0
      <4>1. n \in 1 .. n
        BY <3>2, <2>2
      <4>2. ip + 1 < next_threads[n] /\ next_threads[n] \in Nat /\ next_threads[n] + n <= Len(bytecode) + 1
        BY <4>1, <2>3, <2>1, <1>b DEF Room
      <4> QED
        BY <4>2, <2>2, <1>e
    <3> QED
      BY <3>1, <3>2
  <2>5. ~LastSlot(next_threads)
    BY <2>1, <2>2, <2>4, <1>b, <1>e DEF LastSlot, ShortLinear
  <2>6. /\ Len(next_threads') = n + 1 /\ next_threads'[n + 1] = ip + 1
        /\ \A i \in 1 .. n : next_threads'[i] = next_threads[i]
    BY <2>1, <2>2, <2>5, <1>e, AddThreadEnd, SMTT(20)
  <2>7. Decreasing(next_threads)'
    <3> SUFFICES ASSUME NEW i \in 1 .. n + 1, NEW j \in 1 .. n + 1, i < j
                 PROVE  next_threads'[i] > next_threads'[j]
      BY <2>6 DEF Decreasing
    <3>1. i \in 1 .. n /\ (j = n + 1 \/ j \in 1 .. n)
      BY <2>2
    <3>2. CASE j = n + 1
      BY <3>1, <3>2, <2>2, <2>3, <2>6
    <3>3. CASE j \in 1 .. n
      BY <3>1, <3>3, <2>6, <2>1, <1>b DEF Decreasing
    <3> QED
      BY <3>1, <3>2, <3>3
  <2>8. Waited(next_threads)'
    <3> SUFFICES ASSUME NEW i \in 1 .. n + 1, next_threads'[i] > 0
                 PROVE  At(bytecode, next_threads'[i] - 1).op = "NEXT"
      BY <2>6, <2>1 DEF Waited
    <3>1. CASE i = n + 1
      <4>1. next_threads'[i] - 1 = ip
        BY <3>1, <2>2, <2>6
      <4> QED
        BY <4>1, <2>1
    <3>2. CASE i \in 1 .. n
      BY <3>2, <2>6, <2>1, <1>b DEF Waited
    <3> QED
      BY <3>1, <3>2, <2>2
  <2>9. Room(next_threads)'
    <3> SUFFICES ASSUME NEW i \in 1 .. n + 1
                 PROVE  next_threads'[i] + i <= Len(bytecode) + 1
      BY <2>6, <2>1 DEF Room
    <3>1. CASE i = n + 1
      BY <3>1, <2>2, <2>4, <2>6
    <3>2. CASE i \in 1 .. n
      BY <3>2, <2>6, <2>1, <1>b DEF Room
    <3> QED
      BY <3>1, <3>2, <2>2
  <2>10. Behind'
    <3>1. /\ thread_i \in Nat /\ thread_i + 1 \in 1 .. Len(current_threads)
          /\ current_threads[thread_i + 1] < ip + 1
      <4>1. thread_i + 1 \in 1 .. Len(current_threads) /\ thread_i \in Nat
        BY <2>1, <1>b, <1>e DEF Between, TypeOK
      <4>2. current_threads[thread_i + 1] \in Nat /\ current_threads[thread_i + 1] <= ip
        BY <4>1, <2>1, <1>b, <1>e DEF Between
      <4> QED
        BY <4>1, <4>2, <2>2
    <3> SUFFICES ASSUME NEW k \in 1 .. n + 1
                 PROVE  \E j \in 1 .. Len(current_threads) :
                          j <= thread_i + 1 /\ current_threads[j] < next_threads'[k]
      BY <2>1, <2>6 DEF Behind
    <3>2. CASE k = n + 1
      BY <3>1, <3>2, <2>6
    <3>3. CASE k \in 1 .. n
      <4>1. PICK j \in 1 .. Len(current_threads) :
                   j <= thread_i /\ current_threads[j] < next_threads[k]
        BY <3>3, <2>1, <1>b DEF Behind
      <4>2. j <= thread_i + 1
        BY <4>1, <3>1
      <4> QED
        BY <4>1, <4>2, <3>3, <2>6
    <3> QED
      BY <3>2, <3>3, <2>2
  <2> QED
    BY <2>1, <2>5, <2>7, <2>8, <2>9, <2>10, <1>b, <1>c DEF LinearInv
<1>9. ASSUME OpJump \/ OpSplit
      PROVE  FALSE
  <2>1. at = "while" /\ bytecode' = bytecode /\ At(bytecode, ip).op \in {"JUMP", "SPLIT"}
    BY <1>9 DEF OpJump, OpSplit, Executing
  <2>2. Linear(bytecode) /\ bytecode \in Programs
    BY <2>1, <1>b DEF ShortLinear, TypeOK
  <2> QED
    BY <2>1, <2>2, LinearAt
<1>10. CASE OpMatch \/ OpAbort
  <2>1. /\ bytecode' = bytecode /\ current_threads' = current_threads
        /\ next_threads' = next_threads /\ lost' = lost
        /\ at' = "idle" /\ ~InSession'
    BY <1>10 DEF OpMatch, OpAbort, Executing, Return, InSession
  <2> QED
    BY <2>1, <1>b, <1>c, <1>d DEF LinearInv
<1>11. CASE UNCHANGED vars
  BY <1>11 DEF vars, LinearInv, ShortLinear, Decreasing, Waited, Room, InSession, Behind, Between
<1> QED
  BY <1>1, <1>2, <1>3, <1>4, <1>5, <1>6, <1>7, <1>8, <1>9, <1>10, <1>11
  DEF SessionNext, Manage, Run

(* Both invariants hold as long as the client keeps sessions. *)
LEMMA SessionInvariant == SessionSpec => [](TypeOK /\ LinearInv)
<1>1. Init => TypeOK /\ LinearInv
  BY TypeInit, LinearInit
<1>2. (TypeOK /\ LinearInv) /\ [SessionNext]_vars => (TypeOK /\ LinearInv)'
  BY SessionIsClient, TypeStep, LinearStep
<1> QED
  BY <1>1, <1>2, PTL DEF SessionSpec

(* A linear pattern shorter than the thread lists never loses a thread. *)
THEOREM LinearSafe == SessionSpec => []LinearNeverLoses
<1>1. LinearInv => LinearNeverLoses
  BY DEF LinearInv, LinearNeverLoses
<1> QED
  BY <1>1, SessionInvariant, PTL

(* The threads of such a pattern are always ordered oldest first. *)
THEOREM LinearOrdered == SessionSpec => []OldestFirst
<1>1. LinearInv => OldestFirst
  BY DEF LinearInv, OldestFirst
<1> QED
  BY <1>1, SessionInvariant, PTL

-----------------------------------------------------------------------------
(***************************************************************************)
(* Refinement.  While matcher_accept runs, every address it has reached is  *)
(* either still to be executed (Pending) or has been executed with all its  *)
(* consequences recorded (Served), unless a list was forgotten.             *)
(***************************************************************************)
RestOf(threads, i) == {threads[j] : j \in {k \in 1 .. Len(threads) : k > i}}

Pending == IF at = "while" THEN {ip} \cup RestOf(current_threads, thread_i + 1)
                           ELSE RestOf(current_threads, thread_i)

Served(p) ==
  /\ Successors(bytecode, p, next_event) \subseteq reached
  /\ At(bytecode, p).op = "NEXT" => p + 1 \in Standing(next_threads)
  /\ At(bytecode, p).op \notin {"MATCH", "ABORT"}

Explored ==
  /\ at = "while" => thread_i < Len(current_threads)
  /\ \A p \in reached : p \in Pending \/ Served(p)

ExplorationInv ==
  /\ at \in {"none", "idle"} /\ InSession => next_threads = <<>>
  /\ at \in {"for", "while"} =>
       /\ Standing(current_threads) \subseteq reached
       /\ at = "while" => ip \in reached
       /\ Standing(next_threads) \subseteq Promise!Resumed
       /\ ~lost => Explored

(* EventMatcher speaks of the same bytecode. *)
LEMMA SameCode ==
  \A code, p, e : /\ Promise!At(code, p) = At(code, p)
                  /\ Promise!Successors(code, p, e) = Successors(code, p, e)
<1>1. \A code, p : Promise!At(code, p) = At(code, p)
  BY DEF Promise!At, At, Promise!Abort, Abort
<1>2. \A i, e : Promise!Passes(i, e) <=> Passes(i, e)
  BY DEF Promise!Passes, Passes, Promise!EventName, EventName, Promise!EventScreen, EventScreen
<1>3. \A code, p, e : Promise!Successors(code, p, e) = Successors(code, p, e)
  BY <1>1, <1>2 DEF Promise!Successors, Successors
<1> QED
  BY <1>1, <1>3

(* A thread that is added is still to be taken, and so are those before it. *)
LEMMA RestAdd ==
  ASSUME NEW S, NEW threads \in Seq(S), NEW address \in S, ~LastSlot(threads),
         NEW i \in Nat, i <= Len(threads)
  PROVE  /\ RestOf(threads, i) \subseteq RestOf(AddThread(threads, address), i)
         /\ address \in RestOf(AddThread(threads, address), i)
<1> DEFINE more == AddThread(threads, address)
           n == Len(threads)
<1>1. n \in Nat /\ Len(more) = n + 1 /\ more[n + 1] = address
      /\ \A j \in 1 .. n : more[j] = threads[j]
  BY AddThreadEnd
<1>2. n + 1 \in {k \in 1 .. Len(more) : k > i}
      /\ \A j \in {k \in 1 .. n : k > i} : j \in {k \in 1 .. Len(more) : k > i}
  BY <1>1
<1> HIDE DEF more
<1>3. address \in RestOf(more, i)
  BY <1>1, <1>2 DEF RestOf
<1>4. ASSUME NEW j \in {k \in 1 .. n : k > i}
      PROVE  threads[j] \in RestOf(more, i)
  BY <1>1, <1>2 DEF RestOf
<1> QED
  BY <1>3, <1>4 DEF RestOf, more

(* What was served stays served. *)
LEMMA ServedStays ==
  ASSUME bytecode' = bytecode, next_event' = next_event, reached \subseteq reached',
         Standing(next_threads) \subseteq Standing(next_threads'),
         NEW p, Served(p)
  PROVE  Served(p)'
  BY DEF Served

(* Addresses that resume stay so while reached grows. *)
LEMMA ResumedGrows ==
  ASSUME bytecode' = bytecode, reached \subseteq reached'
  PROVE  Promise!Resumed \subseteq Promise!Resumed'
  BY DEF Promise!Resumed

(* The list from its beginning. *)
LEMMA RestOfAll ==
  ASSUME NEW S, NEW threads \in Seq(S)
  PROVE  RestOf(threads, 0) = Standing(threads)
<1>1. {k \in 1 .. Len(threads) : k > 0} = 1 .. Len(threads)
  OBVIOUS
<1> QED
  BY <1>1 DEF RestOf, Standing

(* The thread at i + 1 comes before those that are left. *)
LEMMA RestTake ==
  ASSUME NEW S, NEW threads \in Seq(S), NEW i \in Nat, i < Len(threads)
  PROVE  RestOf(threads, i) \subseteq {threads[i + 1]} \cup RestOf(threads, i + 1)
<1> SUFFICES ASSUME NEW j \in 1 .. Len(threads), j > i, j # i + 1
             PROVE  threads[j] \in RestOf(threads, i + 1)
  BY DEF RestOf
<1>1. j \in {k \in 1 .. Len(threads) : k > i + 1}
  OBVIOUS
<1> QED
  BY <1>1 DEF RestOf

(* Nothing is left behind the end of the list. *)
LEMMA RestNone ==
  ASSUME NEW S, NEW threads \in Seq(S), NEW i \in Nat, i >= Len(threads)
  PROVE  RestOf(threads, i) = {}
<1>1. {k \in 1 .. Len(threads) : k > i} = {}
  OBVIOUS
<1> QED
  BY <1>1 DEF RestOf

(* Nothing is reached before the first event. *)
LEMMA ExplorationInit == Init => ExplorationInv
  BY DEF Init, ExplorationInv

(* Each step keeps count of what was explored and what is still to be. *)
LEMMA ExplorationStep ==
  TypeOK /\ TypeOK' /\ ExplorationInv /\ [SessionNext]_vars => ExplorationInv'
<1> SUFFICES ASSUME TypeOK, TypeOK', ExplorationInv, [SessionNext]_vars
             PROVE  ExplorationInv'
  OBVIOUS
<1> USE MatcherAssumption
<1> DEFINE T == Addresses(bytecode)
<1>a. /\ current_threads \in Seq(T) /\ next_threads \in Seq(T) /\ thread_i \in Nat
      /\ ip \in T /\ T \subseteq Nat /\ lost \in BOOLEAN
  BY DEF TypeOK, Addresses
<1>b. ASSUME at' \in {"none", "idle"}, InSession' => next_threads' = <<>>
      PROVE  ExplorationInv'
  BY <1>b DEF ExplorationInv
<1>1. ASSUME NEW code \in Programs, Create(code)
      PROVE  ExplorationInv'
  <2>1. at' = "idle" /\ next_threads' = <<>>
    BY <1>1 DEF Create
  <2> QED
    BY <2>1, <1>b
<1>2. CASE Destroy
  <2>1. at' = "none" /\ next_threads' = <<>>
    BY <1>2 DEF Destroy
  <2> QED
    BY <2>1, <1>b
<1>3. CASE Reset
  <2>1. at' = "idle" /\ next_threads' = <<>>
    BY <1>3 DEF Reset, TypeOK
  <2> QED
    BY <2>1, <1>b
<1>4. CASE Exhausted \/ OpMatch \/ OpAbort
  <2>1. at' = "idle" /\ (next_threads' = <<>> \/ ~InSession')
    BY <1>4 DEF Exhausted, OpMatch, OpAbort, Executing, Return, InSession
  <2> QED
    BY <2>1, <1>b
<1>5. ASSUME NEW event \in Events, Accept(event), InSession
      PROVE  ExplorationInv'
  <2>1. /\ at' = "for" /\ thread_i' = 0 /\ next_threads' = next_threads /\ next_threads = <<>>
        /\ current_threads' = AddThread(current_threads, 0)
        /\ reached' = Standing(current_threads) \cup {0}
        /\ lost' = (lost \/ LastSlot(current_threads))
    BY <1>5 DEF Accept, ExplorationInv
  <2>2. 0 \in T
    BY <1>5 DEF TypeOK, Accept
  <2>3. Standing(current_threads') \subseteq reached'
    BY <2>1, <2>2, <1>a, AddThreadStanding
  <2>4. Standing(next_threads') = {}
    <3>1. Len(next_threads') = 0
      BY <2>1, EmptyList
    <3> QED
      BY <3>1 DEF Standing
  <2>5. ~lost' => Explored'
    <3> SUFFICES ASSUME ~lost' PROVE Explored'
      OBVIOUS
    <3>1. Standing(current_threads') = reached'
      <4>1. ~LastSlot(current_threads)
        BY <2>1
      <4>2. Standing(AddThread(current_threads, 0)) = Standing(current_threads) \cup {0}
        BY <4>1, <2>2, <1>a, AddThreadStanding
      <4> QED
        BY <2>1, <4>2
    <3>2. RestOf(current_threads', 0) = Standing(current_threads')
      BY RestOfAll DEF TypeOK
    <3> QED
      BY <3>1, <3>2, <2>1 DEF Explored, Pending
  <2> QED
    BY <2>1, <2>3, <2>4, <2>5 DEF ExplorationInv
<1>6. CASE TakeThread
  <2>1. /\ at = "for" /\ at' = "while" /\ thread_i < Len(current_threads)
        /\ ip' = current_threads[thread_i + 1] /\ thread_i' = thread_i
        /\ UNCHANGED <<bytecode, current_threads, next_threads, next_event, reached, lost>>
    BY <1>6 DEF TakeThread
  <2>2. ip' \in Standing(current_threads)
    <3>1. thread_i + 1 \in 1 .. Len(current_threads)
      BY <2>1, <1>a
    <3> QED
      BY <2>1, <3>1 DEF Standing
  <2>3. Promise!Resumed' = Promise!Resumed
    BY <2>1 DEF Promise!Resumed
  <2>4. ~lost' => Explored'
    <3> SUFFICES ASSUME ~lost, NEW p \in reached
                 PROVE  p \in Pending' \/ Served(p)'
      BY <2>1 DEF Explored
    <3>1. p \in RestOf(current_threads, thread_i) \/ Served(p)
      BY <2>1 DEF ExplorationInv, Explored, Pending
    <3>2. CASE Served(p)
      BY <3>2, <2>1, ServedStays
    <3>3. CASE p \in RestOf(current_threads, thread_i)
      BY <3>3, <2>1, <1>a, RestTake DEF Pending
    <3> QED
      BY <3>1, <3>2, <3>3
  <2> QED
    BY <2>1, <2>2, <2>3, <2>4 DEF ExplorationInv
<1>7. ASSUME at = "while", bytecode' = bytecode, next_event' = next_event, Stand,
             at' \in {"for", "while"}, at' = "while" => ip' = ip + 1,
             at' = "while" => ip + 1 \in Successors(bytecode, ip, next_event),
             Standing(current_threads') \subseteq
               Standing(current_threads) \cup Successors(bytecode, ip, next_event),
             Standing(next_threads') \subseteq Promise!Resumed',
             ~lost' => /\ ~lost
                       /\ Explored => Explored'
      PROVE  ExplorationInv'
  <2>1. reached \subseteq reached' /\ Successors(bytecode, ip, next_event) \subseteq reached'
    BY <1>7 DEF Stand
  <2>2. Standing(current_threads) \subseteq reached /\ (~lost => Explored)
    BY <1>7 DEF ExplorationInv
  <2> QED
    BY <1>7, <2>1, <2>2 DEF ExplorationInv
<1>8. ASSUME at = "while", bytecode' = bytecode, next_event' = next_event, Stand,
             Explored, Standing(next_threads) \subseteq Standing(next_threads'),
             RestOf(current_threads, thread_i + 1) \cup Successors(bytecode, ip, next_event)
               \subseteq Pending',
             At(bytecode, ip).op = "NEXT" => ip + 1 \in Standing(next_threads'),
             At(bytecode, ip).op \notin {"MATCH", "ABORT"},
             at' = "while" => thread_i' < Len(current_threads')
      PROVE  Explored'
  <2>1. reached' = reached \cup Successors(bytecode, ip, next_event)
    BY <1>8 DEF Stand
  <2>2. ASSUME NEW p, p = ip PROVE Served(p)'
    BY <1>8, <2>1, <2>2 DEF Served
  <2>3. ASSUME NEW p \in reached
        PROVE  p \in Pending' \/ Served(p)'
    <3>1. p = ip \/ p \in RestOf(current_threads, thread_i + 1) \/ Served(p)
      BY <1>8 DEF Explored, Pending
    <3>2. CASE Served(p)
      BY <3>2, <1>8, <2>1, ServedStays
    <3>3. CASE p = ip
      BY <3>3, <2>2
    <3> QED
      BY <3>1, <3>2, <3>3, <1>8
  <2> QED
    BY <1>8, <2>1, <2>3 DEF Explored
<1>9. ASSUME at = "while", bytecode' = bytecode, Stand, next_threads' = next_threads
      PROVE  Standing(next_threads') \subseteq Promise!Resumed'
  BY <1>9, ResumedGrows DEF Stand, ExplorationInv
<1>10. CASE OpTest
  <2>1. /\ at = "while" /\ At(bytecode, ip).op \in {"NAME", "SCREEN"} /\ Stand
        /\ UNCHANGED <<bytecode, current_threads, next_threads, next_event, lost>>
        /\ at' \in {"for", "while"} /\ (at' = "while" => thread_i' = thread_i /\ ip' = ip + 1)
        /\ at' = "for" => thread_i' = thread_i + 1
        /\ Successors(bytecode, ip, next_event) = IF at' = "while" THEN {ip + 1} ELSE {}
    <3>1. Successors(bytecode, ip, next_event) =
            {q \in {ip + 1} : Passes(At(bytecode, ip), next_event)}
      BY <1>10 DEF OpTest, Executing, Successors
    <3> QED
      BY <1>10, <3>1 DEF OpTest, Executing, ThreadGoesOn, ThreadDone
  <2>2. RestOf(current_threads, thread_i + 1) \cup Successors(bytecode, ip, next_event)
          \subseteq Pending'
    BY <2>1 DEF Pending
  <2>3. Standing(current_threads') = Standing(current_threads)
        /\ Standing(next_threads') = Standing(next_threads)
    BY <2>1
  <2>4. Explored => Explored'
    <3> SUFFICES ASSUME Explored PROVE Explored'
      OBVIOUS
    <3>1. at' = "while" => thread_i' < Len(current_threads')
      BY <2>1 DEF Explored
    <3> QED
      BY <2>1, <2>2, <2>3, <3>1, <1>8
  <2>5. Standing(next_threads') \subseteq Promise!Resumed'
    BY <2>1, <1>9
  <2> QED
    BY <2>1, <2>3, <2>4, <2>5, <1>7
<1>11. CASE OpNext
  <2>1. /\ at = "while" /\ At(bytecode, ip).op = "NEXT" /\ Stand
        /\ UNCHANGED <<bytecode, current_threads, next_event>>
        /\ next_threads' = AddThread(next_threads, ip + 1)
        /\ at' = "for" /\ thread_i' = thread_i + 1
        /\ lost' = (lost \/ LastSlot(next_threads))
        /\ Successors(bytecode, ip, next_event) = {}
    BY <1>11 DEF OpNext, Executing, ThreadDone, Successors
  <2>2. ip + 1 \in T
    <3>1. bytecode \in Programs
      BY <2>1 DEF TypeOK
    <3> QED
      BY <2>1, <3>1, <1>a, AtInside
  <2>3. /\ Standing(next_threads') \subseteq Standing(next_threads) \cup {ip + 1}
        /\ ~LastSlot(next_threads) =>
             Standing(next_threads') = Standing(next_threads) \cup {ip + 1}
    BY <2>1, <2>2, <1>a, AddThreadStanding
  <2>4. Standing(next_threads') \subseteq Promise!Resumed'
    <3>1. Promise!Resumed \subseteq Promise!Resumed'
      BY <2>1, ResumedGrows DEF Stand
    <3>2. ip \in reached'
      BY <2>1 DEF Stand, ExplorationInv
    <3>3. ip \in {q \in reached : At(bytecode, q).op = "NEXT"}'
      <4> DEFINE here == ip
      <4>1. here \in reached' /\ At(bytecode', here).op = "NEXT"
        BY <3>2, <2>1
      <4> QED
        BY <4>1
    <3>4. ip + 1 \in Promise!Resumed'
      BY <3>3, SameCode DEF Promise!Resumed
    <3> QED
      BY <3>1, <3>4, <2>1, <2>3 DEF ExplorationInv
  <2>5. ASSUME ~lost', Explored
        PROVE  Explored'
    <3>1. Standing(next_threads') = Standing(next_threads) \cup {ip + 1}
      BY <2>1, <2>3, <2>5
    <3>2. RestOf(current_threads, thread_i + 1) \subseteq Pending'
      BY <2>1 DEF Pending
    <3> QED
      BY <2>1, <2>5, <3>1, <3>2, <1>8
  <2> QED
    BY <2>1, <2>4, <2>5, <1>7
<1>12. CASE OpJump
  <2> DEFINE a == At(bytecode, ip).a
  <2>1. /\ at = "while" /\ At(bytecode, ip).op = "JUMP" /\ Stand
        /\ UNCHANGED <<bytecode, next_threads, next_event, at, thread_i>>
        /\ current_threads' = AddThread(current_threads, a)
        /\ ip' = ip + 1
        /\ lost' = (lost \/ LastSlot(current_threads))
        /\ Successors(bytecode, ip, next_event) = {ip + 1, a}
    BY <1>12 DEF OpJump, Executing, ThreadGoesOn, Successors
  <2>2. a \in T
    <3>1. bytecode \in Programs
      BY <2>1 DEF TypeOK
    <3> QED
      BY <2>1, <3>1, <1>a, AtInside
  <2>3. Standing(current_threads') \subseteq Standing(current_threads) \cup {a}
    BY <2>1, <2>2, <1>a, AddThreadStanding
  <2>4. ASSUME ~lost', Explored
        PROVE  Explored'
    <3>0. thread_i < Len(current_threads)
      BY <2>1, <2>4 DEF Explored
    <3>a. thread_i + 1 \in Nat /\ thread_i + 1 <= Len(current_threads)
      BY <3>0, <1>a
    <3>b. ~LastSlot(current_threads)
      BY <2>1, <2>4
    <3>1. thread_i + 1 \in Nat /\ thread_i + 1 <= Len(current_threads)
          /\ ~LastSlot(current_threads)
      BY <3>a, <3>b
    <3>2. /\ RestOf(current_threads, thread_i + 1) \subseteq RestOf(current_threads', thread_i + 1)
          /\ a \in RestOf(current_threads', thread_i + 1)
      BY <2>1, <2>2, <3>1, <1>a, RestAdd
    <3>3. RestOf(current_threads, thread_i + 1) \cup {ip + 1, a} \subseteq Pending'
      BY <2>1, <3>2 DEF Pending
    <3>4. thread_i' < Len(current_threads')
      BY <2>1, <2>2, <3>1, <1>a, AddThreadEnd
    <3> QED
      BY <2>1, <2>4, <3>3, <3>4, <1>8
  <2>5. Standing(next_threads') \subseteq Promise!Resumed'
    BY <2>1, <1>9
  <2> QED
    BY <2>1, <2>3, <2>4, <2>5, <1>7
<1>13. CASE OpSplit
  <2> DEFINE a == At(bytecode, ip).a
             b == At(bytecode, ip).b
             left == AddThread(current_threads, a)
  <2>1. /\ at = "while" /\ At(bytecode, ip).op = "SPLIT" /\ Stand
        /\ UNCHANGED <<bytecode, next_threads, next_event, at, thread_i>>
        /\ current_threads' = AddThread(left, b)
        /\ ip' = ip + 1
        /\ lost' = (lost \/ LastSlot(current_threads) \/ LastSlot(left))
        /\ Successors(bytecode, ip, next_event) = {ip + 1, a, b}
    BY <1>13 DEF OpSplit, Executing, ThreadGoesOn, Successors
  <2>2. a \in T /\ b \in T
    <3>1. bytecode \in Programs
      BY <2>1 DEF TypeOK
    <3> QED
      BY <2>1, <3>1, <1>a, AtInside
  <2>3. left \in Seq(T)
    BY <2>2, <1>a, AddThreadType DEF TypeOK
  <2>4. Standing(left) \subseteq Standing(current_threads) \cup {a}
    BY <2>2, <1>a, AddThreadStanding
  <2>5. Standing(current_threads') \subseteq Standing(left) \cup {b}
    <3> HIDE DEF left
    <3> QED
      BY <2>1, <2>2, <2>3, AddThreadStanding
  <2>6. ASSUME ~lost', Explored
        PROVE  Explored'
    <3>0. thread_i < Len(current_threads)
      BY <2>1, <2>6 DEF Explored
    <3>a. thread_i + 1 \in Nat /\ thread_i + 1 <= Len(current_threads)
      BY <3>0, <1>a
    <3>b. ~LastSlot(current_threads) /\ ~LastSlot(left)
      BY <2>1, <2>6
    <3>1. thread_i + 1 \in Nat /\ thread_i + 1 <= Len(current_threads)
          /\ ~LastSlot(current_threads) /\ ~LastSlot(left)
      BY <3>a, <3>b
    <3>2. /\ RestOf(current_threads, thread_i + 1) \subseteq RestOf(left, thread_i + 1)
          /\ a \in RestOf(left, thread_i + 1)
      BY <2>2, <3>1, <1>a, RestAdd
    <3>3. Len(left) = Len(current_threads) + 1
      BY <2>2, <3>1, <1>a, AddThreadEnd
    <3>4. /\ RestOf(left, thread_i + 1) \subseteq RestOf(current_threads', thread_i + 1)
          /\ b \in RestOf(current_threads', thread_i + 1)
          /\ Len(current_threads') = Len(left) + 1
      <4> HIDE DEF left
      <4>1. thread_i + 1 <= Len(left) /\ Len(left) \in Nat
        BY <3>1, <3>3, <2>3, <1>a
      <4> QED
        BY <2>1, <2>2, <2>3, <3>1, <4>1, RestAdd, AddThreadEnd
    <3>5. RestOf(current_threads, thread_i + 1) \cup {ip + 1, a, b} \subseteq Pending'
      BY <2>1, <3>2, <3>4 DEF Pending
    <3>6. thread_i' < Len(current_threads')
      BY <2>1, <3>1, <3>3, <3>4, <1>a
    <3> QED
      BY <2>1, <2>6, <3>5, <3>6, <1>8
  <2>7. Standing(next_threads') \subseteq Promise!Resumed'
    BY <2>1, <1>9
  <2> QED
    BY <2>1, <2>4, <2>5, <2>6, <2>7, <1>7
<1>14. CASE UNCHANGED vars
  <2>1. Promise!Resumed' = Promise!Resumed
    BY <1>14 DEF vars, Promise!Resumed
  <2>2. Explored' = Explored
    BY <1>14 DEF vars, Explored, Pending, Served
  <2> QED
    BY <1>14, <2>1, <2>2 DEF vars, ExplorationInv, InSession
<1> QED
  BY <1>1, <1>2, <1>3, <1>4, <1>5, <1>6, <1>10, <1>11, <1>12, <1>13, <1>14
  DEF SessionNext, Manage, Run

(* The initial state is one of EventMatcher. *)
LEMMA PromiseInit == Init => Promise!Init
<1> SUFFICES ASSUME Init PROVE Promise!Init
  OBVIOUS
<1>1. Standing(current_threads) = {}
  BY EmptyList DEF Init, Standing
<1> QED
  BY <1>1 DEF Init, Promise!Init

(* Each step of a session is a step of EventMatcher or changes nothing there. *)
LEMMA PromiseStep ==
  TypeOK /\ TypeOK' /\ ExplorationInv /\ [SessionNext]_vars => [Promise!Next]_(Promise!vars)
<1> SUFFICES ASSUME TypeOK, TypeOK', ExplorationInv, [SessionNext]_vars
             PROVE  Promise!Next \/ UNCHANGED Promise!vars
  OBVIOUS
<1> DEFINE phase == IF at \in {"for", "while"} THEN "busy" ELSE at
           waiting == IF at = "idle" /\ InSession THEN Standing(current_threads) ELSE {}
<1>a. ASSUME current_threads' = <<>> PROVE waiting' = {}
  <2>1. Standing(current_threads)' = {}
    BY <1>a, EmptyList DEF Standing
  <2> QED
    BY <2>1
<1>1. ASSUME NEW code \in Programs, Create(code)
      PROVE  Promise!Create
  <2>1. waiting' = {}
    BY <1>1, <1>a DEF Create
  <2> QED
    BY <1>1, <2>1 DEF Create, Promise!Create, Promise!Restart
<1>2. CASE Destroy
  <2>1. waiting' = {}
    BY <1>2, <1>a DEF Destroy
  <2>2. Promise!Destroy
    BY <1>2, <2>1 DEF Destroy, Promise!Destroy, Promise!Restart
  <2> QED
    BY <2>2 DEF Promise!Next
<1>3. CASE Reset
  <2>1. waiting' = {}
    BY <1>3, <1>a DEF Reset
  <2>2. Promise!Reset
    BY <1>3, <2>1 DEF Reset, Promise!Reset, Promise!Restart
  <2> QED
    BY <2>2 DEF Promise!Next
<1>4. ASSUME NEW event \in Events, Accept(event), InSession
      PROVE  Promise!Begin(event)
  <2>1. lost' \in {lost, TRUE}
    BY <1>4 DEF Accept, TypeOK
  <2> QED
    BY <1>4, <2>1 DEF Accept, InSession, Promise!Begin, Promise!MayLose, Promise!Final
<1>5. CASE TakeThread
  BY <1>5 DEF TakeThread, InSession, Promise!vars
<1>6. CASE Exhausted
  <2>1. /\ at = "for" /\ at' = "idle" /\ result' = "MATCH_NEXT" /\ next_event' = 0 /\ reached' = {}
        /\ bytecode' = bytecode /\ lost' = lost /\ current_threads' = next_threads
        /\ thread_i >= Len(current_threads)
    BY <1>6 DEF Exhausted, Return
  <2>2. waiting' = Standing(next_threads)
    BY <2>1 DEF InSession
  <2>3. waiting' \subseteq Promise!Resumed
    BY <2>1, <2>2 DEF ExplorationInv
  <2>4. ASSUME ~lost
        PROVE  /\ waiting' = Promise!Resumed
               /\ Promise!Closed
               /\ \A p \in reached : At(bytecode, p).op \notin {"MATCH", "ABORT"}
    <3>1. Pending = {}
      BY <2>1, RestNone DEF Pending, TypeOK
    <3>2. \A p \in reached : Served(p)
      BY <2>1, <2>4, <3>1 DEF ExplorationInv, Explored
    <3>3. Promise!Closed
      BY <3>2, SameCode DEF Promise!Closed, Served
    <3>4. Promise!Resumed \subseteq waiting'
      BY <3>2, <2>2, SameCode DEF Promise!Resumed, Served
    <3> QED
      BY <3>2, <3>3, <3>4, <2>3 DEF Served
  <2>5. Promise!Reply("MATCH_NEXT")
    BY <2>1 DEF Promise!Reply
  <2>6. Promise!ReplyNext
    BY <2>3, <2>4, <2>5, SameCode DEF Promise!ReplyNext
  <2> QED
    BY <2>6 DEF Promise!Next
<1>7. ASSUME at = "while", at' \in {"for", "while"}, Stand, lost' \in {lost, TRUE},
             bytecode' = bytecode, next_event' = next_event, result' = result
      PROVE  Promise!Next
  <2>1. ip \in reached
    BY <1>7 DEF ExplorationInv
  <2>2. Promise!Explore(ip)
    BY <1>7, SameCode DEF Stand, Promise!Explore, Promise!MayLose
  <2> QED
    BY <2>1, <2>2 DEF Promise!Next
<1>8. CASE OpTest
  <2>1. /\ at = "while" /\ at' \in {"for", "while"} /\ Stand /\ lost' \in {lost, TRUE}
        /\ bytecode' = bytecode /\ next_event' = next_event /\ result' = result
    BY <1>8 DEF OpTest, Executing, ThreadDone, ThreadGoesOn
  <2> QED
    BY <2>1, <1>7
<1>9. CASE OpNext
  <2>1. /\ at = "while" /\ at' = "for" /\ Stand /\ lost' \in {lost, TRUE}
        /\ bytecode' = bytecode /\ next_event' = next_event /\ result' = result
    BY <1>9 DEF OpNext, Executing, ThreadDone, TypeOK
  <2> QED
    BY <2>1, <1>7
<1>10. CASE OpJump
  <2>1. /\ at = "while" /\ at' = "while" /\ Stand /\ lost' \in {lost, TRUE}
        /\ bytecode' = bytecode /\ next_event' = next_event /\ result' = result
    BY <1>10 DEF OpJump, Executing, ThreadGoesOn, TypeOK
  <2> QED
    BY <2>1, <1>7
<1>11. CASE OpSplit
  <2>1. /\ at = "while" /\ at' = "while" /\ Stand /\ lost' \in {lost, TRUE}
        /\ bytecode' = bytecode /\ next_event' = next_event /\ result' = result
    BY <1>11 DEF OpSplit, Executing, ThreadGoesOn, TypeOK
  <2> QED
    BY <2>1, <1>7
<1>12. CASE OpMatch \/ OpAbort
  <2>1. /\ at = "while" /\ at' = "idle" /\ next_event' = 0 /\ reached' = {}
        /\ bytecode' = bytecode /\ lost' = lost
        /\ \/ At(bytecode, ip).op = "MATCH" /\ result' = "MATCH_OK"
           \/ At(bytecode, ip).op = "ABORT" /\ result' = "MATCH_ERROR"
    BY <1>12 DEF OpMatch, OpAbort, Executing, Return
  <2>2. waiting' = {} /\ ip \in reached
    BY <2>1 DEF InSession, ExplorationInv
  <2>3. Promise!ReplyFinal
    BY <2>1, <2>2, SameCode DEF Promise!ReplyFinal, Promise!Reply
  <2> QED
    BY <2>3 DEF Promise!Next
<1>13. CASE UNCHANGED vars
  BY <1>13 DEF vars, Promise!vars, InSession
<1> QED
  BY <1>1, <1>2, <1>3, <1>4, <1>5, <1>6, <1>8, <1>9, <1>10, <1>11, <1>12, <1>13
  DEF SessionNext, Manage, Run, Promise!Next

(***************************************************************************)
(* For a client that keeps sessions, matcher_accept is EventMatcher: its    *)
(* thread lists implement a set of addresses, exactly until one overflows.  *)
(***************************************************************************)
THEOREM Implementation == SessionSpec => ImplementsEventMatcher
<1>1. Init => TypeOK /\ ExplorationInv
  BY TypeInit, ExplorationInit
<1>2. (TypeOK /\ ExplorationInv) /\ [SessionNext]_vars => (TypeOK /\ ExplorationInv)'
  BY SessionIsClient, TypeStep, ExplorationStep
<1>3. (TypeOK /\ TypeOK' /\ ExplorationInv) /\ [SessionNext]_vars => [Promise!Next]_(Promise!vars)
  BY PromiseStep
<1> QED
  BY <1>1, <1>2, <1>3, PromiseInit, PTL DEF SessionSpec, ImplementsEventMatcher, Promise!Spec

-----------------------------------------------------------------------------
(***************************************************************************)
(* Verdicts of linear patterns.  While matcher_accept runs, a thread has    *)
(* only reached what the events seen last fulfil, and threads have been     *)
(* started wherever a window of events may go on (Started).                 *)
(***************************************************************************)
FulfilledSet == {p \in Addresses(bytecode) : Fulfilled(p)}

Started == {p \in FulfilledSet : p = 0 \/ At(bytecode, p - 1).op = "NEXT"}

Awaited == {p + 1 : p \in {q \in FulfilledSet : At(bytecode, q).op = "NEXT"}}

WindowInv ==
  /\ seen \in Seq(Events)
  /\ at = "idle" /\ seen # <<>> => result # "NONE"
  /\ at \in {"for", "while"} => seen # <<>> /\ next_event = Ago(0)
  /\ ShortLinear =>
       /\ at = "idle" /\ InSession => Standing(current_threads) = Awaited
       /\ at \in {"for", "while"} => reached \subseteq FulfilledSet /\ Started \subseteq reached
       /\ VerdictsExact

(* How many NEXTs lie before an address. *)
LEMMA NextsCount ==
  ASSUME Len(bytecode) \in Nat
  PROVE  /\ \A p \in Addresses(bytecode) : NextsBefore(p) \in Nat
         /\ NextsBefore(0) = 0
         /\ \A p, q \in Addresses(bytecode) : p <= q => NextsBefore(p) <= NextsBefore(q)
         /\ \A p \in Addresses(bytecode) :
              p + 1 \in Addresses(bytecode) =>
                NextsBefore(p + 1) =
                  IF At(bytecode, p).op = "NEXT" THEN NextsBefore(p) + 1 ELSE NextsBefore(p)
<1> DEFINE T == Addresses(bytecode)
           B(p) == {q \in T : q < p /\ At(bytecode, q).op = "NEXT"}
<1>1. \A p : NextsBefore(p) = Cardinality(B(p))
  BY DEF NextsBefore
<1>2. T = 0 .. Len(bytecode) /\ IsFiniteSet(T)
  BY FS_Interval DEF Addresses
<1>3. \A p : IsFiniteSet(B(p)) /\ Cardinality(B(p)) \in Nat
  BY <1>2, FS_Subset, FS_CardinalityType
<1>4. B(0) = {}
  BY <1>2
<1>5. ASSUME NEW p \in T, NEW q \in T, p <= q
      PROVE  NextsBefore(p) <= NextsBefore(q)
  <2>1. B(p) \subseteq B(q)
    BY <1>2, <1>5
  <2> QED
    BY <2>1, <1>1, <1>3, FS_Subset
<1>6. ASSUME NEW p \in T, p + 1 \in T
      PROVE  NextsBefore(p + 1) =
               IF At(bytecode, p).op = "NEXT" THEN NextsBefore(p) + 1 ELSE NextsBefore(p)
  <2>1. B(p + 1) = IF At(bytecode, p).op = "NEXT" THEN B(p) \cup {p} ELSE B(p)
    BY <1>2, <1>6
  <2>2. p \notin B(p)
    BY <1>2
  <2>3. Cardinality(B(p) \cup {p}) = Cardinality(B(p)) + 1
    BY <2>2, <1>3, FS_AddElement
  <2> HIDE DEF B
  <2> QED
    BY <2>1, <2>3, <1>1
<1>7. NextsBefore(0) = 0
  BY <1>1, <1>4, FS_EmptySet
<1>8. \A p \in T : NextsBefore(p) \in Nat
  BY <1>1, <1>3
<1> QED
  BY <1>5, <1>6, <1>7, <1>8

(* A thread that goes on within the event. *)
LEMMA FulfilledOn ==
  ASSUME Len(bytecode) \in Nat, NEW p \in Addresses(bytecode), p + 1 \in Addresses(bytecode),
         At(bytecode, p).op # "NEXT"
  PROVE  Fulfilled(p + 1) <=> Fulfilled(p) /\ Holds(p, p)
<1>1. NextsBefore(p + 1) = NextsBefore(p)
  BY NextsCount
<1>2. \A q : Holds(q, p + 1) <=> Holds(q, p)
  BY <1>1 DEF Holds
<1>3. \A q \in Addresses(bytecode) : q < p + 1 <=> q < p \/ q = p
  BY DEF Addresses
<1> QED
  BY <1>1, <1>2, <1>3 DEF Fulfilled

(* Nothing changes while neither the code nor the history does. *)
LEMMA FulfilledSame ==
  ASSUME bytecode' = bytecode, seen' = seen
  PROVE  /\ \A p : Fulfilled(p)' <=> Fulfilled(p)
         /\ FulfilledSet' = FulfilledSet /\ Started' = Started /\ Awaited' = Awaited
<1>1. \A n : Ago(n)' = Ago(n)
  BY DEF Ago
<1>2. \A p : NextsBefore(p)' = NextsBefore(p)
  BY DEF NextsBefore
<1>3. \A q, p : Holds(q, p)' <=> Holds(q, p)
  BY <1>1, <1>2 DEF Holds
<1>4. \A p : Fulfilled(p)' <=> Fulfilled(p)
  BY <1>2, <1>3 DEF Fulfilled
<1>5. FulfilledSet' = FulfilledSet
  BY <1>4 DEF FulfilledSet
<1> QED
  BY <1>4, <1>5 DEF Started, Awaited

(* With the event to come, a thread that waits resumes behind its NEXT. *)
LEMMA FulfilledLater ==
  ASSUME Len(bytecode) \in Nat, seen \in Seq(Events), NEW event \in Events,
         bytecode' = bytecode, seen' = Append(seen, event),
         NEW p \in Addresses(bytecode), p + 1 \in Addresses(bytecode), At(bytecode, p).op = "NEXT"
  PROVE  Fulfilled(p + 1)' <=> Fulfilled(p)
<1>1. \A q : NextsBefore(q)' = NextsBefore(q)
  BY DEF NextsBefore
<1>2. /\ NextsBefore(p + 1) = NextsBefore(p) + 1 /\ NextsBefore(p) \in Nat
      /\ \A q \in Addresses(bytecode) : NextsBefore(q) \in Nat
      /\ \A q \in Addresses(bytecode) : q <= p => NextsBefore(q) <= NextsBefore(p)
  BY NextsCount
<1>3. Len(seen') = Len(seen) + 1 /\ Len(seen) \in Nat
  OBVIOUS
<1>4. \A n \in Nat : n < Len(seen) => Ago(n + 1)' = Ago(n)
  BY <1>3 DEF Ago
<1>5. ASSUME NEW q \in Addresses(bytecode), q < p, NextsBefore(p) < Len(seen)
      PROVE  Holds(q, p + 1)' <=> Holds(q, p)
  <2>1. NextsBefore(p) - NextsBefore(q) \in Nat /\ NextsBefore(p) - NextsBefore(q) < Len(seen)
        /\ NextsBefore(p + 1) - NextsBefore(q) = (NextsBefore(p) - NextsBefore(q)) + 1
    BY <1>2, <1>3, <1>5 DEF Addresses
  <2>2. Ago(NextsBefore(p + 1) - NextsBefore(q))' = Ago(NextsBefore(p) - NextsBefore(q))
    BY <2>1, <1>1, <1>4
  <2> QED
    BY <2>2, <1>1 DEF Holds
<1>6. Holds(p, p + 1)'
  BY DEF Holds
<1>7. \A q \in Addresses(bytecode) : q < p + 1 <=> q < p \/ q = p
  BY DEF Addresses
<1>8. NextsBefore(p + 1)' < Len(seen') <=> NextsBefore(p) < Len(seen)
  BY <1>1, <1>2, <1>3
<1> QED
  BY <1>5, <1>6, <1>7, <1>8 DEF Fulfilled

(* Where a window may go on is where a thread has waited, or begins. *)
LEMMA WaitedStarts ==
  ASSUME bytecode \in Programs, seen \in Seq(Events), NEW event \in Events,
         bytecode' = bytecode, seen' = Append(seen, event)
  PROVE  Started' = Awaited \cup {0}
<1>1. Len(bytecode) \in Nat /\ Addresses(bytecode) = 0 .. Len(bytecode)
  BY MatcherAssumption DEF WellFormed, Addresses
<1>2. Fulfilled(0)'
  <2>1. NextsBefore(0)' = 0
    BY <1>1, NextsCount DEF NextsBefore
  <2>2. Len(seen') > 0
    OBVIOUS
  <2> QED
    BY <1>1, <2>1, <2>2 DEF Fulfilled
<1>3. ASSUME NEW p \in Addresses(bytecode), At(bytecode, p).op = "NEXT"
      PROVE  p + 1 \in Addresses(bytecode) /\ (Fulfilled(p + 1)' <=> Fulfilled(p))
  <2>1. p + 1 \in Addresses(bytecode)
    BY <1>3, AtInside
  <2> QED
    BY <1>1, <1>3, <2>1, FulfilledLater
<1>4. ASSUME NEW p \in Awaited PROVE p \in Started'
  <2>1. PICK q \in FulfilledSet : At(bytecode, q).op = "NEXT" /\ p = q + 1
    BY DEF Awaited
  <2>2. q \in Addresses(bytecode) /\ Fulfilled(q) /\ q = p - 1
    BY <1>1, <2>1 DEF FulfilledSet
  <2> QED
    BY <2>1, <2>2, <1>3 DEF Started, FulfilledSet
<1>5. ASSUME NEW p \in Started', p # 0 PROVE p \in Awaited
  <2>1. p \in Addresses(bytecode) /\ Fulfilled(p)' /\ At(bytecode, p - 1).op = "NEXT"
    BY <1>5 DEF Started, FulfilledSet
  <2>2. p - 1 \in Addresses(bytecode) /\ p = (p - 1) + 1
    BY <1>1, <1>5, <2>1
  <2>3. Fulfilled(p - 1)
    BY <2>1, <2>2, <1>3
  <2> QED
    BY <2>1, <2>2, <2>3 DEF Awaited, FulfilledSet
<1>6. 0 \in Started'
  BY <1>1, <1>2 DEF Started, FulfilledSet
<1> QED
  BY <1>4, <1>5, <1>6

(* Of the final instructions of a linear pattern only the first can be found. *)
LEMMA OneFound ==
  ASSUME bytecode \in Programs
  PROVE  ~(Finds("MATCH") /\ Finds("ABORT"))
<1> SUFFICES ASSUME NEW p \in Addresses(bytecode), NEW q \in Addresses(bytecode),
                    At(bytecode, p).op = "MATCH", Fulfilled(p),
                    At(bytecode, q).op = "ABORT", Fulfilled(q)
             PROVE  FALSE
  BY DEF Finds
<1>1. p < q \/ q < p
  BY MatcherAssumption DEF Addresses, WellFormed
<1>2. CASE p < q
  BY <1>2 DEF Fulfilled, Holds
<1>3. CASE q < p
  BY <1>3 DEF Fulfilled, Holds
<1> QED
  BY <1>1, <1>2, <1>3

(* A set of addresses has a first one. *)
LEMMA LeastAddress ==
  ASSUME NEW T, T \subseteq Nat, T # {}
  PROVE  \E x \in T : \A y \in T : x <= y
<1> DEFINE R == OpToRel(<, Nat)
<1>1. IsWellFoundedOn(R, Nat)
  BY NatLessThanWellFounded
<1>2. \A m, n \in Nat : m < n => <<m, n>> \in R
  BY DEF OpToRel
<1> HIDE DEF R
<1>3. PICK x \in T : \A y \in T : <<y, x>> \notin R
  BY <1>1, WFMin
<1>4. \A y \in T : x \in Nat /\ y \in Nat /\ ~(y < x)
  BY <1>2, <1>3
<1> QED
  BY <1>4

(* When no thread is left, one has stood wherever the events allow it. *)
LEMMA AllReached ==
  ASSUME bytecode \in Programs, Linear(bytecode), seen # <<>>, next_event = Ago(0),
         Started \subseteq reached, \A p \in reached : Served(p)
  PROVE  FulfilledSet \subseteq reached
<1> SUFFICES ASSUME FulfilledSet \ reached # {}
             PROVE  FALSE
  OBVIOUS
<1>1. Len(bytecode) \in Nat /\ Addresses(bytecode) = 0 .. Len(bytecode)
  BY MatcherAssumption DEF WellFormed, Addresses
<1>2. FulfilledSet \ reached \subseteq Nat
  BY <1>1 DEF FulfilledSet
<1>3. PICK p \in FulfilledSet \ reached : \A q \in FulfilledSet \ reached : p <= q
  BY <1>2, LeastAddress
<1>4. p \in Nat /\ p \in Addresses(bytecode) /\ Fulfilled(p) /\ p # 0
      /\ At(bytecode, p - 1).op # "NEXT"
  BY <1>2, <1>3 DEF FulfilledSet, Started
<1>5. p - 1 \in Addresses(bytecode) /\ p = (p - 1) + 1 /\ p - 1 < p
  BY <1>1, <1>4
<1>6. Fulfilled(p - 1) /\ Holds(p - 1, p - 1)
  BY <1>1, <1>4, <1>5, FulfilledOn
<1>7. p - 1 \in reached
  BY <1>2, <1>3, <1>5, <1>6 DEF FulfilledSet
<1>8. Successors(bytecode, p - 1, next_event) \subseteq reached
  BY <1>7 DEF Served
<1>9. At(bytecode, p - 1).op \in {"NAME", "SCREEN"}
  <2>1. At(bytecode, p - 1) \in Instruction
    BY <1>5, AtInside
  <2>2. At(bytecode, p - 1).op \notin {"JUMP", "SPLIT"}
    BY <1>1, <1>5 DEF At, Linear, Abort
  <2> QED
    BY <1>4, <1>6, <2>1, <2>2 DEF Instruction, Ops, Holds
<1>10. Passes(At(bytecode, p - 1), next_event)
  <2>1. NextsBefore(p - 1) - NextsBefore(p - 1) = 0
    BY <1>1, <1>5, NextsCount
  <2> QED
    BY <1>6, <1>9, <2>1 DEF Holds
<1>11. p \in Successors(bytecode, p - 1, next_event)
  BY <1>5, <1>9, <1>10 DEF Successors
<1> QED
  BY <1>3, <1>8, <1>11

(* Where an instruction of a linear pattern leads within the event. *)
LEMMA SuccessorFulfilled ==
  ASSUME bytecode \in Programs, Linear(bytecode), next_event = Ago(0),
         NEW p \in FulfilledSet
  PROVE  Successors(bytecode, p, next_event) \subseteq FulfilledSet
<1> SUFFICES ASSUME NEW q \in Successors(bytecode, p, next_event)
             PROVE  q \in FulfilledSet
  OBVIOUS
<1>1. Len(bytecode) \in Nat /\ Addresses(bytecode) = 0 .. Len(bytecode)
      /\ p \in Addresses(bytecode) /\ Fulfilled(p)
  BY MatcherAssumption DEF WellFormed, Addresses, FulfilledSet
<1>2. At(bytecode, p).op \notin {"JUMP", "SPLIT"}
  BY <1>1 DEF At, Linear, Abort
<1>3. /\ At(bytecode, p).op \in {"NAME", "SCREEN"} /\ q = p + 1
      /\ Passes(At(bytecode, p), next_event)
  BY <1>2 DEF Successors
<1>4. NextsBefore(p) - NextsBefore(p) = 0
  BY <1>1, NextsCount
<1>5. Holds(p, p)
  BY <1>3, <1>4 DEF Holds
<1>6. q \in Addresses(bytecode)
  BY <1>1, <1>3, AtInside
<1>7. Fulfilled(q)
  BY <1>1, <1>3, <1>5, <1>6, FulfilledOn
<1> QED
  BY <1>6, <1>7 DEF FulfilledSet

(* Before the first event nothing is fulfilled. *)
LEMMA NothingSeen ==
  ASSUME seen' = <<>>, Len(bytecode') \in Nat
  PROVE  FulfilledSet' = {} /\ Awaited' = {}
<1>1. ASSUME NEW p PROVE ~Fulfilled(p)'
  <2> DEFINE B == {q \in Addresses(bytecode') : q < p /\ At(bytecode', q).op = "NEXT"}
  <2>1. IsFiniteSet(Addresses(bytecode')) /\ B \subseteq Addresses(bytecode')
    BY FS_Interval DEF Addresses
  <2>2. Cardinality(B) \in Nat
    BY <2>1, FS_Subset, FS_CardinalityType
  <2>3. NextsBefore(p)' = Cardinality(B)
    BY DEF NextsBefore
  <2> QED
    BY <2>2, <2>3, EmptyList DEF Fulfilled
<1> QED
  BY <1>1 DEF FulfilledSet, Awaited

(* There is no window before the first event. *)
LEMMA WindowInit == HistoryInit => WindowInv
<1> SUFFICES ASSUME HistoryInit PROVE WindowInv
  OBVIOUS
<1>1. seen \in Seq(Events) /\ at = "none"
  BY EmptyList DEF HistoryInit, Init
<1> QED
  BY <1>1 DEF WindowInv, VerdictsExact

(* Each step of a session keeps the threads where the events seen last lead. *)
LEMMA WindowStep ==
  TypeOK /\ TypeOK' /\ LinearInv /\ ExplorationInv /\ WindowInv /\ [HistoryNext]_<<vars, seen>>
  => WindowInv'
<1> SUFFICES ASSUME TypeOK, TypeOK', LinearInv, ExplorationInv, WindowInv,
                    [HistoryNext]_<<vars, seen>>
             PROVE  WindowInv'
  OBVIOUS
<1>a. \A code \in Programs : Len(code) \in Nat
  BY MatcherAssumption DEF WellFormed
<1>1. CASE Manage /\ seen' = <<>>
  <2>1. /\ at' \in {"none", "idle"} /\ current_threads' = <<>> /\ result' = "NONE"
        /\ at' = "idle" => bytecode' \in Programs
    BY <1>1 DEF Manage, Create, Destroy, Reset, TypeOK
  <2>2. at' = "idle" => Awaited' = {}
    BY <1>1, <1>a, <2>1, NothingSeen
  <2>3. Standing(current_threads)' = {}
    BY <2>1, EmptyList DEF Standing
  <2>4. seen' \in Seq(Events)
    BY <1>1, EmptyList
  <2> QED
    BY <1>1, <2>1, <2>2, <2>3, <2>4 DEF WindowInv, VerdictsExact
<1>2. ASSUME InSession, NEW event \in Events, Accept(event), seen' = Append(seen, event)
      PROVE  WindowInv'
  <2>1. /\ at = "idle" /\ at' = "for" /\ bytecode' = bytecode /\ bytecode \in Programs
        /\ next_event' = event /\ reached' = Standing(current_threads) \cup {0}
        /\ seen \in Seq(Events)
    BY <1>2 DEF Accept, TypeOK, WindowInv
  <2>2. Started' = Awaited \cup {0}
    BY <1>2, <2>1, WaitedStarts
  <2>3. seen' \in Seq(Events) /\ seen' # <<>> /\ Ago(0)' = event
    BY <1>2, <2>1 DEF Ago
  <2>4. ShortLinear' => reached' = Started'
    BY <1>2, <2>1, <2>2 DEF WindowInv, ShortLinear
  <2>5. Started' \subseteq FulfilledSet'
    BY DEF Started
  <2> QED
    BY <2>1, <2>3, <2>4, <2>5 DEF WindowInv, VerdictsExact
<1>3. CASE TakeThread /\ UNCHANGED seen
  <2>1. /\ at = "for" /\ at' = "while" /\ UNCHANGED <<bytecode, next_event, reached, seen>>
    BY <1>3 DEF TakeThread
  <2>2. Started' = Started /\ FulfilledSet' = FulfilledSet /\ Ago(0)' = Ago(0)
    BY <2>1, FulfilledSame DEF Ago
  <2> QED
    BY <2>1, <2>2 DEF WindowInv, VerdictsExact, ShortLinear
<1>4. CASE Exhausted /\ UNCHANGED seen
  <2>1. /\ at = "for" /\ at' = "idle" /\ result' = "MATCH_NEXT" /\ current_threads' = next_threads
        /\ thread_i >= Len(current_threads) /\ UNCHANGED <<bytecode, seen>>
        /\ bytecode \in Programs
    BY <1>4 DEF Exhausted, Return, TypeOK
  <2> SUFFICES ASSUME ShortLinear
               PROVE  Standing(next_threads) = Awaited /\ ~Finds("MATCH") /\ ~Finds("ABORT")
    <3>1. Awaited' = Awaited /\ (\A op : Finds(op)' <=> Finds(op))
      BY <2>1, FulfilledSame DEF Finds
    <3> QED
      BY <2>1, <3>1 DEF WindowInv, VerdictsExact, ShortLinear
  <2>2. Linear(bytecode) /\ ~lost
    BY DEF ShortLinear, LinearInv
  <2>3. Pending = {}
    BY <2>1, RestNone DEF Pending, TypeOK
  <2>4. \A p \in reached : Served(p)
    BY <2>1, <2>2, <2>3 DEF ExplorationInv, Explored
  <2>5. /\ seen # <<>> /\ next_event = Ago(0)
        /\ Started \subseteq reached /\ reached \subseteq FulfilledSet
    BY <2>1 DEF WindowInv
  <2>6. reached = FulfilledSet
    BY <2>1, <2>2, <2>4, <2>5, AllReached
  <2>7. Promise!Resumed = Awaited
    BY <2>6, SameCode DEF Promise!Resumed, Awaited
  <2>8. Standing(next_threads) \subseteq Awaited
    BY <2>1, <2>7 DEF ExplorationInv
  <2>9. Awaited \subseteq Standing(next_threads)
    BY <2>4, <2>6 DEF Awaited, Served
  <2>10. ~Finds("MATCH") /\ ~Finds("ABORT")
    BY <2>4, <2>6 DEF Finds, FulfilledSet, Served
  <2> QED
    BY <2>8, <2>9, <2>10
<1>5. CASE (OpTest \/ OpNext \/ OpJump \/ OpSplit) /\ UNCHANGED seen
  <2>1. /\ at = "while" /\ at' \in {"for", "while"} /\ Stand
        /\ UNCHANGED <<bytecode, next_event, seen>>
    BY <1>5 DEF OpTest, OpNext, OpJump, OpSplit, Executing, ThreadDone, ThreadGoesOn, TypeOK
  <2>2. Started' = Started /\ FulfilledSet' = FulfilledSet /\ Ago(0)' = Ago(0)
    BY <2>1, FulfilledSame DEF Ago
  <2>3. bytecode \in Programs /\ ip \in reached /\ next_event = Ago(0) /\ seen # <<>>
    BY <2>1 DEF TypeOK, ExplorationInv, WindowInv
  <2>4. ShortLinear => Successors(bytecode, ip, next_event) \subseteq FulfilledSet
    BY <2>1, <2>3, SuccessorFulfilled DEF ShortLinear, WindowInv
  <2>5. reached' = reached \cup Successors(bytecode, ip, next_event)
    BY <2>1 DEF Stand
  <2> QED
    BY <2>1, <2>2, <2>3, <2>4, <2>5 DEF WindowInv, VerdictsExact, ShortLinear
<1>6. CASE (OpMatch \/ OpAbort) /\ UNCHANGED seen
  <2>1. /\ at = "while" /\ at' = "idle" /\ UNCHANGED <<bytecode, seen>>
        /\ \/ At(bytecode, ip).op = "MATCH" /\ result' = "MATCH_OK"
           \/ At(bytecode, ip).op = "ABORT" /\ result' = "MATCH_ERROR"
        /\ bytecode \in Programs /\ ip \in reached /\ ip \in Addresses(bytecode)
    BY <1>6 DEF OpMatch, OpAbort, Executing, Return, TypeOK, ExplorationInv
  <2>2. ShortLinear => Fulfilled(ip)
    BY <2>1 DEF WindowInv, FulfilledSet
  <2>3. \A op : Finds(op)' <=> Finds(op)
    BY <2>1, FulfilledSame DEF Finds
  <2>4. ShortLinear => \/ result' = "MATCH_OK" /\ Finds("MATCH") /\ ~Finds("ABORT")
                       \/ result' = "MATCH_ERROR" /\ Finds("ABORT") /\ ~Finds("MATCH")
    BY <2>1, <2>2, OneFound DEF Finds
  <2> QED
    BY <2>1, <2>3, <2>4 DEF WindowInv, VerdictsExact, ShortLinear, InSession
<1>7. CASE UNCHANGED <<vars, seen>>
  <2>1. /\ UNCHANGED <<bytecode, current_threads, at, result, next_event, reached, seen>>
    BY <1>7 DEF vars
  <2>2. /\ Started' = Started /\ FulfilledSet' = FulfilledSet /\ Awaited' = Awaited
        /\ Ago(0)' = Ago(0) /\ \A op : Finds(op)' <=> Finds(op)
    BY <2>1, FulfilledSame DEF Ago, Finds
  <2>3. Standing(current_threads)' = Standing(current_threads)
    BY <2>1
  <2>4. VerdictsExact' <=> VerdictsExact
    BY <2>1, <2>2 DEF VerdictsExact, ShortLinear
  <2> QED
    BY <2>1, <2>2, <2>3, <2>4 DEF WindowInv, ShortLinear, InSession
<1> QED
  BY <1>1, <1>2, <1>3, <1>4, <1>5, <1>6, <1>7 DEF HistoryNext, Run

(***************************************************************************)
(* Whatever the session, the verdict on a linear pattern shorter than the   *)
(* lists says whether the events seen last are an occurrence of it: the     *)
(* machine with its threads is equivalent to looking back at the events.    *)
(***************************************************************************)
THEOREM VerdictsRight == HistorySpec => []VerdictsExact
<1> DEFINE Inv == TypeOK /\ LinearInv /\ ExplorationInv /\ WindowInv
<1>1. HistoryInit => Inv
  BY TypeInit, LinearInit, ExplorationInit, WindowInit DEF HistoryInit
<1>2. [HistoryNext]_<<vars, seen>> => [SessionNext]_vars
  BY DEF HistoryNext, SessionNext
<1>3. Inv /\ [HistoryNext]_<<vars, seen>> => Inv'
  BY <1>2, SessionIsClient, TypeStep, LinearStep, ExplorationStep, WindowStep
<1>4. Inv => VerdictsExact
  BY DEF WindowInv, VerdictsExact
<1> QED
  BY <1>1, <1>3, <1>4, PTL DEF HistorySpec

=============================================================================
