-------------------------- MODULE NodeFrames_proofs --------------------------
(***************************************************************************)
(* Proofs about the life of a node and its frame timer, for every period,  *)
(* every set of steps of the PTP clock, any number of tasks and restarts   *)
(* and whatever fails.                                                     *)
(*                                                                         *)
(* What the node does to its timer are steps of FrameTimer, of whose       *)
(* states TimerInv is an inductive invariant: where on the grid, and how   *)
(* far ahead, every time is that the MAC has, s_timer holds or a start has *)
(* at hand, and which halves of it an interrupt may have replaced by those *)
(* of another time.                                                        *)
(*                                                                         *)
(* LifeInv says of every point of every call what exists, what runs and    *)
(* which sockets are open there, HeldInv what was allocated beside the     *)
(* contexts that exist; TaskInv why each receiving and announcing task may *)
(* still be there, by what is left of the waits.                           *)
(***************************************************************************)
EXTENDS NodeFrames, FiniteSetTheorems, TLAPS

Boundary(time) == time % Period = 0

(* A time that is so far ahead lies on the grid of the frames. *)
Aligned(ahead) == Boundary(phase + ahead)

Divides == Second % Period = 0

TimerType ==
  /\ phase \in 0 .. Period - 1 /\ nsec \in 0 .. Second - 1
  /\ timer = [registered |-> timer.registered, running |-> timer.running, next |-> timer.next]
  /\ timer.next \in Int
  /\ target = [armed |-> target.armed, at |-> target.at]
  /\ target.at \in Int
  /\ starting \in [done : {"none", "read", "sec", "nsec", "load"}, next : Int]
  /\ back \in Nat
  /\ torn \in {"no", "target", "next"}

(* Where a time is on the grid: always, if the period divides a second;    *)
(* otherwise unless it may be made of the halves of two.                   *)
GridInv ==
  /\ target.armed /\ (Divides \/ (starting.done = "none" /\ torn = "no")) => Aligned(target.at)
  /\ timer.running /\ target.armed /\ Divides => Aligned(timer.next)
  /\ timer.running /\ target.armed /\ starting.done = "none" /\ torn # "next" => Aligned(timer.next)
  /\ starting.done \in {"nsec", "load"} /\ (Divides \/ torn # "next") => Aligned(timer.next)
  /\ starting.done \in {"read", "sec"} => Aligned(starting.next)

(* The MAC calls nobody but the registered callback; a timer runs once the *)
(* second half of its first target is set.  Until an interrupt comes, the  *)
(* halves that are in s_timer, or were read from it, are those of the      *)
(* start's own target.                                                     *)
TimerStates ==
  /\ target.armed => timer.registered
  /\ starting.done = "none" => starting = Frame!NotStarting
  /\ starting.done \in {"nsec", "load"} => timer.running
  /\ starting.done = "read" => torn = "no"
  /\ starting.done \in {"sec", "nsec"} => torn # "target"
  /\ starting.done = "sec" /\ torn = "no" => Frame!Sec(timer.next) = Frame!Sec(starting.next)
  /\ starting.done = "sec" /\ torn = "next" /\ target.armed => target.at = timer.next
  /\ starting.done = "load" /\ torn = "no" => starting.next = timer.next
  /\ starting.done = "load" => starting.next <= timer.next

(* How far ahead the times are that will be, or are, the MAC's target: as  *)
(* far as "back" allows for, and a second once their halves are mixed up.  *)
TornBy == IF torn = "next" THEN Second ELSE 0

SilenceInv ==
  /\ starting.done = "read" \/ (starting.done = "sec" /\ torn = "no")
       => starting.next <= Period + back
  /\ starting.done = "sec" /\ torn = "next"
       => \/ /\ Frame!Sec(timer.next) <= Frame!Sec(starting.next) + Second
             /\ starting.next <= Period + back
          \/ timer.next <= Period + back
  /\ starting.done \in {"nsec", "load"} => timer.next <= Period + back + TornBy
  /\ starting.done = "load"
       => Frame!Joined(starting.next, timer.next) <= Period + back + Frame!MixedUp
  /\ target.armed /\ timer.running /\ starting.done = "none"
       => target.at <= Period + back /\ timer.next <= Period + back

TimerInv == TimerType /\ TimerStates /\ GridInv /\ SilenceInv

------------------------------------------------------------------------------
(* Every step in the life of a node is a step of its timer or none. *)
LEMMA StepsOfTimer == [FramesNext]_allVars => [Frame!Next]_timerVars
<1>1. ASSUME InitNodeTimer \/ InitNodeFails \/ StartTimer \/ StartNodeTimer
      PROVE  [Frame!Next]_timerVars
  BY <1>1 DEF InitNodeTimer, InitNodeFails, StartTimer, StartNodeTimer, timerVars, Frame!Next
<1>2. ASSUME Tic \/ IsrStopped \/ Advance \/ StepBack \/ StepAhead
      PROVE  Frame!Next
  BY <1>2 DEF Tic, IsrStopped, Advance, StepBack, StepAhead, Frame!Next
<1>3. ASSUME CrashNoSemaphore \/ Crash
      PROVE  Frame!Next
  BY <1>3 DEF CrashNoSemaphore, Crash, Boot, Frame!Next
<1>4. ASSUME OtherCallStep \/ OtherFailure \/ OtherStep \/ UNCHANGED allVars
      PROVE  UNCHANGED timerVars
  BY <1>4 DEF OtherCallStep, OtherFailure, OtherStep, allVars, frameVars, timerVars
<1> QED BY <1>1, <1>2, <1>3, <1>4 DEF FramesNext

------------------------------------------------------------------------------
(* Every time is a number of periods and a rest. *)
LEMMA QuotientAndRest ==
  ASSUME NEW x \in Int
  PROVE  x % Period \in 0 .. Period - 1 /\ \E q \in Int : x = q * Period + (x % Period)
<1>1. x \div Period \in Int /\ x = (x \div Period) * Period + (x % Period)
  BY NodeFramesAssumption
<1>2. x % Period \in 0 .. Period - 1
  BY NodeFramesAssumption
<1> QED BY <1>1, <1>2

(* The boundaries are the multiples of the period. *)
LEMMA BoundariesAreMultiples ==
  ASSUME NEW x \in Int
  PROVE  /\ Boundary(x) => \E k \in Int : x = k * Period
         /\ \A k \in Int : x = k * Period => Boundary(x)
<1>1. ASSUME Boundary(x)
      PROVE  \E k \in Int : x = k * Period
  <2>1. PICK q \in Int : x = q * Period + (x % Period)
    BY QuotientAndRest
  <2>2. x = q * Period
    BY <1>1, <2>1, NodeFramesAssumption DEF Boundary
  <2> QED BY <2>2
<1>2. ASSUME NEW k \in Int
      PROVE  (k * Period) % Period = 0
  BY NodeFramesAssumption
<1> QED BY <1>1, <1>2 DEF Boundary

(* Two times that a number of periods lies between are boundaries, or none *)
(* of them is.                                                             *)
LEMMA BoundaryShift ==
  ASSUME NEW x \in Int, NEW k \in Int, Boundary(x)
  PROVE  Boundary(x + k * Period)
<1>1. PICK l \in Int : x = l * Period
  BY BoundariesAreMultiples
<1>2. x + k * Period = (l + k) * Period /\ x + k * Period \in Int
  BY <1>1, NodeFramesAssumption
<1> QED BY <1>2, BoundariesAreMultiples

(* What is on the grid is still on it when the clock has moved by n. *)
LEMMA AlignedMoves ==
  ASSUME TimerType, NEW n \in Int, NEW ahead \in Int, Aligned(ahead),
         phase' = (phase + n) % Period
  PROVE  Boundary(phase' + (ahead - n))
<1>1. phase' \in Int /\ \E q \in Int : phase + n = q * Period + phase'
  <2>1. phase + n \in Int
    BY DEF TimerType
  <2> QED BY <2>1, QuotientAndRest
<1>2. PICK q \in Int : phase + n = q * Period + phase'
  BY <1>1
<1>3. phase' + (ahead - n) = (phase + ahead) + (-q) * Period
  <2>1. phase \in Int
    BY NodeFramesAssumption DEF TimerType
  <2>2. (-q) * Period = -(q * Period) /\ q * Period \in Int
    BY NodeFramesAssumption
  <2> QED BY <1>1, <1>2, <2>1, <2>2
<1>4. Boundary((phase + ahead) + (-q) * Period)
  BY BoundaryShift DEF TimerType, Aligned
<1> QED BY <1>3, <1>4

(* The next boundary, and a period after a frame, are on the grid. *)
LEMMA NextIsAligned ==
  ASSUME TimerType
  PROVE  /\ Aligned(Frame!NextBoundary)
         /\ Frame!NextBoundary \in 1 .. Period
         /\ \A ahead \in Int : Aligned(ahead) => Aligned(ahead + Period)
<1>1. Frame!NextBoundary = Period - phase /\ phase + (Period - phase) = Period
  BY NodeFramesAssumption DEF TimerType, Frame!NextBoundary
<1>2. Boundary(Period)
  BY NodeFramesAssumption DEF Boundary
<1>3. ASSUME NEW ahead \in Int, Aligned(ahead)
      PROVE  Aligned(ahead + Period)
  <2>1. Boundary((phase + ahead) + 1 * Period)
    BY <1>3, BoundaryShift DEF TimerType, Aligned
  <2>2. (phase + ahead) + 1 * Period = phase + (ahead + Period)
    BY NodeFramesAssumption DEF TimerType
  <2> QED BY <2>1, <2>2 DEF Aligned
<1> QED BY <1>1, <1>2, <1>3, NodeFramesAssumption DEF TimerType, Aligned

(* The rest of a division is unique, ... *)
LEMMA RestIsUnique ==
  ASSUME NEW q \in Int, NEW r \in 0 .. Second - 1
  PROVE  (q * Second + r) % Second = r
<1> USE NodeFramesAssumption
<1> DEFINE x == q * Second + r
<1>1. x \in Int
  OBVIOUS
<1>2. x \div Second \in Int /\ x = (x \div Second) * Second + (x % Second)
  BY <1>1
<1>3. x % Second \in 0 .. Second - 1
  BY <1>1
<1> DEFINE p == x \div Second
           s == x % Second
<1>4. q * Second + r = p * Second + s /\ p \in Int /\ s \in 0 .. Second - 1
  BY <1>2, <1>3
<1>5. s = r
  <2> HIDE DEF p, s
  <2>1. \A k \in Int : k >= 1 => k * Second >= Second
    OBVIOUS
  <2>2. q - p \in Int /\ (q - p) * Second = q * Second - p * Second
    BY <1>4
  <2>3. p - q \in Int /\ (p - q) * Second = p * Second - q * Second
    BY <1>4
  <2>4. q * Second \in Int /\ p * Second \in Int
    BY <1>4
  <2>5. ~(q - p >= 1)
    BY <2>1, <2>2, <2>4, <1>4
  <2>6. ~(p - q >= 1)
    BY <2>1, <2>3, <2>4, <1>4
  <2>7. p = q
    BY <2>5, <2>6, <1>4
  <2> QED BY <2>7, <2>4, <1>4
<1> QED BY <1>5

(* ... and so is the second a time is in. *)
FullSecond(ns, time) == \E q \in Int : ns + time = q * Second

LEMMA SecondIsUnique ==
  ASSUME NEW ns \in Int, NEW time \in Int, FullSecond(ns, time), NEW r \in 0 .. Second - 1
  PROVE  (ns + (time + r)) % Second = r
<1>1. PICK q \in Int : ns + time = q * Second
  BY DEF FullSecond
<1>2. ns + (time + r) = q * Second + r
  <2>1. q * Second \in Int /\ Second \in Int
    BY NodeFramesAssumption
  <2> QED BY <1>1, <2>1
<1> QED BY <1>2, RestIsUnique

LEMMA SecondsAreApart ==
  ASSUME NEW ns \in Int, NEW a \in Int, NEW b \in Int,
         FullSecond(ns, a), FullSecond(ns, b), a < b + Second
  PROVE  a <= b
<1> USE NodeFramesAssumption
<1>1. PICK p \in Int : ns + a = p * Second
  BY DEF FullSecond
<1>2. PICK q \in Int : ns + b = q * Second
  BY DEF FullSecond
<1>3. p * Second \in Int /\ q * Second \in Int
  OBVIOUS
<1>4. p - q \in Int /\ (p - q) * Second = p * Second - q * Second
  OBVIOUS
<1>5. (p - q) * Second = a - b
  BY <1>1, <1>2, <1>3, <1>4
<1>6. CASE p - q <= 0
  <2>1. (p - q) * Second <= 0
    BY <1>4, <1>6
  <2> QED BY <1>5, <2>1
<1>7. CASE p - q >= 1
  <2>1. (p - q) * Second >= Second
    BY <1>4, <1>7
  <2> QED BY <1>5, <2>1
<1> QED BY <1>4, <1>6, <1>7

(* A time and its halves. *)
LEMMA HalvesOfTime ==
  ASSUME TimerType, NEW a \in Int
  PROVE  /\ Frame!Nsec(a) \in 0 .. Second - 1 /\ Frame!Sec(a) \in Int
         /\ a = Frame!Sec(a) + Frame!Nsec(a)
         /\ FullSecond(nsec, Frame!Sec(a))
<1> USE NodeFramesAssumption
<1>1. nsec \in Int /\ nsec + a \in Int
  BY DEF TimerType
<1> DEFINE q == (nsec + a) \div Second
<1>2. (nsec + a) % Second \in 0 .. Second - 1
  BY <1>1
<1>3. q \in Int /\ nsec + a = q * Second + ((nsec + a) % Second)
  BY <1>1
<1>4. Frame!Nsec(a) \in 0 .. Second - 1 /\ Frame!Nsec(a) = (nsec + a) % Second
  BY <1>2 DEF Frame!Nsec
<1>5. Frame!Sec(a) = a - Frame!Nsec(a)
  BY DEF Frame!Sec
<1>6. nsec + Frame!Sec(a) = q * Second
  <2> HIDE DEF q
  <2>1. q * Second \in Int
    BY <1>3
  <2> QED BY <1>1, <1>3, <1>4, <1>5, <2>1
<1> HIDE DEF q
<1>7. FullSecond(nsec, Frame!Sec(a))
  BY <1>3, <1>6 DEF FullSecond
<1> QED BY <1>4, <1>5, <1>7

(* The halves of two times, put together. *)
LEMMA HalvesOfTwo ==
  ASSUME TimerType, NEW a \in Int, NEW b \in Int
  PROVE  /\ Frame!Joined(a, b) = Frame!Sec(a) + Frame!Nsec(b)
         /\ Frame!Joined(a, b) \in Int
         /\ Frame!Sec(Frame!Joined(a, b)) = Frame!Sec(a)
         /\ Frame!Sec(a) = Frame!Sec(b) => Frame!Joined(a, b) = b
<1>1. Frame!Joined(a, b) = Frame!Sec(a) + Frame!Nsec(b)
  BY DEF Frame!Joined
<1>2. /\ Frame!Sec(a) \in Int /\ FullSecond(nsec, Frame!Sec(a))
      /\ Frame!Nsec(b) \in 0 .. Second - 1 /\ b = Frame!Sec(b) + Frame!Nsec(b)
  BY HalvesOfTime
<1>3. nsec \in Int /\ Second \in Nat
  BY NodeFramesAssumption DEF TimerType
<1>4. (nsec + Frame!Joined(a, b)) % Second = Frame!Nsec(b)
  BY <1>1, <1>2, <1>3, SecondIsUnique
<1>5. Frame!Sec(Frame!Joined(a, b)) = Frame!Joined(a, b) - Frame!Nsec(b)
  BY <1>4 DEF Frame!Sec, Frame!Nsec
<1> QED BY <1>1, <1>2, <1>3, <1>5

(* The second of a later time is the same or a later one, and of a time a  *)
(* period later the next one at most.                                      *)
LEMMA SecondsGrow ==
  ASSUME TimerType, NEW a \in Int, NEW b \in Int
  PROVE  /\ a <= b => Frame!Sec(a) <= Frame!Sec(b)
         /\ a <= b + Period => Frame!Sec(a) <= Frame!Sec(b) + Second
         /\ Frame!Nsec(a + Period) <= Frame!Nsec(a) + Period
<1> USE NodeFramesAssumption
<1>1. \A x \in Int : /\ Frame!Nsec(x) \in 0 .. Second - 1 /\ Frame!Sec(x) \in Int
                     /\ x = Frame!Sec(x) + Frame!Nsec(x)
                     /\ FullSecond(nsec, Frame!Sec(x))
  BY HalvesOfTime
<1>2. nsec \in Int
  BY DEF TimerType
<1>3. ASSUME NEW x \in Int, NEW y \in Int, x <= y
      PROVE  Frame!Sec(x) <= Frame!Sec(y)
  <2>1. Frame!Sec(x) < Frame!Sec(y) + Second
    BY <1>1, <1>3
  <2> QED BY <1>1, <1>2, <2>1, SecondsAreApart
<1>4. FullSecond(nsec, Frame!Sec(b) + Second)
  <2>1. PICK q \in Int : nsec + Frame!Sec(b) = q * Second
    BY <1>1 DEF FullSecond
  <2>2. /\ q * Second \in Int /\ q + 1 \in Int
        /\ (q + 1) * Second = q * Second + Second
    BY <2>1
  <2>3. Frame!Sec(b) \in Int
    BY <1>1
  <2>4. nsec + (Frame!Sec(b) + Second) = q * Second + Second
    BY <1>2, <2>1, <2>2, <2>3
  <2> QED BY <2>2, <2>4 DEF FullSecond
<1>5. ASSUME a <= b + Period
      PROVE  Frame!Sec(a) <= Frame!Sec(b) + Second
  <2>1. Frame!Sec(a) < (Frame!Sec(b) + Second) + Second
    BY <1>1, <1>5
  <2> QED BY <1>1, <1>2, <1>4, <2>1, SecondsAreApart
<1>6. Frame!Nsec(a + Period) <= Frame!Nsec(a) + Period
  <2>1. a + Period \in Int /\ a <= a + Period
    OBVIOUS
  <2>2. Frame!Sec(a) <= Frame!Sec(a + Period)
    BY <1>3, <2>1
  <2> QED BY <1>1, <2>1, <2>2
<1> QED BY <1>3, <1>5, <1>6

(* If the period divides a second, a time that has the second half of one  *)
(* on the grid is on the grid.                                             *)
LEMMA JoinedIsAligned ==
  ASSUME TimerType, Divides, NEW a \in Int, NEW b \in Int, Aligned(b)
  PROVE  Aligned(Frame!Joined(a, b))
<1> USE NodeFramesAssumption
<1>1. PICK d \in Int : Second = d * Period
  <2>1. Second \in Int /\ Boundary(Second)
    BY DEF Divides, Boundary
  <2> QED BY <2>1, BoundariesAreMultiples
<1>2. /\ Frame!Sec(a) \in Int /\ FullSecond(nsec, Frame!Sec(a))
      /\ Frame!Sec(b) \in Int /\ FullSecond(nsec, Frame!Sec(b))
      /\ Frame!Nsec(b) \in Int /\ b = Frame!Sec(b) + Frame!Nsec(b)
  BY HalvesOfTime
<1>3. PICK p \in Int : nsec + Frame!Sec(a) = p * Second
  BY <1>2 DEF FullSecond
<1>4. PICK q \in Int : nsec + Frame!Sec(b) = q * Second
  BY <1>2 DEF FullSecond
<1>5. nsec \in Int /\ phase \in Int
  BY DEF TimerType
<1>6. (p - q) * Second = p * Second - q * Second /\ p * Second \in Int /\ q * Second \in Int
  OBVIOUS
<1>7. ((p - q) * d) * Period = (p - q) * Second /\ (p - q) * d \in Int
  BY <1>1
<1>8. Frame!Joined(a, b) = b + ((p - q) * d) * Period
  <2>1. Frame!Joined(a, b) = Frame!Sec(a) + Frame!Nsec(b)
    BY DEF Frame!Joined
  <2> DEFINE shift == ((p - q) * d) * Period
  <2>2. shift = p * Second - q * Second
    BY <1>6, <1>7
  <2> HIDE DEF shift
  <2>3. Frame!Joined(a, b) = b + shift
    BY <1>2, <1>3, <1>4, <1>5, <1>6, <2>1, <2>2
  <2> QED BY <2>3 DEF shift
<1>9. Boundary((phase + b) + ((p - q) * d) * Period)
  <2>1. phase + b \in Int /\ Boundary(phase + b)
    BY <1>5 DEF Aligned
  <2> QED BY <1>7, <2>1, BoundaryShift
<1>10. phase + Frame!Joined(a, b) = (phase + b) + ((p - q) * d) * Period
  <2>1. ((p - q) * d) * Period \in Int
    BY <1>6, <1>7
  <2> QED BY <1>5, <1>8, <2>1
<1> QED BY <1>9, <1>10 DEF Aligned

(* When the clock has moved by n the halves of a time are the same. *)
LEMMA HalvesMove ==
  ASSUME TimerType, NEW n \in Int, NEW a \in Int, nsec' = (nsec + n) % Second
  PROVE  (nsec' + (a - n)) % Second = Frame!Nsec(a)
<1> USE NodeFramesAssumption
<1>1. nsec \in Int /\ nsec + n \in Int
  BY DEF TimerType
<1> DEFINE k == (nsec + n) \div Second
<1>2. k \in Int /\ nsec + n = k * Second + nsec' /\ nsec' \in Int
  BY <1>1
<1>3. /\ Frame!Nsec(a) \in 0 .. Second - 1 /\ Frame!Sec(a) \in Int
      /\ a = Frame!Sec(a) + Frame!Nsec(a)
      /\ FullSecond(nsec, Frame!Sec(a))
  BY HalvesOfTime
<1> HIDE DEF k
<1>4. FullSecond(nsec', Frame!Sec(a) - n)
  <2>1. PICK q \in Int : nsec + Frame!Sec(a) = q * Second
    BY <1>3 DEF FullSecond
  <2>2. (q - k) * Second = q * Second - k * Second /\ q * Second \in Int /\ k * Second \in Int
    BY <1>2
  <2>3. nsec' + (Frame!Sec(a) - n) = q * Second - k * Second
    <3>1. /\ nsec' \in Int /\ nsec \in Int /\ Frame!Sec(a) \in Int
          /\ q * Second \in Int /\ k * Second \in Int
      BY <1>1, <1>2, <1>3, <2>2
    <3>2. \A x, y, u, v, w \in Int : x + y = u /\ x + n = w + v => v + (y - n) = u - w
      OBVIOUS
    <3> QED BY <1>2, <2>1, <3>1, <3>2
  <2>4. q - k \in Int
    BY <1>2
  <2> QED BY <2>2, <2>3, <2>4 DEF FullSecond
<1>5. (nsec' + ((Frame!Sec(a) - n) + Frame!Nsec(a))) % Second = Frame!Nsec(a)
  <2>1. Frame!Sec(a) - n \in Int
    BY <1>3
  <2> QED BY <1>2, <1>3, <1>4, <2>1, SecondIsUnique
<1>6. (Frame!Sec(a) - n) + Frame!Nsec(a) = a - n
  BY <1>3
<1> QED BY <1>5, <1>6

------------------------------------------------------------------------------
(* The device boots with a timer that is not armed. *)
LEMMA TimerInitInv == FramesInit => TimerInv
BY NodeFramesAssumption
   DEF FramesInit, Frame!Init, Frame!Disarmed, Frame!NotStarting,
       TimerInv, TimerType, TimerStates, GridInv, SilenceInv

(* The time that passes, or a step of the clock: what was on the grid      *)
(* stays there, halves are as equal or unequal as they were, and "back"    *)
(* makes up for a step back.                                               *)
LEMMA MovedKeepsInv ==
  ASSUME TimerInv, NEW n \in Int, Frame!Moved(n),
         back' \in Nat,
         target.armed \/ starting # Frame!NotStarting => back' >= back - n
  PROVE  TimerInv'
<1> USE NodeFramesAssumption
<1>1. TimerType'
  <2>1. phase' \in 0 .. Period - 1
    BY QuotientAndRest DEF Frame!Moved, TimerInv, TimerType
  <2>2. nsec' \in 0 .. Second - 1
    <3>1. nsec + n \in Int /\ nsec' = (nsec + n) % Second
      BY DEF Frame!Moved, TimerInv, TimerType
    <3> QED BY <3>1
  <2> QED BY <2>1, <2>2 DEF Frame!Moved, TimerInv, TimerType
<1>2. \A a \in Int : /\ Frame!Sec(a) \in Int /\ Frame!Nsec(a) \in Int
                     /\ a = Frame!Sec(a) + Frame!Nsec(a)
                     /\ (nsec' + (a - n)) % Second = Frame!Nsec(a)
  BY HalvesMove, HalvesOfTime DEF Frame!Moved, TimerInv
<1>3. TimerStates'
  <2>1. starting.done \in {"sec", "nsec", "load"}
          => timer' = [timer EXCEPT !.next = @ - n] /\ timer'.next = timer.next - n
    BY DEF Frame!Moved, Frame!NextMatters, TimerInv, TimerType
  <2>2. ASSUME starting.done = "sec", torn = "no"
        PROVE  Frame!Sec(timer.next)' = Frame!Sec(starting.next)'
    <3>1. timer'.next = timer.next - n /\ starting'.next = starting.next - n
      BY <2>1, <2>2 DEF Frame!Moved, TimerInv, TimerType
    <3>2. Frame!Sec(timer.next) = Frame!Sec(starting.next)
      BY <2>2 DEF TimerInv, TimerStates
    <3>3. timer.next \in Int /\ starting.next \in Int
      BY DEF TimerInv, TimerType
    <3>4. /\ timer.next = Frame!Sec(timer.next) + Frame!Nsec(timer.next)
          /\ (nsec' + (timer.next - n)) % Second = Frame!Nsec(timer.next)
      BY <1>2, <3>3
    <3>5. /\ starting.next = Frame!Sec(starting.next) + Frame!Nsec(starting.next)
          /\ (nsec' + (starting.next - n)) % Second = Frame!Nsec(starting.next)
      BY <1>2, <3>3
    <3>6. /\ Frame!Sec(timer.next)' = timer'.next - ((nsec' + timer'.next) % Second)
          /\ Frame!Sec(starting.next)' = starting'.next - ((nsec' + starting'.next) % Second)
      BY DEF Frame!Sec, Frame!Nsec
    <3>7. Frame!Sec(timer.next) \in Int /\ Frame!Nsec(timer.next) \in Int
              /\ Frame!Nsec(starting.next) \in Int
      BY <1>2, <3>3
    <3> QED BY <3>1, <3>2, <3>3, <3>4, <3>5, <3>6, <3>7
  <2> QED BY <2>1, <2>2 DEF Frame!Moved, Frame!NextMatters, Frame!NotStarting, TimerInv,
          TimerType, TimerStates
<1>4. GridInv'
  <2>1. \A ahead \in Int : Aligned(ahead) => Boundary(phase' + (ahead - n))
    BY AlignedMoves DEF Frame!Moved, TimerInv
  <2>2. Divides' <=> Divides
    BY DEF Divides
  <2> QED
    BY <2>1, <2>2 DEF Frame!Moved, Frame!NextMatters, TimerInv, TimerType, TimerStates, GridInv,
        Aligned
<1>5. SilenceInv'
  <2>1. starting.done # "none" => back' >= back - n
    BY DEF Frame!NotStarting
  <2>2. TornBy' = TornBy /\ Frame!MixedUp' = Frame!MixedUp /\ TornBy \in Nat
            /\ Frame!MixedUp \in Nat
    BY DEF Frame!Moved, TornBy, Frame!MixedUp
  <2>3. starting.done \in {"read", "sec", "load"} => starting'.next = starting.next - n
            /\ starting'.done = starting.done
    BY DEF Frame!Moved, TimerInv, TimerType
  <2>4. starting.done \in {"sec", "nsec", "load"} => timer'.next = timer.next - n
    BY DEF Frame!Moved, Frame!NextMatters, TimerInv, TimerType
  <2>5. timer.next \in Int /\ starting.next \in Int /\ back \in Nat
    BY DEF TimerInv, TimerType
  <2>6. /\ timer.next = Frame!Sec(timer.next) + Frame!Nsec(timer.next)
        /\ (nsec' + (timer.next - n)) % Second = Frame!Nsec(timer.next)
        /\ Frame!Sec(timer.next) \in Int /\ Frame!Nsec(timer.next) \in Int
    BY <1>2, <2>5
  <2>7. /\ starting.next = Frame!Sec(starting.next) + Frame!Nsec(starting.next)
        /\ (nsec' + (starting.next - n)) % Second = Frame!Nsec(starting.next)
        /\ Frame!Sec(starting.next) \in Int /\ Frame!Nsec(starting.next) \in Int
    BY <1>2, <2>5
  <2>8. starting.done \in {"sec", "load"}
          => /\ Frame!Sec(timer.next)' = Frame!Sec(timer.next) - n
             /\ Frame!Sec(starting.next)' = Frame!Sec(starting.next) - n
             /\ Frame!Joined(starting.next, timer.next)' = Frame!Joined(starting.next,
                    timer.next) - n
    <3>1. /\ Frame!Sec(timer.next)' = timer'.next - ((nsec' + timer'.next) % Second)
          /\ Frame!Sec(starting.next)' = starting'.next - ((nsec' + starting'.next) % Second)
          /\ Frame!Joined(starting.next, timer.next)'
               = (starting'.next - ((nsec' + starting'.next) % Second)) + ((nsec' + timer'.next) % Second)
          /\ Frame!Joined(starting.next, timer.next)
                 = Frame!Sec(starting.next) + Frame!Nsec(timer.next)
      BY DEF Frame!Sec, Frame!Nsec, Frame!Joined
    <3> QED BY <2>3, <2>4, <2>5, <2>6, <2>7, <3>1
  <2>9. Frame!Joined(starting.next, timer.next) \in Int
    BY <2>6, <2>7 DEF Frame!Joined
  <2>10. /\ starting'.done = starting.done /\ torn' = torn
         /\ target'.armed = target.armed /\ timer'.running = timer.running
         /\ target.armed => back' >= back - n /\ target'.at = target.at - n /\ target.at \in Int
         /\ timer.running /\ target.armed => timer'.next = timer.next - n
    BY DEF Frame!Moved, Frame!NextMatters, TimerInv, TimerType
  <2> USE <2>1, <2>2, <2>3, <2>4, <2>5, <2>8, <2>9, <2>10 DEF TimerInv
  <2>11. (starting.done = "read" \/ (starting.done = "sec" /\ torn = "no")
            => starting.next <= Period + back)'
    BY DEF SilenceInv
  <2>12. (starting.done = "sec" /\ torn = "next"
            => \/ /\ Frame!Sec(timer.next) <= Frame!Sec(starting.next) + Second
                  /\ starting.next <= Period + back
               \/ timer.next <= Period + back)'
    BY <2>6, <2>7 DEF SilenceInv
  <2>13. (starting.done \in {"nsec", "load"} => timer.next <= Period + back + TornBy)'
    BY DEF SilenceInv
  <2>14. (starting.done = "load"
            => Frame!Joined(starting.next, timer.next) <= Period + back + Frame!MixedUp)'
    BY DEF SilenceInv
  <2>15. (target.armed /\ timer.running /\ starting.done = "none"
            => target.at <= Period + back /\ timer.next <= Period + back)'
    BY DEF SilenceInv
  <2> QED BY <2>11, <2>12, <2>13, <2>14, <2>15 DEF SilenceInv
<1> QED BY <1>1, <1>3, <1>4, <1>5 DEF TimerInv

(* Registering the timer's interrupt, or not. *)
LEMMA HwTimerInitKeepsInv ==
  ASSUME TimerInv, Frame!HwTimerInit \/ Frame!HwTimerInitFails
  PROVE  TimerInv'
<1> USE NodeFramesAssumption DEF TimerInv
<1>1. /\ starting.done = "none" /\ starting' = starting
      /\ timer' = [registered |-> timer'.registered, running |-> FALSE, next |-> 0]
      /\ timer.registered => timer'.registered
      /\ phase' = phase /\ nsec' = nsec /\ target' = target /\ back' = back /\ torn' = torn
  BY DEF Frame!HwTimerInit, Frame!HwTimerInitFails, Frame!Stopped, Frame!NotStarting
<1>2. TimerType' /\ TimerStates'
  BY <1>1 DEF TimerType, TimerStates, Frame!NotStarting
<1>3. GridInv' /\ SilenceInv'
  BY <1>1 DEF TimerType, GridInv, Aligned, Divides, SilenceInv
<1> QED BY <1>2, <1>3

(* The start reads the clock, ... *)
LEMMA ReadClockKeepsInv ==
  ASSUME TimerInv, Frame!ReadClock
  PROVE  TimerInv'
<1> USE NodeFramesAssumption DEF TimerInv
<1>1. /\ starting.done = "none" /\ starting' = [done |-> "read", next |-> Frame!NextBoundary]
      /\ phase' = phase /\ nsec' = nsec /\ timer' = timer /\ target' = target
      /\ back' = 0 /\ torn' = "no"
  BY DEF Frame!ReadClock
<1>2. TimerType' /\ TimerStates'
  BY <1>1, NextIsAligned DEF TimerType, TimerStates, Frame!NotStarting
<1>3. GridInv' /\ SilenceInv'
  BY <1>1, NextIsAligned DEF TimerType, GridInv, Aligned, Divides, SilenceInv
<1> QED BY <1>2, <1>3

(* ... sets the first half of the target, beside the second one of another *)
(* start's, ...                                                            *)
LEMMA SetSecKeepsInv ==
  ASSUME TimerInv, Frame!SetSec
  PROVE  TimerInv'
<1> USE NodeFramesAssumption DEF TimerInv
<1> DEFINE mixed == Frame!Joined(starting.next, timer.next)
<1>1. /\ starting.done = "read" /\ starting' = [done |-> "sec", next |-> starting.next]
      /\ timer' = [registered |-> timer.registered, running |-> timer.running, next |-> mixed]
      /\ phase' = phase /\ nsec' = nsec /\ target' = target
      /\ back' = back /\ torn' = torn
  BY DEF Frame!SetSec, TimerType
<1>2. starting.next \in Int /\ timer.next \in Int
  BY DEF TimerType
<1>3. /\ mixed \in Int
      /\ Frame!Sec(mixed) = Frame!Sec(starting.next)
      /\ Divides /\ Aligned(timer.next) => Aligned(mixed)
  BY <1>2, HalvesOfTwo, JoinedIsAligned
<1> HIDE DEF mixed
<1>4. torn = "no"
  BY <1>1 DEF TimerStates
<1>5. TimerType'
  BY <1>1, <1>2, <1>3, <1>4 DEF TimerType
<1>6. TimerStates'
  <2>1. Frame!Sec(timer.next)' = Frame!Sec(mixed) /\ Frame!Sec(starting.next)'
            = Frame!Sec(starting.next)
    BY <1>1 DEF Frame!Sec, Frame!Nsec
  <2> QED BY <1>1, <1>3, <1>4, <2>1 DEF TimerStates
<1>7. GridInv'
  BY <1>1, <1>2, <1>3, <1>4 DEF GridInv, Aligned, Divides
<1>8. SilenceInv'
  BY <1>1, <1>4 DEF SilenceInv
<1> QED BY <1>5, <1>6, <1>7, <1>8

(* ... and the second half: if an interrupt came between, beside the first *)
(* one of its own target.                                                  *)
LEMMA SetNsecKeepsInv ==
  ASSUME TimerInv, Frame!SetNsec
  PROVE  TimerInv'
<1> USE NodeFramesAssumption DEF TimerInv
<1> DEFINE mixed == Frame!Joined(timer.next, starting.next)
<1>1. /\ starting.done = "sec" /\ starting' = [done |-> "nsec", next |-> 0]
      /\ timer' = [registered |-> timer.registered, running |-> TRUE, next |-> mixed]
      /\ phase' = phase /\ nsec' = nsec /\ target' = target
      /\ back' = back /\ torn' = torn
  BY DEF Frame!SetNsec
<1>2. starting.next \in Int /\ timer.next \in Int /\ back \in Nat
  BY DEF TimerType
<1>3. /\ mixed = Frame!Sec(timer.next) + Frame!Nsec(starting.next) /\ mixed \in Int
      /\ Frame!Sec(timer.next) = Frame!Sec(starting.next) => mixed = starting.next
      /\ Divides => Aligned(mixed)
  BY <1>1, <1>2, HalvesOfTwo, JoinedIsAligned DEF GridInv
<1>4. /\ Frame!Sec(timer.next) \in Int /\ Frame!Nsec(timer.next) \in 0 .. Second - 1
      /\ timer.next = Frame!Sec(timer.next) + Frame!Nsec(timer.next)
  BY <1>2, HalvesOfTime
<1>5. /\ Frame!Sec(starting.next) \in Int /\ Frame!Nsec(starting.next) \in 0 .. Second - 1
      /\ starting.next = Frame!Sec(starting.next) + Frame!Nsec(starting.next)
  BY <1>2, HalvesOfTime
<1>6. torn = "no" => mixed = starting.next
  BY <1>1, <1>3 DEF TimerStates
<1> HIDE DEF mixed
<1>7. mixed <= Period + back + TornBy
  <2>1. CASE torn = "no"
    BY <1>1, <1>2, <1>6, <2>1 DEF SilenceInv, TornBy
  <2>2. CASE torn = "next"
    <3>1. TornBy = Second
      BY <2>2 DEF TornBy
    <3>2. CASE Frame!Sec(timer.next) <= Frame!Sec(starting.next) + Second
              /\ starting.next <= Period + back
      BY <1>2, <1>3, <1>4, <1>5, <3>1, <3>2
    <3>3. CASE timer.next <= Period + back
      BY <1>2, <1>3, <1>4, <1>5, <3>1, <3>3
    <3> QED BY <1>1, <2>2, <3>2, <3>3 DEF SilenceInv
  <2> QED BY <1>1, <2>1, <2>2 DEF TimerStates, TimerType
<1>8. torn \in {"no", "next"} /\ (torn = "no" => Aligned(mixed))
  BY <1>1, <1>6 DEF TimerStates, TimerType, GridInv
<1>9. TimerType' /\ TimerStates'
  BY <1>1, <1>2, <1>3, <1>8 DEF TimerType, TimerStates
<1>10. GridInv'
  BY <1>1, <1>3, <1>8 DEF GridInv, Aligned, Divides
<1>11. SilenceInv'
  BY <1>1, <1>7 DEF SilenceInv, TornBy
<1> QED BY <1>9, <1>10, <1>11

(* It reads the first half of s_timer's target ... *)
LEMMA GetSecKeepsInv ==
  ASSUME TimerInv, Frame!GetSec
  PROVE  TimerInv'
<1> USE NodeFramesAssumption DEF TimerInv
<1>1. /\ starting.done = "nsec" /\ starting' = [done |-> "load", next |-> timer.next]
      /\ phase' = phase /\ nsec' = nsec /\ timer' = timer /\ target' = target
      /\ back' = back /\ torn' = torn
  BY DEF Frame!GetSec
<1>2. timer.next \in Int /\ back \in Nat
  BY DEF TimerType
<1>3. TimerType' /\ TimerStates'
  BY <1>1, <1>2 DEF TimerType, TimerStates
<1>4. GridInv'
  BY <1>1 DEF GridInv, Aligned, Divides
<1>5. SilenceInv'
  <2>1. timer.next <= Period + back + TornBy
    BY <1>1 DEF SilenceInv
  <2>2. Frame!Joined(timer.next, timer.next) = timer.next
    BY <1>2, HalvesOfTwo
  <2>3. TornBy <= Frame!MixedUp /\ TornBy \in Nat /\ Frame!MixedUp \in Nat
    BY DEF TornBy, Frame!MixedUp
  <2>4. Frame!Joined(starting.next, timer.next)' = Frame!Joined(timer.next, timer.next)
    BY <1>1 DEF Frame!Joined, Frame!Sec, Frame!Nsec
  <2>5. TornBy' = TornBy /\ Frame!MixedUp' = Frame!MixedUp
    BY <1>1 DEF TornBy, Frame!MixedUp
  <2>6. timer.next <= Period + back + Frame!MixedUp
    BY <1>2, <2>1, <2>3
  <2>7. starting'.done = "load"
    BY <1>1
  <2> QED BY <1>1, <1>2, <2>1, <2>2, <2>4, <2>5, <2>6, <2>7 DEF SilenceInv
<1> QED BY <1>3, <1>4, <1>5

(* ... and hands it over with the second one, the timer may be stopped     *)
(* again.                                                                  *)
LEMMA HandOverKeepsInv ==
  ASSUME TimerInv, Frame!SetTarget \/ Frame!SetTargetAndStop
  PROVE  TimerInv'
<1> USE NodeFramesAssumption DEF TimerInv
<1> DEFINE handed == Frame!Joined(starting.next, timer.next)
<1>1. /\ starting.done = "load" /\ starting' = Frame!NotStarting
      /\ target' = IF timer.registered THEN [armed |-> TRUE, at |-> handed] ELSE target
      /\ phase' = phase /\ nsec' = nsec /\ torn' = torn
      /\ back' = back + Frame!MixedUp
  BY DEF Frame!SetTarget, Frame!SetTargetAndStop, Frame!HandOver
<1>2. \/ timer' = timer /\ timer.registered
      \/ /\ ~timer.registered
         /\ timer' = [registered |-> timer.registered, running |-> timer.running, next |-> 0]
      \/ timer' = [registered |-> timer.registered, running |-> FALSE, next |-> 0]
  BY DEF Frame!SetTarget, Frame!SetTargetAndStop, Frame!Stopped, TimerType
<1>3. starting.next \in Int /\ timer.next \in Int /\ back \in Nat
  BY DEF TimerType
<1>4. /\ handed \in Int
      /\ starting.next = timer.next => handed = timer.next
      /\ Divides /\ Aligned(timer.next) => Aligned(handed)
  BY <1>3, HalvesOfTwo, JoinedIsAligned
<1>5. /\ TornBy <= Frame!MixedUp /\ TornBy \in Nat /\ Frame!MixedUp \in Nat
      /\ timer.next <= Period + back + TornBy
      /\ handed <= Period + back + Frame!MixedUp
  BY <1>1 DEF SilenceInv, TornBy, Frame!MixedUp
<1>6. /\ Divides \/ torn # "next" => Aligned(timer.next)
      /\ torn = "no" => starting.next = timer.next
      /\ target.armed => timer.registered
  BY <1>1 DEF GridInv, TimerStates
<1> HIDE DEF handed
<1>7. TimerType'
  <2>1. target' = [armed |-> target'.armed, at |-> target'.at] /\ target'.at \in Int
    BY <1>1, <1>4 DEF TimerType
  <2>2. /\ timer' = [registered |-> timer'.registered, running |-> timer'.running,
                     next |-> timer'.next]
        /\ timer'.next \in Int
    BY <1>2, <1>3 DEF TimerType
  <2>3. starting' \in [done : {"none", "read", "sec", "nsec", "load"}, next : Int]
    BY <1>1 DEF Frame!NotStarting
  <2> QED BY <1>1, <1>3, <1>5, <2>1, <2>2, <2>3 DEF TimerType
<1>8. TimerStates'
  <2>1. timer'.registered = timer.registered
    BY <1>2
  <2> QED BY <1>1, <1>6, <2>1 DEF TimerStates, Frame!NotStarting
<1>9. /\ Divides \/ torn = "no" => Aligned(handed)
      /\ handed <= Period + back' /\ timer.next <= Period + back'
  BY <1>1, <1>3, <1>4, <1>5, <1>6
<1>10. GridInv'
  BY <1>1, <1>2, <1>6, <1>9 DEF GridInv, Aligned, Divides, Frame!NotStarting
<1>11. SilenceInv'
  BY <1>1, <1>2, <1>6, <1>9 DEF SilenceInv, Frame!NotStarting
<1> QED BY <1>7, <1>8, <1>10, <1>11

(* The next target of an interrupt is on the grid, and no more than a      *)
(* period after this one, or after now.                                    *)
LEMMA RearmedIsNext ==
  ASSUME TimerType, NEW next \in Int
  PROVE  /\ Frame!Rearmed(next) \in Int
         /\ Frame!Rearmed(next) >= next
         /\ \/ next + Period > 0 /\ Frame!Rearmed(next) = next + Period
            \/ next + Period <= 0 /\ Frame!Rearmed(next) <= Period /\ Aligned(Frame!Rearmed(next))
         /\ next <= 0 => Frame!Rearmed(next) <= Period
         /\ Aligned(next) => Aligned(Frame!Rearmed(next))
<1>1. CASE next + Period > 0
  BY <1>1, NextIsAligned, NodeFramesAssumption DEF Frame!Rearmed
<1>2. CASE ~(next + Period > 0)
  BY <1>2, NextIsAligned, NodeFramesAssumption DEF Frame!Rearmed
<1> QED BY <1>1, <1>2

(* "back" counts from the last interrupt, unless a start is under way. *)
LEMMA SinceIsrBounds ==
  ASSUME TimerInv, timer.running, Frame!Due
  PROVE  /\ Frame!SinceIsr \in Nat
         /\ starting.done = "read" => Frame!SinceIsr = back
         /\ starting.done # "read" /\ target.at # timer.next => Frame!SinceIsr = back + Period
<1>1. CASE starting.done = "read"
  BY <1>1 DEF Frame!SinceIsr, TimerInv, TimerType
<1>2. CASE starting.done # "read" /\ target.at # timer.next
  <2>1. Frame!SinceIsr = back + Period
    BY <1>2 DEF Frame!SinceIsr
  <2> QED BY <1>2, <2>1, NodeFramesAssumption DEF TimerInv, TimerType
<1>3. CASE starting.done # "read" /\ target.at = timer.next
  BY <1>3 DEF Frame!SinceIsr
<1> QED BY <1>1, <1>2, <1>3

(* The interrupt of a timer that runs ... *)
LEMMA IsrKeepsInv ==
  ASSUME TimerInv, Frame!Isr
  PROVE  TimerInv'
<1> USE NodeFramesAssumption DEF TimerInv
<1> DEFINE next == timer.next
           rearmed == Frame!Rearmed(next)
<1>1. /\ target.armed /\ target.at <= 0 /\ timer.running
      /\ phase' = phase /\ nsec' = nsec /\ starting' = starting
      /\ back' = Frame!SinceIsr /\ torn' = Frame!TornByIsr
    BY DEF Frame!Isr, Frame!Due
<1>2. /\ timer' = [registered |-> timer.registered, running |-> timer.running, next |-> rearmed]
      /\ target' = [armed |-> TRUE, at |-> rearmed]
  BY DEF Frame!Isr, TimerType
<1>3. /\ next \in Int /\ starting.next \in Int /\ target.at \in Int
      /\ back \in Nat /\ torn \in {"no", "target", "next"}
      /\ starting.done \in {"none", "read", "sec", "nsec", "load"}
  BY DEF TimerType
<1>4. /\ rearmed \in Int /\ rearmed >= next
      /\ next <= 0 => rearmed <= Period
      /\ \/ next + Period > 0 /\ rearmed = next + Period
         \/ next + Period <= 0 /\ rearmed <= Period /\ Aligned(rearmed)
      /\ Aligned(next) => Aligned(rearmed)
  BY <1>3, RearmedIsNext
<1>5. /\ back' \in Nat
      /\ starting.done = "read" => back' = back
      /\ starting.done # "read" /\ target.at # next => back' = back + Period
  BY <1>1, SinceIsrBounds DEF Frame!Isr
<1>6. /\ torn' \in {"no", "target", "next"}
      /\ starting.done = "read" => torn' = "no"
      /\ starting.done = "sec" => torn' = "next"
      /\ starting.done = "nsec" => torn' # "target"
      /\ starting.done = "load" => torn' # "no"
      /\ torn = "next" /\ next + Period > 0 => torn' = "next"
  BY <1>1 DEF Frame!TornByIsr, TimerStates
<1> HIDE DEF next, rearmed
<1>7. TimerType'
  BY <1>1, <1>2, <1>3, <1>4, <1>5, <1>6 DEF TimerType
<1>8. TimerStates'
  <2>1. starting.done = "load" => starting.next <= next
    BY DEF TimerStates, next
  <2>2. (target.armed => timer.registered) /\ (starting.done = "none" => starting
            = Frame!NotStarting)
    BY DEF TimerStates
  <2> QED BY <1>1, <1>2, <1>3, <1>4, <1>6, <2>1, <2>2 DEF TimerStates, Frame!NotStarting
<1>9. GridInv'
  <2>1. Divides => Aligned(rearmed)
    BY <1>1, <1>4 DEF GridInv, next
  <2>2. starting.done \in {"none", "nsec", "load"} /\ torn' # "next" => Aligned(rearmed)
    <3>1. CASE torn = "next"
      BY <1>4, <1>6, <3>1
    <3>2. CASE torn # "next"
      BY <1>1, <1>4, <3>2 DEF GridInv, next
    <3> QED BY <3>1, <3>2
  <2>3. starting.done \in {"read", "sec"} => Aligned(starting.next)
    BY DEF GridInv
  <2> QED BY <1>1, <1>2, <1>3, <2>1, <2>2, <2>3 DEF GridInv, Aligned, Divides
<1>10. SilenceInv'
  <2>1. CASE starting.done = "read"
    <3>1. starting'.next <= Period + back' /\ starting'.done = "read"
      BY <1>1, <1>5, <2>1 DEF SilenceInv
    <3> QED BY <3>1 DEF SilenceInv
  <2>2. CASE starting.done = "sec"
    <3>1. \/ /\ Frame!Sec(rearmed) <= Frame!Sec(starting.next) + Second
             /\ starting.next <= Period + back'
          \/ rearmed <= Period + back'
      <4>1. CASE target.at = next \/ next + Period <= 0
        BY <1>1, <1>3, <1>4, <1>5, <4>1
      <4>2. CASE target.at # next /\ next + Period > 0
        <5>1. torn = "no"
          BY <1>1, <1>3, <2>2, <4>2 DEF TimerStates, next
        <5>2. Frame!Sec(next) = Frame!Sec(starting.next) /\ starting.next <= Period + back
          BY <2>2, <5>1 DEF TimerStates, SilenceInv, next
        <5>3. Frame!Sec(rearmed) <= Frame!Sec(next) + Second
          BY <1>3, <1>4, <4>2, SecondsGrow
        <5> QED BY <1>3, <1>5, <2>2, <4>2, <5>2, <5>3
      <4> QED BY <4>1, <4>2, <1>3
    <3>2. Frame!Sec(timer.next)' = Frame!Sec(rearmed) /\ Frame!Sec(starting.next)'
              = Frame!Sec(starting.next)
      BY <1>1, <1>2 DEF Frame!Sec, Frame!Nsec
    <3>3. starting'.done = "sec" /\ torn' = "next" /\ timer'.next = rearmed /\ starting'.next
              = starting.next
      BY <1>1, <1>2, <1>6, <2>2
    <3> QED BY <3>1, <3>2, <3>3 DEF SilenceInv
  <2>3. CASE starting.done \in {"none", "nsec", "load"}
    <3>1. rearmed <= Period + back' + TornBy'
      <4>1. ASSUME NEW by \in Nat, next + Period > 0 => TornBy <= by
            PROVE  rearmed <= Period + back' + by
        <5>1. CASE rearmed <= Period
          <6>1. \A b \in Nat : rearmed <= Period + b + by
            BY <1>4, <5>1
          <6> QED BY <1>5, <6>1
        <5>2. CASE target.at # next /\ next + Period > 0
          <6>1. next <= Period + back + TornBy /\ TornBy \in Nat
            BY <1>1, <1>3, <2>3 DEF SilenceInv, TornBy, next
          <6>2. back' = back + Period /\ rearmed = next + Period
            BY <1>3, <1>4, <1>5, <2>3, <5>2
          <6> QED BY <1>3, <4>1, <5>2, <6>1, <6>2
        <5> QED BY <1>1, <1>3, <1>4, <5>1, <5>2
      <4>2. TornBy' \in Nat /\ (next + Period > 0 => TornBy <= TornBy')
        BY <1>6 DEF TornBy
      <4> QED BY <4>1, <4>2
    <3>2. starting.done = "none" => rearmed <= Period + back'
      <4>1. CASE target.at = next
        BY <1>1, <1>3, <1>4, <1>5, <4>1
      <4>2. CASE target.at # next /\ starting.done = "none"
        <5>1. next <= Period + back
          BY <1>1, <4>2 DEF SilenceInv, next
        <5>2. back' = back + Period
          BY <1>5, <4>2
        <5>3. rearmed <= next + Period \/ rearmed <= Period
          BY <1>3, <1>4
        <5> QED BY <1>3, <1>4, <5>1, <5>2, <5>3
      <4> QED BY <4>1, <4>2
    <3>3. starting.done = "load" => Frame!Joined(starting.next, rearmed) <= Period + back' + Second
      <4> SUFFICES ASSUME starting.done = "load"
                   PROVE  Frame!Joined(starting.next, rearmed) <= Period + back' + Second
        OBVIOUS
      <4>1. starting.next <= next
        BY DEF TimerStates, next
      <4>2. /\ Frame!Joined(starting.next, rearmed) = Frame!Sec(starting.next) + Frame!Nsec(rearmed)
            /\ Frame!Nsec(rearmed) \in 0 .. Second - 1
            /\ starting.next = Frame!Sec(starting.next) + Frame!Nsec(starting.next)
            /\ Frame!Nsec(starting.next) \in 0 .. Second - 1 /\ Frame!Sec(starting.next) \in Int
        BY <1>3, <1>4, HalvesOfTime, HalvesOfTwo
      <4>3. CASE next <= 0
        BY <1>3, <1>5, <4>1, <4>2, <4>3
      <4>4. CASE next > 0
        <5>1. back' = back + Period /\ rearmed = next + Period
          BY <1>1, <1>3, <1>4, <1>5, <4>4
        <5>2. Frame!Nsec(rearmed) <= Frame!Nsec(next) + Period
                  /\ Frame!Nsec(next) \in 0 .. Second - 1
          BY <1>3, <5>1, SecondsGrow, HalvesOfTime
        <5>3. Frame!Joined(starting.next, next) = Frame!Sec(starting.next) + Frame!Nsec(next)
          BY <1>3, HalvesOfTwo
        <5>4. Frame!Joined(starting.next, next) <= Period + back + Second
          <6>1. Frame!Joined(starting.next, next) <= Period + back + Frame!MixedUp
            BY DEF SilenceInv, next
          <6>2. Frame!MixedUp \in {0, Second}
            BY DEF Frame!MixedUp
          <6> QED BY <1>3, <4>2, <5>2, <5>3, <6>1, <6>2
        <5> QED BY <1>3, <4>2, <5>1, <5>2, <5>3, <5>4
      <4> QED BY <1>3, <4>3, <4>4
    <3>4. Frame!Joined(starting.next, timer.next)' = Frame!Joined(starting.next, rearmed)
      BY <1>1, <1>2 DEF Frame!Joined, Frame!Sec, Frame!Nsec
    <3>5. starting.done = "load" => Frame!MixedUp' = Second
      BY <1>6 DEF Frame!MixedUp
    <3>6. /\ starting'.done = starting.done /\ starting'.next = starting.next
          /\ timer'.next = rearmed /\ target'.at = rearmed
      BY <1>1, <1>2
    <3> QED BY <2>3, <3>1, <3>2, <3>3, <3>4, <3>5, <3>6 DEF SilenceInv, TornBy
  <2> QED BY <1>3, <2>1, <2>2, <2>3
<1> QED BY <1>7, <1>8, <1>9, <1>10

(* ... and of one that was stopped with its target still set. *)
LEMMA IsrStoppedKeepsInv ==
  ASSUME TimerInv, Frame!IsrStopped
  PROVE  TimerInv'
<1> USE NodeFramesAssumption DEF TimerInv
<1>1. /\ ~timer.running /\ timer' = timer /\ target' = [armed |-> FALSE, at |-> 0]
      /\ phase' = phase /\ nsec' = nsec /\ starting' = starting /\ torn' = torn
  BY DEF Frame!IsrStopped, Frame!Disarmed
<1>2. back' \in Nat /\ (starting.done \in {"read", "sec"} => back' = back)
  BY <1>1 DEF Frame!IsrStopped, Frame!SinceIsr, TimerType
<1>3. starting.done \notin {"nsec", "load"}
  BY <1>1 DEF TimerStates
<1>4. TimerType'
  BY <1>1, <1>2 DEF TimerType
<1>5. TimerStates'
  <2>1. /\ Frame!Sec(timer.next)' = Frame!Sec(timer.next)
        /\ Frame!Sec(starting.next)' = Frame!Sec(starting.next)
    BY <1>1 DEF Frame!Sec, Frame!Nsec
  <2> QED BY <1>1, <1>3, <2>1 DEF TimerStates, Frame!NotStarting
<1>6. GridInv'
  BY <1>1, <1>3 DEF GridInv, Aligned, Divides
<1>7. SilenceInv'
  <2>1. /\ Frame!Sec(timer.next)' = Frame!Sec(timer.next)
        /\ Frame!Sec(starting.next)' = Frame!Sec(starting.next)
    BY <1>1 DEF Frame!Sec, Frame!Nsec
  <2> QED BY <1>1, <1>2, <1>3, <2>1 DEF SilenceInv
<1> QED BY <1>4, <1>5, <1>6, <1>7

(* Every step of the timer keeps the invariant. *)
LEMMA TimerNextInv == TimerInv /\ [Frame!Next]_timerVars => TimerInv'
<1> SUFFICES ASSUME TimerInv, [Frame!Next]_timerVars
             PROVE  TimerInv'
  OBVIOUS
<1>1. CASE Frame!Boot
  BY <1>1, NodeFramesAssumption
     DEF Frame!Boot, Frame!Disarmed, Frame!NotStarting, TimerInv, TimerType, TimerStates,
         GridInv, SilenceInv
<1>2. CASE Frame!Advance
  <2>1. Frame!Moved(1) /\ back' = back /\ back \in Nat
    BY <1>2 DEF Frame!Advance, TimerInv, TimerType
  <2> QED BY <2>1, MovedKeepsInv
<1>3. ASSUME NEW n \in Jumps, Frame!StepClock(n)
      PROVE  TimerInv'
  <2>1. n \in Int /\ back \in Nat /\ Frame!Moved(n)
    BY <1>3, NodeFramesAssumption DEF Frame!StepClock, TimerInv, TimerType
  <2>2. /\ back' \in Nat
        /\ target.armed \/ starting # Frame!NotStarting => back' >= back - n
    BY <1>3, <2>1 DEF Frame!StepClock
  <2> QED BY <2>1, <2>2, MovedKeepsInv
<1>4. CASE UNCHANGED timerVars
  BY <1>4 DEF timerVars, TimerInv, TimerType, TimerStates, GridInv, SilenceInv, Aligned,
     Divides, TornBy, Frame!MixedUp, Frame!Joined, Frame!Sec, Frame!Nsec
<1> QED
  BY <1>1, <1>2, <1>3, <1>4, HwTimerInitKeepsInv, ReadClockKeepsInv, SetSecKeepsInv,
     SetNsecKeepsInv, GetSecKeepsInv, HandOverKeepsInv, IsrKeepsInv, IsrStoppedKeepsInv
     DEF Frame!Next

(* The states of the timer in the life of a node. *)
THEOREM TimerInvariant == FramesSpec => []TimerInv
<1>1. TimerInv /\ [FramesNext]_allVars => TimerInv'
  BY StepsOfTimer, TimerNextInv
<1> QED BY <1>1, TimerInitInv, PTL DEF FramesSpec

(* Every frame is due on a multiple of the period of the PTP clock,        *)
(* whatever the clock is stepped by and whenever the node is stopped,      *)
(* destroyed, made and started again: for every period that divides a      *)
(* second at any time, for every other period outside a start, unless an   *)
(* interrupt of the node before came into the last start and left the      *)
(* target with the halves of two times.                                    *)
THEOREM FramesStayOnGrid == FramesSpec => []OnGrid
<1>1. TimerInv => OnGrid
  BY DEF TimerInv, GridInv, OnGrid, Frame!OnGrid, Frame!NotStarting, Aligned, Boundary, Divides
<1> QED BY <1>1, TimerInvariant, PTL

(* Outside a start the next frame is never further away than a period and  *)
(* what the clock was stepped back since the last one, and if an interrupt *)
(* of the node before came into the start, than a period more, which is    *)
(* the frame that is skipped, or a second if it left the target with the   *)
(* halves of two times.                                                    *)
THEOREM SilenceStaysBounded == FramesSpec => []SilenceIsBounded
<1>1. TimerInv => SilenceIsBounded
  BY DEF TimerInv, SilenceInv, SilenceIsBounded, Frame!SilenceIsBounded, Frame!NotStarting
<1> QED BY <1>1, TimerInvariant, PTL

(* What the node does to its frame timer implements the timer alone. *)
THEOREM NodeImplementsTimer == FramesSpec => Frame!Spec
<1>1. FramesInit => Frame!Init
  BY DEF FramesInit
<1>2. [FramesNext]_allVars => [Frame!Next]_(Frame!vars)
  BY StepsOfTimer DEF timerVars, Frame!vars
<1> QED BY <1>1, <1>2, PTL DEF FramesSpec, Frame!Spec
------------------------------------------------------------------------------
(* What a call is to have made or started before it gets to a part, and    *)
(* what it has left to stop or to free there.                              *)
Chain == {"ptp", "rtp", "sap", "audio"}

MadeBefore(at) ==
  CASE at = "ptp"     -> {}
    [] at = "rtp"     -> {"ptp"}
    [] at = "sap"     -> {"ptp", "rtp"}
    [] at = "audio"   -> {"ptp", "rtp", "sap"}
    [] at = "session" -> Chain
    [] at = "node"    -> Chain \cup {"session"}

StartedBefore(at) ==
  CASE at = "ptp"                -> {}
    [] at \in {"monitor", "rtp"} -> {"ptp"}
    [] at = "sap"                -> {"ptp", "rtp"}
    [] at \in {"sap_tx", "audio"} -> {"ptp", "rtp", "sap"}
    [] at = "node"               -> Chain

LeftToStop(at) ==
  CASE at = "audio" -> Chain
    [] at = "sap"   -> {"ptp", "rtp", "sap"}
    [] at = "rtp"   -> {"ptp", "rtp"}
    [] at = "ptp"   -> {"ptp"}
    [] at = "node"  -> {}

LeftToFree(at) ==
  CASE at = "session" -> Chain \cup {"session"}
    [] at # "session" -> LeftToStop(at)

(* What is read of the variables is what they are made of. *)
LifeType ==
  /\ sap_enabled \in BOOLEAN
  /\ call = [op |-> call.op, at |-> call.at, waiting |-> call.waiting, timer |-> call.timer]
  /\ call.op \in {"none", "init", "start", "undo", "stop", "destroy", "free"}
  /\ call.waiting \in BOOLEAN /\ call.timer \in Nat
  /\ sockets = [rtp |-> sockets.rtp, sap |-> sockets.sap]

(* What exists and what runs is decided by where the call under way is:    *)
(* between two calls all of a node or none of it, ...                      *)
IdleInv ==
  call.op = "none" =>
    /\ call = NoCall
    /\ exists \in {{}, Whole} /\ running \in {{}, Whole \ {"session"}}
    /\ (exists = {} => running = {})
(* ... in an init what was made so far, ... *)
InitInv ==
  call.op = "init" =>
    /\ call.at \in Parts /\ ~call.waiting
    /\ exists = MadeBefore(call.at) \cap Whole /\ running = {}
(* ... in a start what was started so far, without what its own failure    *)
(* has stopped already, ...                                                *)
StartInv ==
  call.op = "start" =>
    /\ call.at \in Chain \cup {"monitor", "sap_tx", "node"}
    /\ (call.at \in {"sap", "sap_tx"} => sap_enabled)
    /\ (call.waiting => call.at = "sap_tx")
    /\ exists = Whole
    /\ running = (StartedBefore(call.at) \cap Whole) \ (IF call.waiting THEN {"sap"} ELSE {})
(* ... in a stop, however it came about, what is left to stop, ... *)
StopInv ==
  call.op \in {"undo", "stop", "destroy"} =>
    /\ call.at \in Chain \cup {"node"}
    /\ (call.waiting => call.at \in Whole \ {"node"})
    /\ exists = Whole
    /\ running \ {"node"}
           = (LeftToStop(call.at) \cap Whole) \ (IF call.waiting THEN {call.at} ELSE {})
    /\ (call.op = "undo" => "node" \notin running)
(* ... and while the contexts are freed, what is left to free: the node's  *)
(* own may not be there, if it was the init that failed.                   *)
FreeInv ==
  call.op = "free" =>
    /\ call.at \in Parts /\ running = {} /\ ~call.waiting
    /\ exists \ {"node"} = LeftToFree(call.at) \cap Whole

CallInv == IdleInv /\ InitInv /\ StartInv /\ StopInv /\ FreeInv

(* The socket of RTP lives as long as its context; the one of SAP also     *)
(* through the wait of a stop, or of a failed start.                       *)
SocketInv ==
  /\ sockets.rtp = IF "rtp" \in exists THEN 1 ELSE 0
  /\ sockets.sap = IF "sap" \in running \/ (call.waiting /\ call.at \in {"sap",
         "sap_tx"}) THEN 1 ELSE 0

LifeInv == LifeType /\ CallInv /\ SocketInv

(* A context has all that was allocated beside it; what outlives its       *)
(* context is never freed.                                                 *)
HeldInv ==
  /\ \A part \in exists : Objects(part) \subseteq held
  /\ \A x \in held : x \in NeverFreed \/ \E part \in exists : x \in Objects(part)

(* The call, when it goes on and when it is at a part. *)
LEMMA Going ==
  ASSUME NEW op, NEW at, GoTo(op, at)
  PROVE  call' = [op |-> op, at |-> at, waiting |-> FALSE, timer |-> 0]
BY Zenon DEF GoTo, NoCall

LEMMA Being ==
  ASSUME NEW op, NEW at, In(op, at)
  PROVE  call = [op |-> op, at |-> at, waiting |-> FALSE, timer |-> 0]
BY Zenon DEF In, NoCall

(* The call, when it begins to wait. *)
LEMMA Waiting ==
  ASSUME NEW c, NEW d, NEW op, NEW at, NEW old, NEW time,
         c = [op |-> op, at |-> at, waiting |-> FALSE, timer |-> old],
         d = [c EXCEPT !.waiting = TRUE, !.timer = time]
  PROVE  d = [op |-> op, at |-> at, waiting |-> TRUE, timer |-> time]
BY Zenon

(* The device boots with nothing made. *)
LEMMA BootLife ==
  ASSUME sap_enabled = FALSE, exists = {}, running = {}, call = NoCall,
         sockets = [rtp |-> 0, sap |-> 0]
  PROVE  LifeInv
<1>1. call.op = "none" /\ call.waiting = FALSE
  BY DEF NoCall
<1>2. LifeType
  BY DEF NoCall, LifeType
<1>3. CallInv
  BY <1>1 DEF CallInv, IdleInv, InitInv, StartInv, StopInv, FreeInv
<1>4. SocketInv
  BY <1>1 DEF SocketInv
<1> QED BY <1>2, <1>3, <1>4 DEF LifeInv

(* The steps of an init. *)
LEMMA MadeStep ==
  ASSUME LifeInv, InitPtp \/ InitRtp \/ InitSap \/ InitAudio \/ InitSession \/ InitNode
  PROVE  LifeInv'
<1> USE DEF LifeInv, LifeType
<1>1. ASSUME NEW part, NEW next, Made(part, next), part \in Parts, next \in Parts,
             MadeBefore(next) = MadeBefore(part) \cup {part},
             sockets'.rtp = IF part = "rtp" THEN 1 ELSE sockets.rtp,
             sockets' = [rtp |-> sockets'.rtp, sap |-> sockets.sap]
      PROVE  LifeInv'
  <2>1. call = [op |-> "init", at |-> part, waiting |-> FALSE, timer |-> 0]
    BY <1>1, Being DEF Made
  <2>2. call' = [op |-> "init", at |-> next, waiting |-> FALSE, timer |-> 0]
    BY <1>1, Going DEF Made, Parts
  <2>3. /\ sap_enabled' = sap_enabled /\ running' = running /\ Whole' = Whole
        /\ exists' = IF Wanted(part) THEN exists \cup {part} ELSE exists
    BY <1>1 DEF Made, Whole, Wanted
  <2>4. exists' = MadeBefore(next) \cap Whole /\ running' = {}
    BY <1>1, <2>1, <2>3 DEF CallInv, InitInv, Whole, Wanted
  <2>5. CallInv'
    BY <1>1, <2>2, <2>3, <2>4 DEF CallInv, IdleInv, InitInv, StartInv, StopInv, FreeInv
  <2>6. SocketInv'
    BY <1>1, <2>1, <2>2, <2>3, <2>4 DEF SocketInv, Wanted
  <2> QED BY <1>1, <2>2, <2>3, <2>5, <2>6
<1>2. /\ {"ptp", "rtp", "sap", "audio", "session", "node"} = Parts
      /\ MadeBefore("rtp") = MadeBefore("ptp") \cup {"ptp"}
      /\ MadeBefore("sap") = MadeBefore("rtp") \cup {"rtp"}
      /\ MadeBefore("audio") = MadeBefore("sap") \cup {"sap"}
      /\ MadeBefore("session") = MadeBefore("audio") \cup {"audio"}
      /\ MadeBefore("node") = MadeBefore("session") \cup {"session"}
  BY DEF Parts, MadeBefore, Chain
<1>3. CASE InitPtp
  BY <1>1, <1>2, <1>3 DEF InitPtp
<1>4. CASE InitRtp
  <2>1. sockets.rtp = 0
    <3>1. call = [op |-> "init", at |-> "rtp", waiting |-> FALSE, timer |-> 0]
      BY <1>4, Being DEF InitRtp, Made
    <3> QED BY <3>1 DEF CallInv, InitInv, SocketInv, MadeBefore
  <2>2. sockets' = [rtp |-> 1, sap |-> sockets.sap]
    BY <1>4, <2>1 DEF InitRtp
  <2> QED BY <1>1, <1>2, <1>4, <2>2 DEF InitRtp
<1>5. CASE InitSap
  BY <1>1, <1>2, <1>5 DEF InitSap
<1>6. CASE InitAudio
  BY <1>1, <1>2, <1>6 DEF InitAudio
<1>7. CASE InitSession
  BY <1>1, <1>2, <1>7 DEF InitSession
<1>8. CASE InitNode
  <2>1. call = [op |-> "init", at |-> "node", waiting |-> FALSE, timer |-> 0]
    BY <1>8, Being DEF InitNode, Made
  <2>2. /\ call' = NoCall /\ sap_enabled' = sap_enabled /\ running' = running /\ Whole' = Whole
        /\ exists' = exists \cup {"node"} /\ sockets' = sockets
    BY <1>8 DEF InitNode, Made, Whole, Wanted
  <2>3. exists' = Whole /\ running' = {}
    BY <2>1, <2>2 DEF CallInv, InitInv, MadeBefore, Whole, Wanted, Parts, Chain
  <2>4. CallInv'
    BY <2>2, <2>3 DEF CallInv, IdleInv, InitInv, StartInv, StopInv, FreeInv, NoCall, Whole,
                      Parts, Wanted
  <2>5. SocketInv' /\ LifeType'
    BY <2>1, <2>2, <2>3 DEF SocketInv, NoCall
  <2> QED BY <2>2, <2>4, <2>5
<1> QED BY <1>3, <1>4, <1>5, <1>6, <1>7, <1>8

(* A call begins between two calls. *)
LEMMA BeginSteps ==
  ASSUME LifeInv, (\E sap \in BOOLEAN : InitBegin(sap)) \/ StartBegin \/ StopBegin \/ DestroyBegin
  PROVE  LifeInv'
<1> USE DEF LifeInv, LifeType
<1>1. /\ call = NoCall /\ call.op = "none" /\ ~call.waiting
      /\ exists \in {{}, Whole} /\ running \in {{}, Whole \ {"session"}}
      /\ (exists = {} => running = {})
      /\ {"node", "ptp", "rtp", "audio", "session"} \subseteq Whole
  BY DEF InitBegin, StartBegin, StopBegin, DestroyBegin, Idle, NoCall, CallInv, IdleInv, Whole,
         Parts,
     Wanted
<1>2. ASSUME NEW sap \in BOOLEAN, InitBegin(sap)
      PROVE  LifeInv'
  <2>1. /\ exists = {} /\ running = {} /\ sap_enabled' = sap
        /\ call' = [op |-> "init", at |-> "ptp", waiting |-> FALSE, timer |-> 0]
        /\ exists' = exists /\ running' = running /\ sockets' = sockets
    BY <1>1, <1>2, Going DEF InitBegin
  <2>2. CallInv'
    BY <2>1 DEF CallInv, IdleInv, InitInv, StartInv, StopInv, FreeInv, MadeBefore, Parts
  <2>3. SocketInv'
    BY <1>1, <2>1 DEF SocketInv
  <2> QED BY <2>1, <2>2, <2>3
<1>3. CASE StartBegin
  <2>1. /\ exists = Whole /\ running = {} /\ sap_enabled' = sap_enabled
        /\ call' = [op |-> "start", at |-> "ptp", waiting |-> FALSE, timer |-> 0]
        /\ exists' = exists /\ running' = running /\ sockets' = sockets /\ Whole' = Whole
    BY <1>1, <1>3, Going DEF StartBegin, Whole, Wanted
  <2>2. CallInv'
    BY <2>1 DEF CallInv, IdleInv, InitInv, StartInv, StopInv, FreeInv, StartedBefore, Chain
  <2>3. SocketInv'
    BY <1>1, <2>1 DEF SocketInv
  <2> QED BY <2>1, <2>2, <2>3
<1>4. ASSUME StopBegin \/ DestroyBegin, NEW op \in {"stop", "destroy"}, "node" \in running,
             GoTo(op, "audio")
      PROVE  LifeInv'
  <2>1. /\ exists = Whole /\ running = Whole \ {"session"} /\ sap_enabled' = sap_enabled
        /\ call' = [op |-> op, at |-> "audio", waiting |-> FALSE, timer |-> 0]
        /\ exists' = exists /\ running' = running /\ sockets' = sockets /\ Whole' = Whole
    BY <1>1, <1>4, Going DEF StopBegin, DestroyBegin, Whole, Wanted
  <2>2. running \ {"node"} = LeftToStop("audio") \cap Whole
    BY <2>1 DEF LeftToStop, Chain, Whole, Parts
  <2>3. CallInv'
    BY <2>1, <2>2 DEF CallInv, IdleInv, InitInv, StartInv, StopInv, FreeInv, Chain
  <2>4. SocketInv'
    BY <1>1, <2>1 DEF SocketInv
  <2> QED BY <2>1, <2>3, <2>4
<1>5. CASE DestroyBegin /\ "node" \notin running
  <2>1. /\ exists = Whole /\ running = {} /\ sap_enabled' = sap_enabled
        /\ call' = [op |-> "free", at |-> "session", waiting |-> FALSE, timer |-> 0]
        /\ exists' = exists /\ running' = running /\ sockets' = sockets /\ Whole' = Whole
    BY <1>1, <1>5, Going DEF DestroyBegin, Whole, Wanted
  <2>2. exists \ {"node"} = LeftToFree("session") \cap Whole
    BY <2>1 DEF LeftToFree, Chain, Whole, Parts
  <2>3. CallInv'
    BY <2>1, <2>2 DEF CallInv, IdleInv, InitInv, StartInv, StopInv, FreeInv, Parts
  <2>4. SocketInv'
    BY <1>1, <2>1 DEF SocketInv
  <2> QED BY <2>1, <2>3, <2>4
<1> QED BY <1>2, <1>3, <1>4, <1>5 DEF StopBegin, DestroyBegin

(* What a step of a start needs to know of the state it begins in. *)
LEMMA InStart ==
  ASSUME LifeInv, NEW at, In("start", at)
  PROVE  /\ call = [op |-> "start", at |-> at, waiting |-> FALSE, timer |-> 0]
         /\ call.op = "start" /\ call.at = at /\ ~call.waiting
         /\ exists = Whole /\ running = StartedBefore(at) \cap Whole
         /\ (at \in {"sap", "sap_tx"} => sap_enabled)
         /\ "ptp" \in Whole /\ "rtp" \in Whole /\ "audio" \in Whole /\ "node" \in Whole
         /\ (sap_enabled <=> "sap" \in Whole)
<1>1. call = [op |-> "start", at |-> at, waiting |-> FALSE, timer |-> 0]
  BY Being
<1>2. call.op = "start" /\ call.at = at /\ call.waiting = FALSE
  BY <1>1
<1> QED BY <1>1, <1>2 DEF LifeInv, LifeType, CallInv, StartInv, Whole, Wanted, Parts

(* A start goes on with its next part. *)
LEMMA Started ==
  ASSUME LifeInv, NEW at, In("start", at), NEW next, GoTo("start", next),
         next \in Chain \cup {"monitor", "sap_tx", "node"},
         (next \in {"sap", "sap_tx"} => sap_enabled),
         sap_enabled' = sap_enabled, exists' = exists,
         running' = StartedBefore(next) \cap Whole,
         sockets' = [rtp |-> sockets.rtp, sap |-> IF "sap" \in running' THEN 1 ELSE 0]
  PROVE  LifeInv'
<1> USE DEF LifeInv, LifeType
<1>1. call' = [op |-> "start", at |-> next, waiting |-> FALSE, timer |-> 0]
  BY Going
<1>2. Whole' = Whole /\ exists' = Whole'
  BY InStart DEF Whole, Wanted
<1>3. CallInv'
  BY <1>1, <1>2 DEF CallInv, IdleInv, InitInv, StartInv, StopInv, FreeInv
<1>4. SocketInv'
  BY <1>1 DEF SocketInv
<1> QED BY <1>1, <1>3, <1>4

(* The steps of a start ... *)
LEMMA StartSteps ==
  ASSUME LifeInv, StartDaemon \/ StartMonitor \/ StartRtp \/ StartSap \/ StartSapTx \/ StartAudio
  PROVE  LifeInv'
<1> USE DEF Chain
<1>1. CASE StartDaemon
  <2>1. running' = StartedBefore("monitor") \cap Whole
    /\ sockets' = [rtp |-> sockets.rtp, sap |-> 0]
    BY <1>1, InStart DEF StartDaemon, StartedBefore, LifeInv, LifeType, SocketInv
  <2> QED BY <1>1, <2>1, Started DEF StartDaemon, StartedBefore
<1>2. CASE StartMonitor
  <2>1. running' = StartedBefore("rtp") \cap Whole /\ sockets' = [rtp |-> sockets.rtp, sap |-> 0]
    BY <1>2, InStart DEF StartMonitor, StartedBefore, LifeInv, LifeType, SocketInv
  <2> QED BY <1>2, <2>1, Started DEF StartMonitor, StartedBefore
<1>3. CASE StartRtp
  <2>1. /\ sockets' = [rtp |-> sockets.rtp, sap |-> 0]
        /\ running' = {"ptp", "rtp"} /\ "sap" \notin running'
    BY <1>3, InStart DEF StartRtp, StartedBefore, LifeInv, LifeType, SocketInv
  <2>2. running' = StartedBefore("sap") \cap Whole
    BY <1>3, <2>1, InStart DEF StartRtp, StartedBefore
  <2>3. ~sap_enabled => running' = StartedBefore("audio") \cap Whole
    BY <1>3, <2>1, InStart DEF StartRtp, StartedBefore
  <2> QED BY <1>3, <2>1, <2>2, <2>3, Started DEF StartRtp
<1>4. CASE StartSap
  <2>1. running' = StartedBefore("sap_tx") \cap Whole
    /\ sockets' = [rtp |-> sockets.rtp, sap |-> 1]
    BY <1>4, InStart DEF StartSap, StartedBefore, LifeInv, LifeType, SocketInv
  <2>2. "sap" \in running' /\ sap_enabled
    BY <1>4, InStart DEF StartSap
  <2> QED BY <1>4, <2>1, <2>2, Started DEF StartSap
<1>5. CASE StartSapTx
  <2>1. running' = StartedBefore("audio") \cap Whole
    /\ sockets' = [rtp |-> sockets.rtp, sap |-> 1]
    BY <1>5, InStart DEF StartSapTx, StartedBefore, LifeInv, LifeType, SocketInv
  <2>2. "sap" \in running'
    BY <1>5, InStart DEF StartSapTx, StartedBefore
  <2> QED BY <1>5, <2>1, <2>2, Started DEF StartSapTx
<1>6. CASE StartAudio
  <2>1. running' = StartedBefore("node") \cap Whole
    BY <1>6, InStart DEF StartAudio, StartedBefore
  <2>2. sockets' = [rtp |-> sockets.rtp, sap |-> IF "sap" \in running' THEN 1 ELSE 0]
    BY <1>6, InStart DEF StartAudio, StartedBefore, LifeInv, LifeType, SocketInv
  <2> QED BY <1>6, <2>1, <2>2, Started DEF StartAudio
<1> QED BY <1>1, <1>2, <1>3, <1>4, <1>5, <1>6

(* ... its end, good or bad, ... *)
LEMMA StartEnds ==
  ASSUME LifeInv, StartRefused \/ MonitorFails \/ StartNode
  PROVE  LifeInv'
<1> USE DEF LifeInv, LifeType
<1>1. ASSUME call' = NoCall, exists' = exists, sap_enabled' = sap_enabled, exists = Whole,
             running' \in {{}, Whole \ {"session"}},
             sockets' = [rtp |-> sockets.rtp, sap |-> IF "sap" \in running' THEN 1 ELSE 0]
      PROVE  LifeInv'
  <2>1. call' = [op |-> "none", at |-> "none", waiting |-> FALSE, timer |-> 0]
    BY <1>1 DEF NoCall
  <2>2. Whole' = Whole /\ exists' # {} /\ NoCall' = NoCall
    BY <1>1 DEF Whole, Wanted, Parts, NoCall
  <2>3. CallInv'
    BY <1>1, <2>1, <2>2 DEF CallInv, IdleInv, InitInv, StartInv, StopInv, FreeInv
  <2>4. SocketInv'
    BY <1>1, <2>1 DEF SocketInv
  <2> QED BY <1>1, <2>1, <2>3, <2>4
<1>2. CASE StartRefused
  <2>1. running' = {} /\ sockets' = [rtp |-> sockets.rtp, sap |-> 0]
    BY <1>2, InStart DEF StartRefused, StartedBefore, SocketInv
  <2> QED BY <1>1, <1>2, <2>1, InStart DEF StartRefused
<1>3. CASE MonitorFails
  <2>1. running' = {} /\ sockets' = [rtp |-> sockets.rtp, sap |-> 0]
    BY <1>3, InStart DEF MonitorFails, StartedBefore, SocketInv
  <2> QED BY <1>1, <1>3, <2>1, InStart DEF MonitorFails
<1>4. CASE StartNode
  <2>1. running' = Whole \ {"session"}
    BY <1>4, InStart DEF StartNode, StartedBefore, Chain, Whole, Parts, Wanted
  <2>2. sockets' = [rtp |-> sockets.rtp, sap |-> IF "sap" \in running' THEN 1 ELSE 0]
    BY <1>4, InStart DEF StartNode, SocketInv
  <2> QED BY <1>1, <1>4, <2>1, <2>2, InStart DEF StartNode
<1> QED BY <1>2, <1>3, <1>4

(* What is undone, stopped or destroyed goes on with a part that was not   *)
(* stopped yet.                                                            *)
LEMMA StopGoesOn ==
  ASSUME LifeInv, NEW op \in {"undo", "stop", "destroy"}, NEW at \in Chain \cup {"node"},
         GoTo(op, at),
         sap_enabled' = sap_enabled, exists' = exists, exists = Whole,
         running' \ {"node"} = LeftToStop(at) \cap Whole,
         op = "undo" => "node" \notin running',
         sockets' = [rtp |-> sockets.rtp, sap |-> IF "sap" \in running' THEN 1 ELSE 0]
  PROVE  LifeInv'
<1> USE DEF LifeInv, LifeType
<1>1. call' = [op |-> op, at |-> at, waiting |-> FALSE, timer |-> 0]
  BY Going
<1>2. Whole' = Whole
  BY DEF Whole, Wanted
<1>3. CallInv'
  BY <1>1, <1>2 DEF CallInv, IdleInv, InitInv, StartInv, StopInv, FreeInv
<1>4. SocketInv'
  BY <1>1 DEF SocketInv
<1> QED BY <1>1, <1>3, <1>4

(* ... and the failures that have something to undo. *)
LEMMA StartFails ==
  ASSUME LifeInv, RtpFails \/ SapFails \/ SapTxFails \/ SapUndo \/ AudioFails
  PROVE  LifeInv'
<1> USE DEF LifeInv, LifeType
<1>1. CASE RtpFails
  <2>1. running' = {"ptp"} /\ sockets' = [rtp |-> sockets.rtp, sap |-> 0]
    BY <1>1, InStart DEF RtpFails, StartedBefore, SocketInv
  <2>2. running' \ {"node"} = LeftToStop("ptp") \cap Whole
    BY <1>1, <2>1, InStart DEF RtpFails, LeftToStop
  <2> QED BY <1>1, <2>1, <2>2, InStart, StopGoesOn DEF RtpFails, UndoFrom, Chain
<1>2. CASE SapFails
  <2>1. running' = {"ptp", "rtp"} /\ sockets' = [rtp |-> sockets.rtp, sap |-> 0]
    BY <1>2, InStart DEF SapFails, StartedBefore, SocketInv
  <2>2. running' \ {"node"} = LeftToStop("rtp") \cap Whole
    BY <1>2, <2>1, InStart DEF SapFails, LeftToStop
  <2> QED BY <1>2, <2>1, <2>2, InStart, StopGoesOn DEF SapFails, UndoFrom, Chain
<1>3. CASE AudioFails
  <2>1. running' = {"ptp", "rtp", "sap"} \cap Whole /\ running' = running
    BY <1>3, InStart DEF AudioFails, StartedBefore
  <2>2. sockets' = [rtp |-> sockets.rtp, sap |-> IF "sap" \in running' THEN 1 ELSE 0]
    BY <1>3, <2>1, InStart DEF AudioFails, SocketInv
  <2>3. running' \ {"node"} = LeftToStop("sap") \cap Whole /\ "node" \notin running'
    BY <1>3, <2>1, InStart DEF LeftToStop
  <2> QED BY <1>3, <2>1, <2>2, <2>3, InStart, StopGoesOn DEF AudioFails, UndoFrom, Chain
<1>4. CASE SapTxFails
  <2>1. /\ call = [op |-> "start", at |-> "sap_tx", waiting |-> FALSE, timer |-> 0]
        /\ sap_enabled /\ exists = Whole /\ running = {"ptp", "rtp", "sap"}
    BY <1>4, InStart DEF SapTxFails, StartedBefore
  <2>2. /\ call' = [op |-> "start", at |-> "sap_tx", waiting |-> TRUE, timer |-> SapUndoWait]
        /\ running' = {"ptp", "rtp"} /\ sockets' = sockets /\ sap_enabled' = sap_enabled
        /\ exists' = exists /\ Whole' = Whole
    <3>1. call' = [op |-> "start", at |-> "sap_tx", waiting |-> TRUE, timer |-> SapUndoWait]
      BY <1>4, <2>1, Waiting, Zenon DEF SapTxFails
    <3> QED BY <1>4, <2>1, <3>1 DEF SapTxFails, Whole, Wanted
  <2>3. sockets.sap = 1
    BY <2>1 DEF SocketInv
  <2>4. CallInv'
    BY <2>1, <2>2, InStart, <1>4
       DEF CallInv, IdleInv, InitInv, StartInv, StopInv, FreeInv, StartedBefore, SapTxFails, Chain
  <2>5. SocketInv'
    BY <2>2, <2>3, <2>1 DEF SocketInv
  <2> QED BY <2>2, <2>4, <2>5, NodeLifeAssumption
<1>5. CASE SapUndo
  <2>1. /\ call.op = "start" /\ call.at = "sap_tx" /\ call.waiting = TRUE
        /\ sockets' = [rtp |-> sockets.rtp, sap |-> sockets.sap - 1]
    BY <1>5 DEF SapUndo
  <2>2. /\ exists = Whole /\ running = ({"ptp", "rtp", "sap"} \cap Whole) \ {"sap"}
        /\ sockets.sap = 1
    BY <2>1 DEF CallInv, StartInv, StartedBefore, SocketInv
  <2>3. running \ {"node"} = LeftToStop("rtp") \cap Whole /\ "node" \notin running
                                                          /\ "sap" \notin running
    BY <2>2 DEF LeftToStop
  <2> QED BY <1>5, <2>1, <2>2, <2>3, StopGoesOn DEF SapUndo, UndoFrom, Chain
<1> QED BY <1>1, <1>2, <1>3, <1>4, <1>5

(* What a step of a stop needs to know of the state it begins in. *)
LEMMA InStop ==
  ASSUME LifeInv, NEW part, Stopping(part)
  PROVE  /\ call.op \in {"undo", "stop", "destroy"} /\ call.at = part
         /\ part \in Chain \cup {"node"} /\ exists = Whole
         /\ (call.waiting => part \in Whole \ {"node"})
         /\ running \ {"node"}
                = (LeftToStop(part) \cap Whole) \ (IF call.waiting THEN {part} ELSE {})
         /\ (call.op = "undo" => "node" \notin running)
         /\ "ptp" \in Whole /\ "rtp" \in Whole /\ "audio" \in Whole /\ "node" \in Whole
BY DEF Stopping, LifeInv, CallInv, StopInv, Whole, Parts, Wanted

(* The steps of a stop, ... *)
LEMMA StopSteps ==
  ASSUME LifeInv,
         \/ \E part \in DOMAIN Stopped : StopFlag(part) \/ StopSkip(part)
         \/ StopAudio \/ StopSap \/ StopRtp \/ StopPtp
  PROVE  LifeInv'
<1> USE DEF LifeInv, LifeType
<1>0. /\ DOMAIN Stopped = Chain
      /\ Stopped["audio"] = "sap" /\ Stopped["sap"] = "rtp" /\ Stopped["rtp"] = "ptp"
      /\ Stopped["ptp"] = "node"
  BY DEF Stopped, Chain
<1>1. ASSUME NEW part \in Chain
      PROVE  /\ Stopped[part] \in Chain \cup {"node"}
             /\ LeftToStop(Stopped[part]) = LeftToStop(part) \ {part}
             /\ part \in LeftToStop(part) /\ part # "node"
  BY <1>0 DEF LeftToStop, Chain
<1>2. ASSUME NEW part \in Chain, StopFlag(part)
      PROVE  LifeInv'
  <2>1. /\ call.op \in {"undo", "stop", "destroy"} /\ call.at = part /\ call.waiting = FALSE
        /\ exists = Whole /\ running \ {"node"} = LeftToStop(part) \cap Whole
        /\ part \in running /\ part \in Whole /\ part # "node"
        /\ (call.op = "undo" => "node" \notin running)
    BY <1>1, <1>2, InStop DEF StopFlag
  <2>2. call' = [op |-> call.op, at |-> part, waiting |-> TRUE, timer |-> Waits[part]]
    <3>1. call' = [call EXCEPT !.waiting = TRUE, !.timer = Waits[part]]
      BY <1>2 DEF StopFlag
    <3>2. call = [op |-> call.op, at |-> part, waiting |-> FALSE, timer |-> call.timer]
      BY <2>1
    <3> DEFINE op == call.op
               old == call.timer
    <3>3. call = [op |-> op, at |-> part, waiting |-> FALSE, timer |-> old]
      BY <3>2
    <3> HIDE DEF op, old
    <3>4. call' = [op |-> op, at |-> part, waiting |-> TRUE, timer |-> Waits[part]]
      BY <3>1, <3>3, Waiting, Zenon
    <3> QED BY <3>4 DEF op
  <2>3. /\ running' = running \ {part} /\ sockets' = sockets /\ sap_enabled' = sap_enabled
        /\ exists' = exists /\ Whole' = Whole
    BY <1>2 DEF StopFlag, Whole, Wanted
  <2>4. Waits[part] \in Nat
    BY NodeLifeAssumption DEF Chain
  <2>5. running' \ {"node"} = (LeftToStop(part) \cap Whole) \ {part}
    BY <2>1, <2>3
  <2>6. CallInv'
    BY <2>1, <2>2, <2>3, <2>5 DEF CallInv, IdleInv, InitInv, StartInv, StopInv, FreeInv
  <2>7. SocketInv'
    BY <2>1, <2>2, <2>3 DEF SocketInv, Chain
  <2> QED BY <2>1, <2>2, <2>3, <2>4, <2>6, <2>7
<1>3. ASSUME NEW part \in Chain, StopSkip(part)
      PROVE  LifeInv'
  <2>1. running \ {"node"} = LeftToStop(Stopped[part]) \cap Whole
    BY <1>1, <1>3, InStop DEF StopSkip
  <2>2. sockets' = [rtp |-> sockets.rtp, sap |-> IF "sap" \in running' THEN 1 ELSE 0]
    BY <1>3, InStop DEF StopSkip, SocketInv
  <2> QED BY <1>1, <1>3, <2>1, <2>2, InStop, StopGoesOn DEF StopSkip
<1>4. ASSUME NEW part \in Chain, StopPart(part),
             sockets' = [rtp |-> sockets.rtp, sap |-> IF part
                 = "sap" THEN sockets.sap - 1 ELSE sockets.sap]
      PROVE  LifeInv'
  <2>1. running \ {"node"} = LeftToStop(Stopped[part]) \cap Whole /\ part \notin running
    BY <1>1, <1>4, InStop DEF StopPart
  <2>2. running' = running /\ sockets' = [rtp |-> sockets.rtp,
            sap |-> IF "sap" \in running' THEN 1 ELSE 0]
    BY <1>4, <2>1, InStop DEF StopPart, SocketInv, Chain
  <2> QED BY <1>1, <1>4, <2>1, <2>2, InStop, StopGoesOn DEF StopPart
<1>5. CASE StopAudio \/ StopSap \/ StopRtp \/ StopPtp
  BY <1>4, <1>5 DEF StopAudio, StopSap, StopRtp, StopPtp, Chain
<1> QED BY <1>0, <1>2, <1>3, <1>5

(* ... and its end, or the beginning of freeing. *)
LEMMA StopEnds ==
  ASSUME LifeInv, StopEnd
  PROVE  LifeInv'
<1> USE DEF LifeInv, LifeType
<1>1. /\ call.op \in {"undo", "stop", "destroy"} /\ call.at = "node" /\ ~call.waiting
      /\ exists = Whole /\ running \ {"node"} = {} /\ Whole # {}
  BY InStop DEF StopEnd, LeftToStop
<1>2. /\ running' = {} /\ exists' = exists /\ Whole' = Whole /\ sap_enabled' = sap_enabled
      /\ sockets' = sockets
  BY <1>1 DEF StopEnd, Whole, Wanted
<1>3. sockets.sap = 0
  BY <1>1 DEF SocketInv
<1>4. CASE call.op = "destroy"
  <2>1. call' = [op |-> "free", at |-> "session", waiting |-> FALSE, timer |-> 0]
    BY <1>4, Going DEF StopEnd
  <2>2. exists \ {"node"} = LeftToFree("session") \cap Whole
    BY <1>1 DEF LeftToFree, Chain, Whole, Parts
  <2>3. CallInv'
    BY <1>2, <2>1, <2>2 DEF CallInv, IdleInv, InitInv, StartInv, StopInv, FreeInv, Parts
  <2> QED BY <1>2, <1>3, <2>1, <2>3 DEF SocketInv
<1>5. CASE call.op # "destroy"
  <2>1. call' = NoCall /\ NoCall' = NoCall
        /\ call' = [op |-> "none", at |-> "none", waiting |-> FALSE, timer |-> 0]
    BY <1>5 DEF StopEnd, NoCall
  <2>2. CallInv'
    BY <1>1, <1>2, <2>1 DEF CallInv, IdleInv, InitInv, StartInv, StopInv, FreeInv
  <2> QED BY <1>2, <1>3, <2>1, <2>2 DEF SocketInv
<1> QED BY <1>4, <1>5

(* The contexts are freed one after the other, from where the call that    *)
(* failed had got.                                                         *)
LEMMA FreeGoesOn ==
  ASSUME LifeInv, NEW at \in Parts, GoTo("free", at),
         sap_enabled' = sap_enabled, running' = {},
         exists' \ {"node"} = LeftToFree(at) \cap Whole,
         sockets' = [rtp |-> IF "rtp" \in exists' THEN 1 ELSE 0, sap |-> 0]
  PROVE  LifeInv'
<1> USE DEF LifeInv, LifeType
<1>1. call' = [op |-> "free", at |-> at, waiting |-> FALSE, timer |-> 0]
  BY Going
<1>2. Whole' = Whole
  BY DEF Whole, Wanted
<1>3. CallInv'
  BY <1>1, <1>2 DEF CallInv, IdleInv, InitInv, StartInv, StopInv, FreeInv
<1>4. SocketInv'
  BY <1>1 DEF SocketInv
<1> QED BY <1>1, <1>3, <1>4

(* An init that fails frees what it had made, and only that. *)
LEMMA InitFailsStep ==
  ASSUME LifeInv, NEW part \in Parts, InitFails(part)
  PROVE  LifeInv'
<1> USE DEF LifeInv, LifeType
<1>1. call = [op |-> "init", at |-> part, waiting |-> FALSE, timer |-> 0]
  BY Being DEF InitFails
<1>2. /\ exists = MadeBefore(part) \cap Whole /\ running = {}
      /\ (part = "sap" => sap_enabled)
  BY <1>1 DEF CallInv, InitInv, InitFails, Wanted
<1>3. sockets = [rtp |-> IF "rtp" \in exists THEN 1 ELSE 0, sap |-> 0]
  BY <1>1, <1>2 DEF SocketInv
<1>4. Label(part) \in Parts /\ exists \ {"node"} = LeftToFree(Label(part)) \cap Whole
  <2>1. CASE part = "ptp"
    BY <1>2, <2>1 DEF Label, Parts, MadeBefore, LeftToFree, LeftToStop
  <2>2. CASE part = "rtp"
    BY <1>2, <2>2 DEF Label, Parts, MadeBefore, LeftToFree, LeftToStop
  <2>3. CASE part = "sap"
    BY <1>2, <2>3 DEF Label, Parts, MadeBefore, LeftToFree, LeftToStop
  <2>4. CASE part = "audio"
    BY <1>2, <2>4 DEF Label, Parts, MadeBefore, LeftToFree, LeftToStop
  <2>5. CASE part = "session"
    BY <1>2, <2>5 DEF Label, Parts, MadeBefore, LeftToFree, LeftToStop, Chain
  <2>6. CASE part = "node"
    BY <1>2, <2>6 DEF Label, Parts, MadeBefore, LeftToFree, LeftToStop, Chain
  <2> QED BY <2>1, <2>2, <2>3, <2>4, <2>5, <2>6 DEF Parts
<1> QED BY <1>2, <1>3, <1>4, FreeGoesOn DEF InitFails

(* The steps of freeing. *)
LEMMA DestroySteps ==
  ASSUME LifeInv,
         DestroySession \/ DestroyAudio \/ DestroySap \/ DestroyRtp \/ DestroyPtp \/ DestroyNode
  PROVE  LifeInv'
<1> USE DEF LifeInv, LifeType
<1>1. ASSUME NEW part \in Parts, NEW next \in Parts \cup {"none"}, Destroy(part, next)
      PROVE  /\ call = [op |-> "free", at |-> part, waiting |-> FALSE, timer |-> 0]
             /\ running = {} /\ running' = {} /\ sap_enabled' = sap_enabled
             /\ exists \ {"node"} = LeftToFree(part) \cap Whole
             /\ exists' = exists \ {part}
             /\ sockets = [rtp |-> IF "rtp" \in exists THEN 1 ELSE 0, sap |-> 0]
  <2>1. call = [op |-> "free", at |-> part, waiting |-> FALSE, timer |-> 0]
    BY <1>1, Being DEF Destroy
  <2> QED BY <1>1, <2>1 DEF Destroy, CallInv, FreeInv, SocketInv
<1>2. ASSUME NEW part \in Parts, NEW next \in Parts, Destroy(part, next), part # "rtp",
             next # "none",
             LeftToFree(next) = LeftToFree(part) \ {part}, part # "node", sockets' = sockets
      PROVE  LifeInv'
  <2>1. exists' \ {"node"} = LeftToFree(next) \cap Whole
    BY <1>1, <1>2
  <2>2. sockets' = [rtp |-> IF "rtp" \in exists' THEN 1 ELSE 0, sap |-> 0]
    BY <1>1, <1>2
  <2>3. GoTo("free", next) /\ running' = {} /\ sap_enabled' = sap_enabled
    BY <1>1, <1>2 DEF Destroy
  <2> QED BY <2>1, <2>2, <2>3, FreeGoesOn
<1>3. CASE DestroySession \/ DestroyAudio \/ DestroySap \/ DestroyPtp
  <2>1. /\ LeftToFree("audio") = LeftToFree("session") \ {"session"}
        /\ LeftToFree("sap") = LeftToFree("audio") \ {"audio"}
        /\ LeftToFree("rtp") = LeftToFree("sap") \ {"sap"}
        /\ LeftToFree("node") = LeftToFree("ptp") \ {"ptp"}
    BY DEF LeftToFree, LeftToStop, Chain
  <2> QED
    BY <1>2, <1>3, <2>1 DEF DestroySession, DestroyAudio, DestroySap, DestroyPtp, Parts
<1>4. CASE DestroyRtp
  <2>1. /\ running' = {} /\ sap_enabled' = sap_enabled /\ GoTo("free", "ptp")
        /\ exists \ {"node"} = {"ptp", "rtp"} \cap Whole /\ exists' = exists \ {"rtp"}
        /\ sockets = [rtp |-> IF "rtp" \in exists THEN 1 ELSE 0, sap |-> 0]
    BY <1>1, <1>4 DEF DestroyRtp, Destroy, Parts, LeftToFree, LeftToStop
  <2>2. exists' \ {"node"} = LeftToFree("ptp") \cap Whole /\ "rtp" \in exists
    BY <2>1 DEF LeftToFree, LeftToStop, Whole, Parts, Wanted
  <2>3. sockets' = [rtp |-> IF "rtp" \in exists' THEN 1 ELSE 0, sap |-> 0]
    BY <1>4, <2>1, <2>2 DEF DestroyRtp
  <2> QED BY <2>1, <2>2, <2>3, FreeGoesOn DEF Parts
<1>5. CASE DestroyNode
  <2>1. /\ running' = {} /\ sap_enabled' = sap_enabled /\ call' = NoCall
        /\ exists \ {"node"} = {} /\ exists' = exists \ {"node"}
        /\ sockets = [rtp |-> IF "rtp" \in exists THEN 1 ELSE 0, sap |-> 0]
        /\ sockets' = sockets
    BY <1>1, <1>5 DEF DestroyNode, Destroy, Parts, LeftToFree, LeftToStop
  <2>2. exists' = {} /\ sockets' = [rtp |-> 0, sap |-> 0]
    BY <2>1
  <2>3. call' = [op |-> "none", at |-> "none", waiting |-> FALSE, timer |-> 0] /\ NoCall' = NoCall
    BY <2>1 DEF NoCall
  <2>4. CallInv' /\ SocketInv'
    BY <2>1, <2>2, <2>3 DEF CallInv, IdleInv, InitInv, StartInv, StopInv, FreeInv, SocketInv
  <2> QED BY <2>1, <2>2, <2>3, <2>4
<1> QED BY <1>3, <1>4, <1>5

(* Nothing is left of the calls when the device boots. *)
LEMMA RebootStep ==
  ASSUME Reboot
  PROVE  LifeInv'
<1>1. NoCall' = NoCall
  BY DEF NoCall
<1>2. /\ call' = [op |-> "none", at |-> "none", waiting |-> FALSE, timer |-> 0]
      /\ exists' = {} /\ running' = {} /\ sockets' = [rtp |-> 0, sap |-> 0]
      /\ sap_enabled' = FALSE
  BY DEF Reboot, NoCall
<1>3. LifeType'
  BY <1>2 DEF LifeType
<1>4. CallInv' /\ SocketInv'
  BY <1>1, <1>2 DEF Reboot, CallInv, IdleInv, InitInv, StartInv, StopInv, FreeInv, SocketInv
<1> QED BY <1>3, <1>4 DEF LifeInv

(* The tasks and the daemon touch none of it, ... *)
LEMMA LifeUnchanged ==
  ASSUME LifeInv, UNCHANGED <<sap_enabled, exists, running, call, sockets>>
  PROVE  LifeInv'
<1>1. Whole' = Whole /\ NoCall' = NoCall
  BY DEF Whole, Wanted, NoCall
<1>2. CallInv'
  BY <1>1 DEF LifeInv, CallInv, IdleInv, InitInv, StartInv, StopInv, FreeInv
<1> QED BY <1>2 DEF LifeInv, LifeType, SocketInv

(* ... and time only what is left to wait. *)
LEMMA TickStep ==
  ASSUME LifeInv, Tick
  PROVE  LifeInv'
<1> USE DEF LifeInv, LifeType
<1>1. call' = [op |-> call.op, at |-> call.at, waiting |-> call.waiting,
          timer |-> Earlier(call.timer)]
  BY DEF Tick
<1>2. /\ call'.op = call.op /\ call'.at = call.at /\ call'.waiting = call.waiting
      /\ call'.timer \in Nat
      /\ UNCHANGED <<sap_enabled, exists, running, sockets>> /\ Whole' = Whole /\ NoCall' = NoCall
  BY <1>1 DEF Tick, Earlier, Whole, Wanted, NoCall
<1>3. call = NoCall => call' = NoCall
  BY <1>1 DEF NoCall, Earlier
<1>4. CallInv'
  BY <1>2, <1>3 DEF CallInv, IdleInv, InitInv, StartInv, StopInv, FreeInv
<1>5. SocketInv'
  BY <1>2 DEF SocketInv
<1> QED BY <1>1, <1>2, <1>4, <1>5

(* Every step keeps the invariant of the calls. *)
LEMMA NextLife == LifeInv /\ ([Next]_vars \/ Reboot) => LifeInv'
<1> SUFFICES ASSUME LifeInv, [Next]_vars \/ Reboot
             PROVE  LifeInv'
  OBVIOUS
<1>1. ASSUME CallStep
      PROVE  LifeInv'
  BY <1>1, MadeStep, StartSteps, StartEnds, StartFails, StopSteps, StopEnds, DestroySteps
     DEF CallStep
<1>2. ASSUME Failure
      PROVE  LifeInv'
  <2>1. CASE DaemonFails
    BY <2>1, LifeUnchanged DEF DaemonFails
  <2>2. CASE CrashStale \/ CrashNull
    BY <2>2, RebootStep DEF CrashStale, CrashNull
  <2> QED BY <1>2, <2>1, <2>2, InitFailsStep, StartEnds, StartFails DEF Failure
<1>3. ASSUME (\E t \in BagToSet(tasks) : Look(t)) \/ LeaveStale \/ DaemonUp \/ DaemonExit
                                                  \/ UNCHANGED vars
      PROVE  LifeInv'
  BY <1>3, LifeUnchanged DEF Look, LeaveStale, DaemonUp, DaemonExit, vars
<1> QED BY <1>1, <1>2, <1>3, BeginSteps, TickStep, RebootStep DEF Next

(* What is allocated beside the contexts, when a part is made or not, ... *)
LEMMA MakingKeepsHeld ==
  ASSUME HeldInv, NEW part, NEW next, Made(part, next) \/ InitFails(part)
  PROVE  HeldInv'
<1>1. CASE Made(part, next)
  <2>1. /\ exists' = IF Wanted(part) THEN exists \cup {part} ELSE exists
        /\ held' = held \cup Objects(part)
    BY <1>1 DEF Made
  <2>2. ~Wanted(part) => Objects(part) = {}
    BY DEF Wanted, Objects
  <2> QED BY <2>1, <2>2 DEF HeldInv
<1>2. CASE InitFails(part)
  <2>1. PICK left \in LeftBy(part) : held' = held \cup left
    BY <1>2 DEF InitFails
  <2>2. left \subseteq NeverFreed
    BY DEF LeftBy, NeverFreed
  <2> QED BY <1>2, <2>1, <2>2 DEF InitFails, HeldInv
<1> QED BY <1>1, <1>2

(* ... and when it is destroyed. *)
LEMMA DestroyingKeepsHeld ==
  ASSUME HeldInv, NEW part, NEW next, Destroy(part, next)
  PROVE  HeldInv'
<1>1. exists' = exists \ {part} /\ held' = held \ (Objects(part) \cap Freed)
  BY DEF Destroy
<1>2. ASSUME NEW other \in exists', NEW x \in Objects(other)
      PROVE  x \in held'
  <2>1. x \in held /\ other # part
    BY <1>1, <1>2 DEF HeldInv
  <2>2. x \notin Objects(part)
    BY <1>2, <2>1 DEF Objects
  <2> QED BY <1>1, <2>1, <2>2
<1>3. ASSUME NEW x \in held', x \notin NeverFreed
      PROVE  \E other \in exists' : x \in Objects(other)
  <2>1. PICK other \in exists : x \in Objects(other)
    BY <1>1, <1>3 DEF HeldInv
  <2>2. Objects(part) \subseteq Freed \cup NeverFreed
    BY DEF Objects, Freed, NeverFreed
  <2>3. other # part
    BY <1>1, <1>3, <2>1, <2>2
  <2> QED BY <1>1, <2>1, <2>3
<1> QED BY <1>2, <1>3 DEF HeldInv

(* Every step keeps it. *)
LEMMA NextHeld == HeldInv /\ ([Next]_vars \/ Reboot) => HeldInv'
<1> SUFFICES ASSUME HeldInv, [Next]_vars \/ Reboot
             PROVE  HeldInv'
  OBVIOUS
<1>1. ASSUME exists' = {}, held' = {}
      PROVE  HeldInv'
  BY <1>1 DEF HeldInv
<1>2. ASSUME UNCHANGED <<exists, held>>
      PROVE  HeldInv'
  BY <1>2 DEF HeldInv
<1>3. ASSUME CallStep
      PROVE  HeldInv'
  <2>1. CASE InitPtp \/ InitRtp \/ InitSap \/ InitAudio \/ InitSession \/ InitNode
    BY <2>1, MakingKeepsHeld DEF InitPtp, InitRtp, InitSap, InitAudio, InitSession, InitNode
  <2>2. CASE \/ DestroySession \/ DestroyAudio \/ DestroySap \/ DestroyRtp \/ DestroyPtp
             \/ DestroyNode
    BY <2>2, DestroyingKeepsHeld DEF DestroySession, DestroyAudio, DestroySap, DestroyRtp,
       DestroyPtp, DestroyNode
  <2>3. CASE StartDaemon \/ StartRefused \/ StartMonitor \/ StartRtp \/ StartSap \/ StartSapTx
    BY <1>2, <2>3 DEF StartDaemon, StartRefused, StartMonitor, StartRtp, StartSap, StartSapTx
  <2>4. CASE \/ SapUndo \/ StartAudio \/ StartNode
             \/ \E part \in DOMAIN Stopped : StopFlag(part) \/ StopSkip(part)
    BY <1>2, <2>4 DEF SapUndo, StartAudio, StartNode, StopFlag, StopSkip
  <2>5. CASE StopAudio \/ StopSap \/ StopRtp \/ StopPtp \/ StopEnd
    BY <1>2, <2>5 DEF StopAudio, StopSap, StopRtp, StopPtp, StopPart, StopEnd
  <2> QED BY <1>3, <2>1, <2>2, <2>3, <2>4, <2>5 DEF CallStep
<1>4. ASSUME Failure
      PROVE  HeldInv'
  <2>1. CASE \E part \in Parts : InitFails(part)
    BY <2>1, MakingKeepsHeld
  <2>2. CASE MonitorFails \/ RtpFails \/ SapFails \/ SapTxFails \/ AudioFails \/ DaemonFails
    BY <1>2, <2>2 DEF MonitorFails, RtpFails, SapFails, SapTxFails, AudioFails, DaemonFails
  <2>3. CASE CrashStale \/ CrashNull
    BY <1>1, <2>3 DEF CrashStale, CrashNull, Reboot
  <2> QED BY <1>4, <2>1, <2>2, <2>3 DEF Failure
<1>5. ASSUME (\E sap \in BOOLEAN : InitBegin(sap)) \/ Reboot
      PROVE  HeldInv'
  BY <1>1, <1>5 DEF InitBegin, Reboot
<1>6. ASSUME \/ StartBegin \/ StopBegin \/ DestroyBegin
             \/ (\E t \in BagToSet(tasks) : Look(t)) \/ LeaveStale \/ DaemonUp \/ DaemonExit
             \/ Tick \/ UNCHANGED vars
      PROVE  HeldInv'
  BY <1>2, <1>6 DEF StartBegin, StopBegin, DestroyBegin, Look, LeaveStale, DaemonUp, DaemonExit,
     Tick, vars
<1> QED BY <1>3, <1>4, <1>5, <1>6 DEF Next

------------------------------------------------------------------------------
(* What the code chooses: the receiving and the announcing task look at    *)
(* their flags at least as often as aes67_rtp_engine_stop and              *)
(* aes67_sap_stop wait, and aes67_ptp_stop waits, too.                     *)
WaitsAreLongEnough == LookMax <= Waits["rtp"] /\ LookMax <= Waits["sap"] /\ 0 < Waits["ptp"]

(* Why a task may be there: its part runs, or is being stopped and the     *)
(* task looks at the flag before the wait is over; or at the very end of   *)
(* it, before the wait for the next part has begun to pass.                *)
Stays(t, part, next) ==
  \/ part \in running
  \/ Stopping(part) /\ call.waiting /\ t.timer <= call.timer
  \/ Stopping(next) /\ t.timer = 0 /\ IF call.waiting THEN call.timer > 0 ELSE next \in running

(* The tasks, and the announcing task before it is made again. *)
TasksType ==
  \A t \in BagToSet(tasks) :
    t = [kind |-> t.kind, timer |-> t.timer] /\ t.kind \in DOMAIN Owner \cup {"stale"}
                                             /\ t.timer \in 0 .. LookMax

RxLeaves == \A t \in BagToSet(tasks) : t.kind = "rtp_rx" => Stays(t, "rtp", "ptp")
TxLeaves == \A t \in BagToSet(tasks) : t.kind = "sap_tx" => Stays(t, "sap", "rtp")
NoTxYet  == call.op = "start" /\ call.at = "sap_tx" => \A t \in BagToSet(tasks) : t.kind # "sap_tx"

TaskInv == TasksType /\ RxLeaves /\ TxLeaves /\ NoTxYet

(* The tasks of a bag, when some are added, when one leaves, ... *)
LEMMA DomainOfUnion ==
  ASSUME NEW B, NEW C
  PROVE  BagToSet(B (+) C) = BagToSet(B) \cup BagToSet(C)
BY DEF (+), BagToSet

LEMMA DomainOfRest ==
  ASSUME NEW B, NEW C
  PROVE  BagToSet(B (-) C) \subseteq BagToSet(B)
BY DEF (-), BagToSet

LEMMA DomainOfSet ==
  ASSUME NEW S
  PROVE  BagToSet(SetToBag(S)) = S
BY DEF SetToBag, BagToSet

(* ... when all get older, and when a part is freed under them. *)
LEMMA DomainOfTick ==
  ASSUME Tick
  PROVE BagToSet(tasks') = {[t EXCEPT !.timer = Earlier(@)] : t \in BagToSet(tasks)}
BY DEF Tick, BagOfAll, BagToSet

LEMMA DomainOfDestroy ==
  ASSUME NEW part, NEW next, Destroy(part, next)
  PROVE  \A t \in BagToSet(tasks') : t \in BagToSet(tasks) \/ t = Task("stale")
BY DEF Destroy, BagOfAll, BagToSet

(* The two pairs of a part whose tasks must leave and the part after it. *)
Pair(part, next) == (part = "rtp" /\ next = "ptp") \/ (part = "sap" /\ next = "rtp")

(* No call takes a task's reason to stay, or to be about to leave.         *)
LEMMA BeginKeepsReason ==
  ASSUME LifeInv, (\E sap \in BOOLEAN : InitBegin(sap)) \/ StartBegin \/ StopBegin
                                                        \/ DestroyBegin,
         NEW t, NEW part, NEW next, Pair(part, next), Stays(t, part, next)
  PROVE  Stays(t, part, next)'
<1>1. call.op = "none" /\ running' = running
  BY DEF InitBegin, StartBegin, StopBegin, DestroyBegin, Idle, NoCall
<1> QED BY <1>1 DEF Stays, Stopping

(* There is none in an init or a destroy, when nothing runs. *)
LEMMA InitKeepsReason ==
  ASSUME LifeInv, call.op \in {"init", "free"},
         NEW t, NEW part, NEW next, Pair(part, next)
  PROVE  ~Stays(t, part, next)
BY DEF Stays, Stopping, LifeInv, CallInv, InitInv, FreeInv

(* A start takes none away, ... *)
LEMMA StartKeepsReason ==
  ASSUME LifeInv, call.op = "start", running \subseteq running',
         NEW t, NEW part, NEW next, Pair(part, next), Stays(t, part, next)
  PROVE  Stays(t, part, next)'
BY DEF Stays, Stopping

(* ... and a stop waits long enough for those whose flag it clears. *)
LEMMA StopKeepsReason ==
  ASSUME LifeInv, WaitsAreLongEnough,
         \/ \E p \in DOMAIN Stopped : StopFlag(p) \/ StopSkip(p)
         \/ StopAudio \/ StopSap \/ StopRtp \/ StopPtp \/ StopEnd,
         NEW t, NEW part, NEW next, Pair(part, next), Stays(t, part, next),
           t.timer \in 0 .. LookMax
  PROVE  Stays(t, part, next)'
<1>0. /\ DOMAIN Stopped = Chain /\ next # "sap"
      /\ Stopped["sap"] = "rtp" /\ Stopped["rtp"] = "ptp"
      /\ Stopped[part] = next
      /\ part \in Chain /\ next \in Chain /\ part # "audio" /\ next \in Whole
      /\ LookMax <= Waits[part] /\ 0 < Waits[next]
      /\ LookMax \in Nat /\ LookMax > 0 /\ Waits[part] \in Nat /\ Waits[next] \in Nat
  BY NodeLifeAssumption DEF Stopped, Chain, Pair, WaitsAreLongEnough, Whole, Wanted, Parts
<1>1. ASSUME NEW p \in Chain, StopFlag(p)
      PROVE  Stays(t, part, next)'
  <2>1. /\ call.op \in {"undo", "stop", "destroy"} /\ call.at = p /\ call.waiting = FALSE
        /\ p \in running /\ p \in Whole /\ p # "node"
        /\ running \ {"node"} = LeftToStop(p) \cap Whole
        /\ running' = running \ {p}
    <3>1. Stopping(p) /\ call.waiting = FALSE /\ p \in running /\ running' = running \ {p}
      BY <1>1 DEF StopFlag, LifeInv, LifeType
    <3> QED BY <1>0, <3>1, InStop DEF LeftToStop, Chain
  <2>2. call'.op = call.op /\ call'.at = p /\ call'.waiting = TRUE /\ call'.timer = Waits[p]
    BY <1>1, <2>1 DEF StopFlag, LifeInv, LifeType
  <2>3. CASE p = part
    BY <1>0, <2>1, <2>2, <2>3 DEF Stays, Stopping
  <2>4. CASE p = next
    <3>1. part \notin running /\ ~Stopping(part)
      BY <2>1, <2>4 DEF Pair, LeftToStop, Stopping
    <3> QED BY <1>0, <2>1, <2>2, <2>4, <3>1 DEF Stays, Stopping
  <2>5. CASE p # part /\ p # next
    BY <1>0, <2>1, <2>2, <2>5 DEF Stays, Stopping
  <2> QED BY <2>3, <2>4, <2>5
<1>2. ASSUME NEW p \in Chain, StopSkip(p)
      PROVE  Stays(t, part, next)'
  BY <1>0, <1>2, InStop DEF StopSkip, Stays, Stopping
<1>3. ASSUME NEW p \in Chain, StopPart(p)
      PROVE  Stays(t, part, next)'
  <2>1. /\ call.op \in {"undo", "stop", "destroy"} /\ call.at = p /\ call.waiting = TRUE
        /\ call.timer = 0
        /\ running \ {"node"} = (LeftToStop(p) \cap Whole) \ {p}
        /\ running' = running /\ p # "node"
    BY <1>3, InStop DEF StopPart
  <2>2. call'.op = call.op /\ call'.at = Stopped[p] /\ call'.waiting = FALSE
    BY <1>3, Going DEF StopPart
  <2>3. CASE part \in running
    BY <2>1, <2>3 DEF Stays
  <2>4. CASE part \notin running
    <3>1. p = part /\ t.timer = 0
      BY <1>0, <2>1, <2>4 DEF Stays, Stopping
    <3>2. next \in running
      BY <1>0, <2>1, <3>1 DEF Pair, LeftToStop
    <3> QED BY <1>0, <2>1, <2>2, <3>1, <3>2 DEF Stays, Stopping
  <2> QED BY <2>3, <2>4
<1>4. CASE StopEnd
  <2>1. call.at = "node" /\ part \notin running /\ part # "node" /\ next # "node"
    BY <1>4, InStop DEF StopEnd, LeftToStop, Pair
  <2> QED BY <2>1 DEF Stays, Stopping
<1>5. CASE StopAudio \/ StopSap \/ StopRtp \/ StopPtp
  BY <1>3, <1>5 DEF StopAudio, StopSap, StopRtp, StopPtp, Chain
<1> QED BY <1>0, <1>1, <1>2, <1>4, <1>5

(* No step but a failed start of the announcing task, which there is none  *)
(* of then, takes it.                                                      *)
LEMMA ReasonKept ==
  ASSUME LifeInv, WaitsAreLongEnough,
         \/ (\E sap \in BOOLEAN : InitBegin(sap)) \/ StartBegin \/ StopBegin \/ DestroyBegin
         \/ CallStep
         \/ \E p \in Parts : InitFails(p)
         \/ MonitorFails \/ RtpFails \/ SapFails \/ AudioFails,
         NEW t, NEW part, NEW next, Pair(part, next), Stays(t, part, next),
           t.timer \in 0 .. LookMax
  PROVE  Stays(t, part, next)'
<1>1. ASSUME \/ InitPtp \/ InitRtp \/ InitSap \/ InitAudio \/ InitSession \/ InitNode
             \/ \E p \in Parts : InitFails(p)
             \/ DestroySession \/ DestroyAudio \/ DestroySap \/ DestroyRtp \/ DestroyPtp
             \/ DestroyNode
      PROVE  FALSE
  <2>1. call.op \in {"init", "free"}
    BY <1>1, Being
       DEF InitPtp, InitRtp, InitSap, InitAudio, InitSession, InitNode, Made, InitFails,
           DestroySession,
           DestroyAudio, DestroySap, DestroyRtp, DestroyPtp, DestroyNode, Destroy
  <2> QED BY <2>1, InitKeepsReason
<1>2. ASSUME \/ StartDaemon \/ StartRefused \/ StartMonitor \/ StartRtp \/ StartSap
             \/ StartSapTx \/ SapUndo
             \/ StartAudio \/ StartNode \/ RtpFails \/ SapFails \/ AudioFails
      PROVE  Stays(t, part, next)'
  <2>1. call.op = "start"
    BY <1>2, Being
       DEF StartDaemon, StartRefused, StartMonitor, StartRtp, StartSap, StartSapTx, SapUndo,
           StartAudio,
           StartNode, RtpFails, SapFails, AudioFails
  <2>2. running \subseteq running'
    BY <1>2
       DEF StartDaemon, StartRefused, StartMonitor, StartRtp, StartSap, StartSapTx, SapUndo,
           StartAudio,
           StartNode, RtpFails, SapFails, AudioFails
  <2> QED BY <2>1, <2>2, StartKeepsReason
<1>3. CASE MonitorFails
  <2>1. call.op = "start" /\ running = {"ptp"}
    BY <1>3, InStart DEF MonitorFails, StartedBefore
  <2> QED BY <2>1 DEF Stays, Stopping, Pair
<1> QED BY <1>1, <1>2, <1>3, BeginKeepsReason, StopKeepsReason DEF CallStep

(* A start that is about to make the announcing task has just made the     *)
(* receiving one, or has failed to and waits for it.                       *)
LEMMA AboutToAnnounce ==
  ASSUME LifeInv, Next, call'.op = "start", call'.at = "sap_tx"
  PROVE  StartSap \/ (call.op = "start" /\ call.at = "sap_tx")
<1>1. \A op, at : GoTo(op, at) => op = "start" /\ at = "sap_tx"
  BY Going
<1>2. call' # NoCall
  BY DEF NoCall
<1>3. ASSUME (\E sap \in BOOLEAN : InitBegin(sap)) \/ StartBegin \/ StopBegin \/ DestroyBegin
      PROVE  FALSE
  BY <1>1, <1>3 DEF InitBegin, StartBegin, StopBegin, DestroyBegin
<1>4. ASSUME InitPtp \/ InitRtp \/ InitSap \/ InitAudio \/ InitSession \/ InitNode
      PROVE  FALSE
  BY <1>1, <1>2, <1>4 DEF InitPtp, InitRtp, InitSap, InitAudio, InitSession, InitNode, Made
<1>5. ASSUME DestroySession \/ DestroyAudio \/ DestroySap \/ DestroyRtp \/ DestroyPtp
                            \/ DestroyNode
      PROVE  FALSE
  BY <1>1, <1>2, <1>5
     DEF DestroySession, DestroyAudio, DestroySap, DestroyRtp, DestroyPtp, DestroyNode, Destroy
<1>6. ASSUME StartDaemon \/ StartRefused \/ StartMonitor \/ StartRtp \/ StartSapTx \/ SapUndo
                         \/ StartAudio \/ StartNode
      PROVE  FALSE
  BY <1>1, <1>2, <1>6
     DEF StartDaemon, StartRefused, StartMonitor, StartRtp, StartSapTx, SapUndo, UndoFrom,
         StartAudio, StartNode
<1>7. ASSUME NEW p \in DOMAIN Stopped, StopFlag(p) \/ StopSkip(p) \/ StopPart(p)
      PROVE  FALSE
  <2>1. call.op \in {"undo", "stop", "destroy"}
    BY <1>7 DEF StopFlag, StopSkip, StopPart, Stopping
  <2>2. StopFlag(p) => call'.op = call.op
    BY <2>1 DEF StopFlag, LifeInv, LifeType
  <2> QED BY <1>1, <1>7, <2>1, <2>2 DEF StopSkip, StopPart
<1>8. ASSUME StopAudio \/ StopSap \/ StopRtp \/ StopPtp \/ StopEnd
      PROVE  FALSE
  <2>1. {"audio", "sap", "rtp", "ptp"} = DOMAIN Stopped
    BY DEF Stopped
  <2>2. ~StopEnd
    BY <1>1, <1>2 DEF StopEnd
  <2> QED BY <1>7, <1>8, <2>1, <2>2 DEF StopAudio, StopSap, StopRtp, StopPtp
<1>9. ASSUME Failure
      PROVE  call.op = "start" /\ call.at = "sap_tx"
  <2>1. ~(\E part \in Parts : InitFails(part))
    BY <1>1 DEF InitFails
  <2>2. ~(MonitorFails \/ RtpFails \/ SapFails \/ AudioFails)
    BY <1>1, <1>2 DEF MonitorFails, RtpFails, SapFails, AudioFails, UndoFrom
  <2>3. SapTxFails => call.op = "start" /\ call.at = "sap_tx"
    BY InStart DEF SapTxFails
  <2>4. DaemonFails => call' = call
    BY DEF DaemonFails
  <2>5. ~(CrashStale \/ CrashNull)
    BY <1>2 DEF CrashStale, CrashNull, Reboot, NoCall
  <2> QED BY <1>9, <2>1, <2>2, <2>3, <2>4, <2>5 DEF Failure
<1>10. ASSUME (\E t \in BagToSet(tasks) : Look(t)) \/ LeaveStale \/ DaemonUp \/ DaemonExit \/ Tick
       PROVE  call'.op = call.op /\ call'.at = call.at
  BY <1>10 DEF Look, LeaveStale, DaemonUp, DaemonExit, Tick, LifeInv, LifeType
<1> QED BY <1>3, <1>4, <1>5, <1>6, <1>7, <1>8, <1>9, <1>10 DEF Next, CallStep

(* Whence the tasks that are there after a step. *)
LEMMA WhenceTasks ==
  ASSUME LifeInv, TasksType, Next, ~Tick, ~Reboot, NEW t \in BagToSet(tasks')
  PROVE  \/ t \in BagToSet(tasks)
         \/ t = Task("stale")
         \/ \E kind \in DOMAIN Owner :
              /\ t = Task(kind) /\ Owner[kind] \in running'
              /\ kind = "sap_tx" => StartSapTx \/ \E u \in BagToSet(tasks) : u.kind = "sap_tx"
<1>0. /\ DOMAIN Owner = {"rtp_rx", "sap_rx", "sap_tx", "tic"}
      /\ Owner["rtp_rx"] = "rtp" /\ Owner["sap_rx"] = "sap" /\ Owner["sap_tx"] = "sap"
      /\ Owner["tic"] = "node"
  BY DEF Owner
<1>1. CASE UNCHANGED tasks
  BY <1>1
<1>2. ASSUME NEW kind, Spawn(kind)
      PROVE  t \in BagToSet(tasks) \/ t = Task(kind)
  BY <1>2, DomainOfUnion, DomainOfSet DEF Spawn
<1>3. CASE StartRtp
  BY <1>0, <1>2, <1>3 DEF StartRtp
<1>4. CASE StartSap
  BY <1>0, <1>2, <1>4 DEF StartSap
<1>5. CASE StartSapTx
  <2>1. "sap" \in running'
    BY <1>5, InStart DEF StartSapTx, StartedBefore
  <2> QED BY <1>0, <1>2, <1>5, <2>1 DEF StartSapTx
<1>6. CASE StartNode
  BY <1>0, <1>1, <1>2, <1>6 DEF StartNode
<1>7. ASSUME NEW part, NEW next, Destroy(part, next)
      PROVE  t \in BagToSet(tasks) \/ t = Task("stale")
  BY <1>7, DomainOfDestroy
<1>8. CASE DestroySession \/ DestroyAudio \/ DestroySap \/ DestroyRtp \/ DestroyPtp \/ DestroyNode
  BY <1>7, <1>8 DEF DestroySession, DestroyAudio, DestroySap, DestroyRtp, DestroyPtp, DestroyNode
<1>9. ASSUME NEW u \in BagToSet(tasks), Look(u)
      PROVE  \/ t \in BagToSet(tasks)
             \/ /\ t = Task(u.kind) /\ u.kind \in DOMAIN Owner /\ Owner[u.kind] \in running'
  <2>1. CASE Owner[u.kind] \in running
    BY <1>9, <2>1, DomainOfUnion, DomainOfRest, DomainOfSet DEF Look
  <2>2. CASE Owner[u.kind] \notin running
    BY <1>9, <2>2, DomainOfUnion, DomainOfRest, DomainOfSet DEF Look, EmptyBag
  <2> QED BY <2>1, <2>2
<1>10. CASE LeaveStale
  BY <1>10, DomainOfRest DEF LeaveStale
<1>11. ASSUME \/ (\E sap \in BOOLEAN : InitBegin(sap)) \/ StartBegin \/ StopBegin \/ DestroyBegin
              \/ InitPtp \/ InitRtp \/ InitSap \/ InitAudio \/ InitSession \/ InitNode
              \/ StartDaemon \/ StartRefused \/ StartMonitor \/ SapUndo \/ StartAudio
       PROVE  UNCHANGED tasks
  BY <1>11
     DEF InitBegin, StartBegin, StopBegin, DestroyBegin, InitPtp, InitRtp, InitSap, InitAudio,
         InitSession,
         InitNode, Made, StartDaemon, StartRefused, StartMonitor, SapUndo, StartAudio
<1>12. ASSUME \/ \E part \in DOMAIN Stopped : StopFlag(part) \/ StopSkip(part)
              \/ StopAudio \/ StopSap \/ StopRtp \/ StopPtp \/ StopEnd
              \/ DaemonUp \/ DaemonExit
       PROVE  UNCHANGED tasks
  BY <1>12 DEF StopFlag, StopSkip, StopAudio, StopSap, StopRtp, StopPtp, StopPart, StopEnd,
               DaemonUp, DaemonExit
<1>13. ASSUME Failure
       PROVE  UNCHANGED tasks
  BY <1>13
     DEF Failure, InitFails, MonitorFails, RtpFails, SapFails, SapTxFails, AudioFails,
         DaemonFails,
         CrashStale, CrashNull
<1>14. ASSUME CallStep
       PROVE  \/ UNCHANGED tasks \/ StartRtp \/ StartSap \/ StartSapTx \/ StartNode
              \/ DestroySession \/ DestroyAudio \/ DestroySap \/ DestroyRtp \/ DestroyPtp
              \/ DestroyNode
  BY <1>11, <1>12, <1>14 DEF CallStep
<1> QED
  BY <1>1, <1>3, <1>4, <1>5, <1>6, <1>8, <1>9, <1>10, <1>11, <1>12, <1>13, <1>14 DEF Next

(* The waits and the tasks get older alike. *)
LEMMA TickKeepsTasks ==
  ASSUME LifeInv, TaskInv, Tick
  PROVE  TaskInv'
<1> DEFINE Older(t) == [t EXCEPT !.timer = Earlier(@)]
<1>1. \A t \in BagToSet(tasks) : Older(t) = [kind |-> t.kind, timer |-> Earlier(t.timer)]
  BY DEF TaskInv, TasksType
<1>2. BagToSet(tasks') = {Older(t) : t \in BagToSet(tasks)}
  BY DomainOfTick
<1> HIDE DEF Older
<1>3. /\ call'.op = call.op /\ call'.at = call.at /\ call'.waiting = call.waiting
      /\ call'.timer = Earlier(call.timer) /\ call.timer \in Nat
      /\ running' = running
  BY DEF Tick, LifeInv, LifeType
<1>4. \A t \in BagToSet(tasks) :
        t.timer \in 0 .. LookMax /\ (t.kind \in {"rtp_rx", "sap_tx"} => t.timer > 0)
  BY DEF Tick, Of, Prompt, TaskInv, TasksType
<1>5. ASSUME NEW t \in BagToSet(tasks), NEW u, u = [kind |-> t.kind, timer |-> Earlier(t.timer)],
             NEW part, NEW next, t.kind \in {"rtp_rx", "sap_tx"}, Stays(t, part, next)
      PROVE  Stays(u, part, next)'
  <2>1. t.timer \in Nat /\ t.timer > 0 /\ u.timer = t.timer - 1
    BY <1>4, <1>5, NodeLifeAssumption DEF Earlier
  <2>2. CASE part \in running
    BY <1>3, <2>2 DEF Stays
  <2>3. CASE Stopping(part) /\ call.waiting /\ t.timer <= call.timer
    BY <1>3, <2>1, <2>3 DEF Stays, Stopping, Earlier
  <2> QED BY <1>5, <2>1, <2>2, <2>3 DEF Stays
<1>6. TasksType'
  <2> SUFFICES ASSUME NEW u \in BagToSet(tasks')
               PROVE  /\ u = [kind |-> u.kind, timer |-> u.timer]
                      /\ u.kind \in DOMAIN Owner \cup {"stale"} /\ u.timer \in 0 .. LookMax
    BY DEF TasksType
  <2>1. PICK t \in BagToSet(tasks) : u = [kind |-> t.kind, timer |-> Earlier(t.timer)]
    BY <1>1, <1>2, Zenon
  <2> QED BY <1>4, <2>1, NodeLifeAssumption DEF TaskInv, TasksType, Earlier
<1>7. ASSUME NEW u \in BagToSet(tasks')
      PROVE  \E t \in BagToSet(tasks) : u.kind = t.kind
        /\ u = [kind |-> t.kind, timer |-> Earlier(t.timer)]
  <2>1. PICK t \in BagToSet(tasks) : u = [kind |-> t.kind, timer |-> Earlier(t.timer)]
    BY <1>1, <1>2, Zenon
  <2> QED BY <2>1
<1>8. RxLeaves' /\ TxLeaves'
  BY <1>5, <1>7 DEF RxLeaves, TxLeaves, TaskInv
<1>9. NoTxYet'
  BY <1>3, <1>7 DEF NoTxYet, TaskInv
<1> QED BY <1>6, <1>8, <1>9 DEF TaskInv

(* Every step keeps the reasons of the tasks. *)
LEMMA NextTasks ==
  ASSUME LifeInv, TaskInv, WaitsAreLongEnough, [Next]_vars \/ Reboot
  PROVE  TaskInv'
<1>1. CASE UNCHANGED vars
  BY <1>1 DEF vars, TaskInv, TasksType, RxLeaves, TxLeaves, NoTxYet, Stays, Stopping
<1>2. CASE Reboot
  <2>1. BagToSet(tasks') = {}
    BY <1>2, DomainOfSet DEF Reboot, EmptyBag
  <2> QED BY <2>1 DEF TaskInv, TasksType, RxLeaves, TxLeaves, NoTxYet
<1>3. CASE Next /\ ~Tick /\ ~Reboot
  <2>1. TasksType'
    <3>1. \A kind \in DOMAIN Owner \cup {"stale"} :
            /\ Task(kind) = [kind |-> Task(kind).kind, timer |-> Task(kind).timer]
            /\ Task(kind).kind = kind /\ Task(kind).timer \in 0 .. LookMax
      BY NodeLifeAssumption DEF Task
    <3> QED BY <1>3, <3>1, WhenceTasks DEF TaskInv, TasksType
  <2>2. Pair("rtp", "ptp") /\ Pair("sap", "rtp")
    BY DEF Pair
  <2>3. Owner["rtp_rx"] = "rtp" /\ Owner["sap_tx"] = "sap"
    BY DEF Owner
  <2>4. \A kind : Task(kind).kind = kind
    BY DEF Task
  <2>5. ASSUME NEW t \in BagToSet(tasks), NEW part, NEW next, Pair(part, next),
               Stays(t, part, next),
               ~SapTxFails
        PROVE  Stays(t, part, next)'
    <3>1. t.timer \in 0 .. LookMax
      BY DEF TaskInv, TasksType
    <3>2. CASE (\E u \in BagToSet(tasks) : Look(u)) \/ LeaveStale \/ DaemonUp \/ DaemonExit
                                                    \/ DaemonFails
      BY <2>5, <3>2 DEF Look, LeaveStale, DaemonUp, DaemonExit, DaemonFails, Stays, Stopping
    <3> QED BY <1>3, <2>5, <3>1, <3>2, ReasonKept DEF Next, Failure, CrashStale, CrashNull
  <2>6. CASE SapTxFails
    <3>1. /\ call.op = "start" /\ call.at = "sap_tx" /\ tasks' = tasks
          /\ "rtp" \in running /\ running' = running \ {"sap"}
      BY <2>6, InStart DEF SapTxFails, StartedBefore
    <3>2. \A t \in BagToSet(tasks') : t.kind # "sap_tx"
      BY <3>1 DEF TaskInv, NoTxYet
    <3> QED BY <2>1, <3>1, <3>2 DEF TaskInv, RxLeaves, TxLeaves, NoTxYet, Stays
  <2>7. CASE ~SapTxFails
    <3>1. RxLeaves'
      <4> SUFFICES ASSUME NEW t \in BagToSet(tasks'), t.kind = "rtp_rx"
                   PROVE  Stays(t, "rtp", "ptp")'
        BY DEF RxLeaves
      <4>1. CASE t \in BagToSet(tasks)
        BY <2>2, <2>5, <2>7, <4>1 DEF TaskInv, RxLeaves
      <4>2. CASE t \notin BagToSet(tasks)
        <5>1. "rtp" \in running'
          BY <1>3, <2>3, <2>4, <4>2, WhenceTasks DEF TaskInv
        <5> QED BY <5>1 DEF Stays
      <4> QED BY <4>1, <4>2
    <3>2. TxLeaves'
      <4> SUFFICES ASSUME NEW t \in BagToSet(tasks'), t.kind = "sap_tx"
                   PROVE  Stays(t, "sap", "rtp")'
        BY DEF TxLeaves
      <4>1. CASE t \in BagToSet(tasks)
        BY <2>2, <2>5, <2>7, <4>1 DEF TaskInv, TxLeaves
      <4>2. CASE t \notin BagToSet(tasks)
        <5>1. "sap" \in running'
          BY <1>3, <2>3, <2>4, <4>2, WhenceTasks DEF TaskInv
        <5> QED BY <5>1 DEF Stays
      <4> QED BY <4>1, <4>2
    <3>3. NoTxYet'
      <4> SUFFICES ASSUME call'.op = "start", call'.at = "sap_tx", NEW t \in BagToSet(tasks'),
                          t.kind = "sap_tx"
                   PROVE  FALSE
        BY DEF NoTxYet
      <4>1. ~StartSapTx
        <5>1. GoTo("start", "audio") => call'.at = "audio"
          BY Going
        <5> QED BY <5>1 DEF StartSapTx
      <4>2. \A u \in BagToSet(tasks) : u.kind # "sap_tx"
        <5>1. CASE StartSap
          <6>1. "sap" \notin running /\ call.op = "start"
            BY <5>1, InStart DEF StartSap, StartedBefore
          <6> QED BY <6>1 DEF TaskInv, TxLeaves, Stays, Stopping
        <5>2. CASE call.op = "start" /\ call.at = "sap_tx"
          BY <5>2 DEF TaskInv, NoTxYet
        <5> QED BY <1>3, <5>1, <5>2, AboutToAnnounce
      <4> QED BY <1>3, <2>4, <4>1, <4>2, WhenceTasks DEF TaskInv
    <3> QED BY <2>1, <3>1, <3>2, <3>3 DEF TaskInv
  <2> QED BY <2>6, <2>7
<1> QED BY <1>1, <1>2, <1>3, TickKeepsTasks
------------------------------------------------------------------------------
(* Every step with the frame timer is a step in the life of a node, or the *)
(* device boots on account of the timer.                                   *)
LEMMA StepsOfLife == [FramesNext]_allVars => [Next]_vars \/ Reboot
<1>1. ASSUME InitNodeTimer \/ StartNodeTimer \/ OtherCallStep
      PROVE  Next
  BY <1>1 DEF InitNodeTimer, StartNodeTimer, OtherCallStep, CallStep, Next
<1>2. ASSUME InitNodeFails \/ OtherFailure
      PROVE  Next
  BY <1>2 DEF InitNodeFails, OtherFailure, Parts, Failure, Next
<1>3. ASSUME StartTimer \/ Tic \/ IsrStopped \/ Advance \/ StepBack \/ StepAhead
                        \/ UNCHANGED allVars
      PROVE  UNCHANGED vars
  BY <1>3 DEF StartTimer, Tic, IsrStopped, Advance, StepBack, StepAhead, allVars
<1>4. ASSUME CrashNoSemaphore \/ Crash
      PROVE  Reboot
  BY <1>4 DEF CrashNoSemaphore, Crash, CrashStale, CrashNull
<1>5. ASSUME OtherStep
      PROVE  Next
  BY <1>5 DEF OtherStep, Next
<1> QED BY <1>1, <1>2, <1>3, <1>4, <1>5 DEF FramesNext

(* What exists, what runs and which sockets are open, at every point of    *)
(* every call, whichever step of it fails.                                 *)
THEOREM LifeInvariant == FramesSpec => []LifeInv
<1>1. FramesInit => LifeInv
  BY BootLife DEF FramesInit, Init
<1>2. LifeInv /\ [FramesNext]_allVars => LifeInv'
  BY StepsOfLife, NextLife
<1> QED BY <1>1, <1>2, PTL DEF FramesSpec

(* Between two calls either all parts of a node run or none does.          *)
THEOREM PartsRunTogether == FramesSpec => []RunningTogether
<1>1. LifeInv => RunningTogether
  BY DEF LifeInv, CallInv, IdleInv, RunningTogether, Idle, NoCall
<1> QED BY <1>1, LifeInvariant, PTL

(* Between two calls there is a node with everything that it was made      *)
(* with, or none, and then no context and no socket is left over; of what  *)
(* was allocated beside the contexts just what the code never frees may    *)
(* be.  SAP has a socket while it runs.                                    *)
THEOREM NothingStaysOpen == FramesSpec => []NothingLeftOpen
<1>1. ASSUME LifeInv, HeldInv
      PROVE  NothingLeftOpen
  <2> SUFFICES ASSUME Idle
               PROVE  /\ exists \in {{}, Whole}
                      /\ exists = {} => held \subseteq NeverFreed
                      /\ exists = Whole => UNION {Objects(part) : part \in Parts} \subseteq held
                      /\ sockets.rtp = Cardinality(exists \cap {"rtp"})
                      /\ sockets.sap = Cardinality(running \cap {"sap"})
    BY DEF NothingLeftOpen
  <2>1. call.op = "none" /\ ~call.waiting
    BY DEF Idle, NoCall
  <2>2. \A S, e : Cardinality(S \cap {e}) = IF e \in S THEN 1 ELSE 0
    <3>1. Cardinality({}) = 0 /\ \A e : Cardinality({e}) = 1
      BY FS_EmptySet, FS_Singleton
    <3>2. \A S, e : S \cap {e} = IF e \in S THEN {e} ELSE {}
      OBVIOUS
    <3> QED BY <3>1, <3>2
  <2>3. exists = {} => held \subseteq NeverFreed
    BY <1>1 DEF HeldInv
  <2>4. exists = Whole => UNION {Objects(part) : part \in Parts} \subseteq held
    <3> SUFFICES ASSUME exists = Whole, NEW part \in Parts
                 PROVE  Objects(part) \subseteq held
      OBVIOUS
    <3>1. CASE Wanted(part)
      BY <1>1, <3>1 DEF Whole, HeldInv
    <3>2. CASE ~Wanted(part)
      BY <3>2 DEF Wanted, Objects
    <3> QED BY <3>1, <3>2
  <2> QED BY <1>1, <2>1, <2>2, <2>3, <2>4 DEF LifeInv, CallInv, IdleInv, SocketInv
<1>2. FramesInit => HeldInv
  BY DEF FramesInit, Init, HeldInv
<1>3. HeldInv /\ [FramesNext]_allVars => HeldInv'
  BY StepsOfLife, NextHeld
<1> QED BY <1>1, <1>2, <1>3, LifeInvariant, PTL DEF FramesSpec

(* If the waits are long enough for the looks, the task that receives RTP  *)
(* packets and the one that announces have left when a node is stopped, is *)
(* being made or freed.  Nothing is said of the task that listens to SAP   *)
(* and of the frame task, for which nobody waits.                          *)
THEOREM TasksStopInTime == WaitsAreLongEnough => (FramesSpec => []StopsInTime)
<1> SUFFICES ASSUME WaitsAreLongEnough
             PROVE  FramesSpec => []StopsInTime
  OBVIOUS
<1>1. FramesInit => TaskInv
  <2> SUFFICES ASSUME tasks = EmptyBag
               PROVE  TaskInv
    BY DEF FramesInit, Init
  <2>1. BagToSet(tasks) = {}
    BY DomainOfSet DEF EmptyBag
  <2> QED BY <2>1 DEF TaskInv, TasksType, RxLeaves, TxLeaves, NoTxYet
<1>2. LifeInv /\ TaskInv /\ [FramesNext]_allVars => TaskInv'
  BY StepsOfLife, NextTasks
<1>3. LifeInv /\ TaskInv => StopsInTime
  <2> SUFFICES ASSUME LifeInv, TaskInv, call.op \in {"none", "init", "free"},
                      "node" \notin running
               PROVE  \A t \in BagToSet(tasks) : t.kind \notin {"rtp_rx", "sap_tx"}
    BY DEF StopsInTime, Of
  <2>1. running = {}
    BY DEF LifeInv, CallInv, IdleInv, InitInv, FreeInv, Whole, Parts, Wanted
  <2> QED BY <2>1 DEF TaskInv, RxLeaves, TxLeaves, Stays, Stopping
<1> QED BY <1>1, <1>2, <1>3, LifeInvariant, PTL DEF FramesSpec
=============================================================================
